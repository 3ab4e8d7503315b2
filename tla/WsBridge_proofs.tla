---------------------------- MODULE WsBridge_proofs ----------------------------
(* Theorems about WsBridge for any ports, connections and ring sizes.      *)
EXTENDS WsBridge, SequenceTheorems, FiniteSetTheorems, FunctionTheorems, TLAPS

-------------------------------------------------------------------------------
(* Lists and queues.                                                       *)

LEMMA HeadTailOf ==
  ASSUME NEW S, NEW s \in Seq(S), s # <<>>
  PROVE  /\ Head(s) \in S /\ Tail(s) \in Seq(S)
         /\ Range(s) = Range(Tail(s)) \cup {Head(s)}
         /\ Head(s) = s[1] /\ Len(Tail(s)) = Len(s) - 1 /\ Len(s) \in Nat \ {0}
         /\ \A i \in DOMAIN Tail(s) : i + 1 \in DOMAIN s /\ Tail(s)[i] = s[i + 1]
         /\ IsInjective(s) => IsInjective(Tail(s)) /\ Head(s) \notin Range(Tail(s))
<1>1. /\ Head(s) \in S /\ Head(s) = s[1] /\ Tail(s) \in Seq(S)
      /\ Len(Tail(s)) = Len(s) - 1
      /\ \A i \in 1 .. Len(Tail(s)) : Tail(s)[i] = s[i + 1]
  BY HeadTailProperties
<1>2. /\ Len(s) \in Nat \ {0} /\ DOMAIN s = 1 .. Len(s)
      /\ DOMAIN Tail(s) = 1 .. Len(Tail(s))
  BY <1>1, LenProperties, EmptySeq
<1>3. \A i \in DOMAIN Tail(s) : i + 1 \in DOMAIN s /\ Tail(s)[i] = s[i + 1]
  BY <1>1, <1>2
<1>4. ASSUME NEW i \in DOMAIN s, i # 1
      PROVE  i - 1 \in DOMAIN Tail(s) /\ Tail(s)[i - 1] = s[i]
  <2>1. i - 1 \in 1 .. Len(Tail(s)) /\ (i - 1) + 1 = i
    BY <1>1, <1>2, <1>4
  <2> QED BY <2>1, <1>1, <1>2
<1>5. 1 \in DOMAIN s
  BY <1>2
<1>6. Range(s) = Range(Tail(s)) \cup {Head(s)}
  <2>1. Range(s) \subseteq Range(Tail(s)) \cup {Head(s)}
    BY <1>1, <1>4 DEF Range
  <2>2. Range(Tail(s)) \subseteq Range(s)
    BY <1>3 DEF Range
  <2>3. Head(s) \in Range(s)
    BY <1>1, <1>5 DEF Range
  <2> QED BY <2>1, <2>2, <2>3
<1>7. ASSUME IsInjective(s)
      PROVE  IsInjective(Tail(s)) /\ Head(s) \notin Range(Tail(s))
  <2>1. ASSUME NEW i \in DOMAIN Tail(s), NEW j \in DOMAIN Tail(s), Tail(s)[i] = Tail(s)[j]
        PROVE  i = j
    <3>1. i + 1 = j + 1
      BY <1>3, <1>7, <2>1 DEF IsInjective
    <3>2. i \in Nat /\ j \in Nat
      BY <1>2
    <3> QED BY <3>1, <3>2
  <2>2. ASSUME NEW i \in DOMAIN Tail(s), Tail(s)[i] = Head(s)
        PROVE  FALSE
    <3>1. i + 1 = 1
      BY <1>1, <1>3, <1>5, <1>7, <2>2 DEF IsInjective
    <3>2. i \in Nat \ {0}
      BY <1>2
    <3> QED BY <3>1, <3>2
  <2> QED BY <2>1, <2>2 DEF IsInjective, Range
<1> QED BY <1>1, <1>2, <1>3, <1>6, <1>7

LEMMA AppendOf ==
  ASSUME NEW S, NEW s \in Seq(S), NEW e \in S
  PROVE  LET t == Append(s, e)
         IN  /\ t \in Seq(S) /\ Range(t) = Range(s) \cup {e}
             /\ Len(s) \in Nat /\ Len(t) = Len(s) + 1 /\ t[Len(t)] = e
             /\ DOMAIN s = 1 .. Len(s) /\ DOMAIN t = 1 .. Len(s) + 1
             /\ \A i \in DOMAIN s : t[i] = s[i]
             /\ t # <<>>
             /\ IsInjective(s) /\ e \notin Range(s) => IsInjective(t)
<1> DEFINE t == Append(s, e)
<1>1. /\ t \in Seq(S) /\ Len(t) = Len(s) + 1
      /\ \A i \in 1 .. Len(s) : t[i] = s[i]
      /\ t[Len(s) + 1] = e
      /\ Len(s) \in Nat /\ DOMAIN s = 1 .. Len(s)
  BY AppendProperties, LenProperties
<1>2. DOMAIN t = 1 .. Len(s) + 1
  BY <1>1, LenProperties
<1> HIDE DEF t
<1>3. \A i \in DOMAIN t : i \in DOMAIN s \/ i = Len(s) + 1
  BY <1>1, <1>2
<1>4. Range(t) = Range(s) \cup {e}
  <2>1. Range(t) \subseteq Range(s) \cup {e}
    BY <1>1, <1>3 DEF Range
  <2>2. DOMAIN s \subseteq DOMAIN t /\ Len(s) + 1 \in DOMAIN t
    BY <1>1, <1>2
  <2>3. Range(s) \subseteq Range(t) /\ e \in Range(t)
    BY <1>1, <2>2 DEF Range
  <2> QED BY <2>1, <2>3
<1>5. IsInjective(s) /\ e \notin Range(s) => IsInjective(t)
  <2> SUFFICES ASSUME IsInjective(s), e \notin Range(s),
                      NEW i \in DOMAIN t, NEW j \in DOMAIN t, t[i] = t[j]
               PROVE  i = j
    BY DEF IsInjective
  <2>1. CASE i \in DOMAIN s /\ j \in DOMAIN s
    BY <2>1, <1>1 DEF IsInjective
  <2>2. CASE i = Len(s) + 1 /\ j \in DOMAIN s
    BY <2>2, <1>1 DEF Range
  <2>3. CASE i \in DOMAIN s /\ j = Len(s) + 1
    BY <2>3, <1>1 DEF Range
  <2>4. CASE i = Len(s) + 1 /\ j = Len(s) + 1
    BY <2>4
  <2> QED BY <2>1, <2>2, <2>3, <2>4, <1>3
<1>6. t # <<>>
  <2>1. Len(t) # 0
    BY <1>1
  <2> QED BY <2>1
<1> QED BY <1>1, <1>2, <1>4, <1>5, <1>6 DEF t

\* Each of the kept positions has a rank of its own, and each rank one.
LEMMA Ranks ==
  ASSUME NEW n \in Nat, NEW kept \in SUBSET (1 .. n)
  PROVE  /\ Cardinality(kept) \in Nat
         /\ \A k \in 1 .. Cardinality(kept) :
              \E i \in kept : Rank(i, kept) = k
<1> DEFINE rank == [i \in kept |-> Rank(i, kept)]
           m == Cardinality(kept)
<1>1. IsFiniteSet(kept) /\ m \in Nat
  <2>1. IsFiniteSet(1 .. n)
    BY FS_Interval
  <2>2. IsFiniteSet(kept)
    BY <2>1, FS_Subset
  <2> QED BY <2>2, FS_CardinalityType
<1>2. ASSUME NEW i \in kept
      PROVE  /\ IsFiniteSet({j \in kept : j <= i})
             /\ Rank(i, kept) \in 1 .. m
  <2> DEFINE T == {j \in kept : j <= i}
  <2>1. IsFiniteSet(T) /\ Cardinality(T) <= m
    BY <1>1, FS_Subset
  <2>2. Cardinality(T) \in Nat
    BY <2>1, FS_CardinalityType
  <2>3. i \in T
    OBVIOUS
  <2>4. Cardinality(T) # 0
    BY <2>1, <2>3, FS_EmptySet
  <2>5. Rank(i, kept) = Cardinality(T)
    BY DEF Rank
  <2> HIDE DEF T
  <2>6. Cardinality(T) \in 1 .. m
    BY <2>1, <2>2, <2>4, <1>1
  <2> QED BY <2>1, <2>5, <2>6 DEF T
<1>3. ASSUME NEW i \in kept, NEW j \in kept, i < j
      PROVE  rank[i] # rank[j]
  <2> DEFINE A == {l \in kept : l <= i}
             B == {l \in kept : l <= j}
  <2>1. A \subseteq B /\ j \in B /\ j \notin A
    <3>1. i \in Int /\ j \in Int /\ \A l \in kept : l \in Int
      OBVIOUS
    <3>2. j \in B /\ j \notin A
      BY <3>1, <1>3
    <3>3. ASSUME NEW l \in kept, l <= i
          PROVE  l <= j
      BY <3>1, <3>3, <1>3
    <3>4. A \subseteq B
      BY <3>3
    <3> QED BY <3>2, <3>4
  <2>2. IsFiniteSet(B)
    BY <1>2
  <2> HIDE DEF A, B
  <2>3. Cardinality(A) # Cardinality(B)
    BY <2>1, <2>2, FS_Subset
  <2> QED BY <2>3 DEF A, B, Rank
<1>4. rank \in Injection(kept, 1 .. m)
  <2>1. rank \in [kept -> 1 .. m]
    BY <1>2
  <2>2. ASSUME NEW i \in kept, NEW j \in kept, rank[i] = rank[j]
        PROVE  i = j
    <3>1. i \in Int /\ j \in Int /\ ~(i < j) /\ ~(j < i)
      BY <1>3, <2>2
    <3> QED BY <3>1
  <2> HIDE DEF rank
  <2> QED BY <2>1, <2>2, Fun_IsInj
<1>5. Cardinality(1 .. m) = m /\ IsFiniteSet(1 .. m)
  BY <1>1, FS_Interval
<1> HIDE DEF rank
<1>6. rank \in Surjection(kept, 1 .. m)
  BY <1>4, <1>5, FS_Injection
<1>7. \A k \in 1 .. m : \E i \in kept : rank[i] = k
  BY <1>6, Fun_SurjectionProperties
<1> QED BY <1>1, <1>7 DEF rank

\* What retain leaves: connections of the list but f, each as often as there.
LEMMA OthersOf ==
  ASSUME NEW S, NEW list \in Seq(S), NEW f
  PROVE  /\ Others(list, f) \in Seq(S)
         /\ Range(Others(list, f)) \subseteq Range(list) \ {f}
         /\ IsInjective(list) => IsInjective(Others(list, f))
<1> DEFINE kept == {i \in DOMAIN list : list[i] # f}
           m == Cardinality(kept)
           at == [k \in 1 .. m |-> CHOOSE i \in kept : Rank(i, kept) = k]
           o == [k \in 1 .. m |-> list[at[k]]]
<1>1. Others(list, f) = o
  BY DEF Others
<1>2. kept \in SUBSET (1 .. Len(list)) /\ Len(list) \in Nat
  BY LenProperties
<1>3. /\ m \in Nat
      /\ \A k \in 1 .. m : at[k] \in kept /\ Rank(at[k], kept) = k
  <2> DEFINE n == Len(list)
  <2>0. n \in Nat /\ kept \in SUBSET (1 .. n)
    BY <1>2
  <2> HIDE DEF kept, n
  <2>1. /\ m \in Nat
        /\ \A k \in 1 .. m : \E i \in kept : Rank(i, kept) = k
    BY <2>0, Ranks
  <2> QED BY <2>1
<1>4. \A k \in 1 .. m : at[k] \in DOMAIN list /\ list[at[k]] # f
  BY <1>3
<1> HIDE DEF kept, m, at
<1>5. o \in Seq(S)
  <2>1. \A k \in 1 .. m : list[at[k]] \in S
    BY <1>4, <1>2, ElementOfSeq, LenProperties
  <2> QED BY <2>1, <1>3, IsASeq
<1>6. DOMAIN o = 1 .. m /\ \A k \in 1 .. m : o[k] = list[at[k]]
  OBVIOUS
<1> HIDE DEF o
<1>7. Range(o) \subseteq Range(list) \ {f}
  BY <1>4, <1>6 DEF Range
<1>8. ASSUME IsInjective(list)
      PROVE  IsInjective(o)
  <2> SUFFICES ASSUME NEW k \in 1 .. m, NEW l \in 1 .. m, o[k] = o[l]
               PROVE  k = l
    BY <1>6 DEF IsInjective
  <2>1. at[k] = at[l]
    BY <1>4, <1>6, <1>8 DEF IsInjective
  <2> QED BY <2>1, <1>3
<1> QED BY <1>1, <1>5, <1>7, <1>8

-------------------------------------------------------------------------------
(* Types.                                                                  *)

LEMMA Ported ==
  /\ Ports \in Seq(Port) /\ Len(Ports) \in Nat \ {0} /\ DOMAIN Ports = 1 .. Len(Ports)
  /\ \A k \in 1 .. Len(Ports) : Ports[k] \in Port
  /\ \A p \in Port : p \notin {"none", "new", "closed"} /\ p # NoPort
  /\ Idle \in Httpd /\ Idle.at = "idle"
<1>1. Ports \in Seq(Port) /\ Ports # <<>>
  BY WsAssumption DEF WsAssumption
<1>2. Len(Ports) \in Nat \ {0} /\ DOMAIN Ports = 1 .. Len(Ports)
  BY <1>1, LenProperties, EmptySeq
<1>3. \A k \in 1 .. Len(Ports) : Ports[k] \in Port
  BY <1>1, ElementOfSeq
<1>4. Idle \in Httpd /\ Idle.at = "idle"
  <2>1. (CHOOSE f \in Fd : TRUE) \in Fd
    BY WsAssumption DEF WsAssumption
  <2>2. <<>> \in Seq(Port)
    OBVIOUS
  <2> QED BY <2>1, <2>2 DEF Idle, Httpd
<1> QED BY <1>1, <1>2, <1>3, <1>4, WsAssumption DEF WsAssumption

LEMMA HereIs == ASSUME ws_send \in Sender PROVE Here \in Port
BY Ported DEF Sender, Here

LEMMA NextStageOf ==
  ASSUME ws_send \in Sender,
         NEW at \in {"drain", "tx"}, NEW other \in {"drain", "tx"}, NextStage(at, other)
  PROVE  /\ ws_send' \in Sender /\ ws_send'.at \in {at, other}
         /\ ws_send'.data = <<>> /\ ws_send'.todo = <<>> /\ ws_send'.keep = <<>>
<1> DEFINE n == Len(Ports)
<1>1. n \in Nat \ {0} /\ ws_send.k \in 1 .. n
  BY Ported DEF Sender
<1>2. (ws_send.k % n) + 1 \in 1 .. n
  <2> HIDE DEF n
  <2>1. ws_send.k % n \in 0 .. n - 1
    BY <1>1
  <2> QED BY <1>1, <2>1
<1>3. <<>> \in Seq(Byte) /\ <<>> \in Seq(Fd)
  OBVIOUS
<1> DEFINE k == (ws_send.k % n) + 1
<1>4. PICK a \in {at, other} :
        ws_send' = [at |-> a, k |-> k, data |-> <<>>, todo |-> <<>>, keep |-> <<>>]
  BY DEF NextStage
<1> HIDE DEF k
<1>5. ws_send' \in Sender
  <2>1. k \in 1 .. Len(Ports)
    BY <1>2 DEF k
  <2> QED BY <2>1, <1>3, <1>4 DEF Sender
<1> QED BY <1>4, <1>5

\* What drain_lock, drain_tx_lock and the others leave of the locals.
LEMMA SenderOf ==
  ASSUME ws_send \in Sender, NEW at \in {"draining", "lock", "send", "wait", "tx_draining"},
         NEW data \in Seq(Byte), NEW todo \in Seq(Fd), NEW keep \in Seq(Fd),
         ws_send' = [ws_send EXCEPT !.at = at, !.data = data, !.todo = todo, !.keep = keep]
  PROVE  /\ ws_send' \in Sender /\ ws_send'.at = at /\ ws_send'.k = ws_send.k
         /\ ws_send'.data = data /\ ws_send'.todo = todo /\ ws_send'.keep = keep
BY DEF Sender

LEMMA ByteNext ==
  ASSUME TypeOK, NEW p \in Port
  PROVE  <<p, heard[p] + 1>> \in Byte
BY DEF TypeOK, Byte

\* What ws_enqueue does: b is dropped, or is the last of the ring, for whose
\* first byte there may be no place.
LEMMA EnqueueOf ==
  ASSUME TypeOK, NEW p \in Port, ws_enqueue(p)
  PROVE  LET b == <<p, heard[p] + 1>> IN
         /\ heard' = [heard EXCEPT ![p] = @ + 1]
         /\ UNCHANGED <<conn, senders, fd_port, tx, httpd, ws_send, work, typed>>
         /\ \/ /\ ring' = ring
               /\ hist' = [hist EXCEPT !.lost = hist.lost \cup {b}]
            \/ /\ ring' = [ring EXCEPT ![p] = Append(ring[p], b)]
               /\ Len(ring[p]) < WS_RING_CAP /\ hist' = hist
            \/ /\ ring[p] # <<>> /\ ring' = [ring EXCEPT ![p] = Append(Tail(ring[p]), b)]
               /\ hist' = [hist EXCEPT !.lost = hist.lost \cup {Head(ring[p])}]
<1> DEFINE b == <<p, heard[p] + 1>>
           full == Len(ring[p]) = WS_RING_CAP
<1>1. /\ heard' = [heard EXCEPT ![p] = @ + 1]
      /\ UNCHANGED <<conn, senders, fd_port, tx, httpd, ws_send, work, typed>>
  BY DEF ws_enqueue
<1>2. \/ /\ ring' = ring
         /\ hist' = [hist EXCEPT !.lost = hist.lost \cup {b}]
      \/ /\ ring' = [ring EXCEPT ![p] = Append(IF full THEN Tail(ring[p]) ELSE ring[p], b)]
         /\ hist' = [hist EXCEPT !.lost = IF full THEN hist.lost \cup {Head(ring[p])} ELSE hist.lost]
  BY DEF ws_enqueue
<1>3. Len(ring[p]) <= WS_RING_CAP /\ Len(ring[p]) \in Nat /\ WS_RING_CAP \in Nat \ {0}
  BY WsAssumption, LenProperties DEF WsAssumption, TypeOK
<1>4. full => ring[p] # <<>>
  BY <1>3
<1>5. ~full => Len(ring[p]) < WS_RING_CAP
  BY <1>3
<1>6. ~full => [hist EXCEPT !.lost = hist.lost] = hist
  BY DEF TypeOK, Hist
<1> HIDE DEF full
<1>7. CASE full
  BY <1>1, <1>2, <1>4, <1>7
<1>8. CASE ~full
  BY <1>1, <1>2, <1>5, <1>6, <1>8
<1> QED BY <1>7, <1>8

\* One list is clean: the next one follows, or the frame is done, or goes on.
LEMMA RemovedOf ==
  ASSUME TypeOK, httpd.at = "remove", httpd.left # <<>>
  PROVE  /\ Removed \in Httpd
         /\ \/ /\ Removed.at = "remove" /\ Removed.fd = httpd.fd /\ Removed.port = httpd.port
               /\ Removed.left = Tail(httpd.left) /\ Tail(httpd.left) # <<>>
            \/ /\ Removed = Idle /\ httpd.port = NoPort
               /\ Range(httpd.left) = {Head(httpd.left)}
            \/ /\ Removed.at = "register" /\ Removed.fd = httpd.fd /\ Removed.port = httpd.port
               /\ httpd.port \in Port /\ Range(httpd.left) = {Head(httpd.left)}
<1> DEFINE m == Len(httpd.left)
<1>1. /\ httpd \in Httpd /\ httpd.left \in Seq(Port) /\ httpd.port \in Port \cup {NoPort}
      /\ httpd.fd \in Fd
  BY DEF TypeOK, Httpd
<1>2. /\ Tail(httpd.left) \in Seq(Port) /\ m \in Nat \ {0} /\ Len(Tail(httpd.left)) = m - 1
      /\ Range(httpd.left) = Range(Tail(httpd.left)) \cup {Head(httpd.left)}
  BY <1>1, HeadTailOf
<1>3. <<>> \in Seq(Port)
  OBVIOUS
<1> DEFINE n == Len(Tail(httpd.left))
<1>2a. m \in Nat \ {0} /\ n = m - 1
  BY <1>2
<1> HIDE DEF m, n
<1>4. CASE m > 1
  <2>1. Removed = [httpd EXCEPT !.left = Tail(httpd.left)]
    BY <1>4 DEF Removed, m
  <2>2. Removed.at = "remove" /\ Removed.fd = httpd.fd /\ Removed.port = httpd.port
        /\ Removed.left = Tail(httpd.left) /\ Removed \in Httpd
    BY <2>1, <1>1, <1>2 DEF Httpd
  <2>3. n # 0 /\ Len(<<>>) = 0
    BY <1>2a, <1>4
  <2>4. Tail(httpd.left) # <<>>
    BY <2>3 DEF n
  <2> QED BY <2>2, <2>4
<1>5. CASE ~(m > 1)
  <2>1. n = 0
    BY <1>2a, <1>5
  <2>2. Range(Tail(httpd.left)) = {}
    BY <2>1, <1>2, LenProperties DEF Range, n
  <2>3. Range(httpd.left) = {Head(httpd.left)}
    BY <2>2, <1>2
  <2>4. CASE httpd.port = NoPort
    <3>1. Removed = Idle
      BY <1>5, <2>4 DEF Removed, m
    <3> QED BY <3>1, <2>3, <2>4, Ported
  <2>5. CASE httpd.port # NoPort
    <3>1. Removed = [httpd EXCEPT !.left = <<>>, !.at = "register"]
      BY <1>5, <2>5 DEF Removed, m
    <3>2. Removed.at = "register" /\ Removed.fd = httpd.fd /\ Removed.port = httpd.port
          /\ Removed \in Httpd
      BY <3>1, <1>1, <1>3 DEF Httpd
    <3> QED BY <3>2, <2>3, <2>5, <1>1
  <2> QED BY <2>4, <2>5
<1> QED BY <1>4, <1>5

LEMMA TypeKept ==
  ASSUME TypeOK, HomeInv, SendInv, [Next]_vars
  PROVE  TypeOK'
<1>0. /\ ws_send \in Sender /\ Here \in Port /\ httpd \in Httpd
      /\ WS_RING_CAP \in Nat \ {0} /\ MaxTyped \in Nat
      /\ <<>> \in Seq(Byte) /\ <<>> \in Seq(Key) /\ <<>> \in Seq(Fd) /\ Len(<<>>) = 0
  BY HereIs, WsAssumption DEF TypeOK, WsAssumption
<1>1. ASSUME NEW p \in Port, ws_enqueue(p)
      PROVE  TypeOK'
  <2> DEFINE b == <<p, heard[p] + 1>>
  <2>1. /\ heard' = [heard EXCEPT ![p] = @ + 1]
        /\ UNCHANGED <<conn, senders, fd_port, tx, httpd, ws_send, work, typed>>
        /\ \/ /\ ring' = ring
              /\ hist' = [hist EXCEPT !.lost = hist.lost \cup {b}]
           \/ /\ ring' = [ring EXCEPT ![p] = Append(ring[p], b)]
              /\ Len(ring[p]) < WS_RING_CAP /\ hist' = hist
           \/ /\ ring[p] # <<>> /\ ring' = [ring EXCEPT ![p] = Append(Tail(ring[p]), b)]
              /\ hist' = [hist EXCEPT !.lost = hist.lost \cup {Head(ring[p])}]
    BY <1>1, EnqueueOf
  <2>2. b \in Byte /\ ring[p] \in Seq(Byte) /\ Len(ring[p]) <= WS_RING_CAP /\ Len(ring[p]) \in Nat
    BY ByteNext DEF TypeOK
  <2> HIDE DEF b
  <2>3. ring[p] # <<>> => /\ Head(ring[p]) \in Byte /\ Tail(ring[p]) \in Seq(Byte)
                         /\ Len(Tail(ring[p])) = Len(ring[p]) - 1
    BY <2>2, HeadTailOf
  <2>4. /\ ring' \in [Port -> Seq(Byte)] /\ \A q \in Port : Len(ring'[q]) <= WS_RING_CAP
        /\ hist' \in Hist
    <3>1. CASE ring' = ring /\ hist' = [hist EXCEPT !.lost = hist.lost \cup {b}]
      BY <3>1, <2>2 DEF TypeOK, Hist
    <3>2. ASSUME NEW s \in Seq(Byte), Len(s) \in Nat, Len(s) < WS_RING_CAP,
                 ring' = [ring EXCEPT ![p] = Append(s, b)]
          PROVE  ring' \in [Port -> Seq(Byte)] /\ \A q \in Port : Len(ring'[q]) <= WS_RING_CAP
      <4>1. Append(s, b) \in Seq(Byte) /\ Len(Append(s, b)) = Len(s) + 1
        BY <2>2, <3>2, AppendProperties
      <4>2. Len(Append(s, b)) <= WS_RING_CAP
        BY <4>1, <3>2, <1>0
      <4> QED BY <4>1, <4>2, <3>2 DEF TypeOK
    <3>3. CASE /\ ring' = [ring EXCEPT ![p] = Append(ring[p], b)]
               /\ Len(ring[p]) < WS_RING_CAP /\ hist' = hist
      BY <3>2, <3>3, <2>2 DEF TypeOK
    <3>4. CASE /\ ring[p] # <<>> /\ ring' = [ring EXCEPT ![p] = Append(Tail(ring[p]), b)]
               /\ hist' = [hist EXCEPT !.lost = hist.lost \cup {Head(ring[p])}]
      <4>1. Len(Tail(ring[p])) \in Nat /\ Len(Tail(ring[p])) < WS_RING_CAP
        BY <3>4, <2>2, <2>3, <1>0, LenProperties
      <4>2. hist' \in Hist
        BY <3>4, <2>3 DEF TypeOK, Hist
      <4> QED BY <4>1, <4>2, <3>2, <3>4, <2>3
    <3> QED BY <2>1, <3>1, <3>3, <3>4
  <2>5. heard' \in [Port -> Nat]
    BY <2>1 DEF TypeOK
  <2> QED BY <2>1, <2>4, <2>5 DEF TypeOK
<1>2. ASSUME NEW f \in Fd, Connect(f)
      PROVE  TypeOK'
  BY <1>2 DEF Connect, TypeOK
<1>3. ASSUME NEW f \in Fd, handle_closed(f) \/ \E p \in Port : handle_text(f, p)
      PROVE  TypeOK'
  <2>1. PICK q \in Port \cup {NoPort}, c \in {"closed"} \cup Port :
          /\ conn' = [conn EXCEPT ![f] = c]
          /\ httpd' = [at |-> "remove", fd |-> f, port |-> q, left |-> Ports]
    BY <1>3 DEF handle_closed, handle_text
  <2>2. /\ hist' = [hist EXCEPT !.got[f] = <<>>]
        /\ UNCHANGED <<senders, fd_port, ring, tx, ws_send, work, heard, typed>>
    BY <1>3 DEF handle_closed, handle_text
  <2>3. httpd' \in Httpd
    BY <2>1, Ported DEF Httpd
  <2>4. hist' \in Hist
    BY <2>2, <1>0 DEF TypeOK, Hist
  <2>5. conn' \in [Fd -> {"none", "new", "closed"} \cup Port]
    BY <2>1 DEF TypeOK
  <2> QED BY <2>2, <2>3, <2>4, <2>5 DEF TypeOK
<1>4. CASE ws_remove_sender
  <2>1. httpd.at = "remove" /\ httpd.left # <<>> /\ httpd.fd \in Fd /\ Head(httpd.left) \in Port
    BY <1>4, <1>0, HeadTailOf DEF ws_remove_sender, HomeInv, Httpd
  <2>2. httpd' \in Httpd
    BY <1>4, <2>1, RemovedOf DEF ws_remove_sender
  <2>3. senders' \in [Port -> Seq(Fd)]
    <3>1. Others(senders[Head(httpd.left)], httpd.fd) \in Seq(Fd)
      BY <2>1, OthersOf DEF TypeOK
    <3> QED BY <3>1, <1>4 DEF ws_remove_sender, TypeOK
  <2>4. fd_port' \in [Fd -> Port \cup {NoPort}]
    BY <1>4 DEF ws_remove_sender, TypeOK
  <2>5. conn' \in [Fd -> {"none", "new", "closed"} \cup Port]
    BY <1>4 DEF ws_remove_sender, TypeOK
  <2>6. UNCHANGED <<ring, tx, ws_send, work, heard, typed, hist>>
    BY <1>4 DEF ws_remove_sender
  <2> QED BY <2>2, <2>3, <2>4, <2>5, <2>6 DEF TypeOK
<1>5. CASE ws_register_sender
  <2>1. httpd.port \in Port /\ httpd.fd \in Fd
    BY <1>5, <1>0 DEF ws_register_sender, HomeInv, Httpd
  <2>2. senders' \in [Port -> Seq(Fd)]
    <3>1. Append(senders[httpd.port], httpd.fd) \in Seq(Fd)
      BY <2>1, AppendProperties DEF TypeOK
    <3> QED BY <3>1, <1>5 DEF ws_register_sender, TypeOK
  <2>3. fd_port' \in [Fd -> Port \cup {NoPort}]
    BY <1>5, <2>1 DEF ws_register_sender, TypeOK
  <2>4. httpd' = Idle /\ UNCHANGED <<conn, ring, tx, ws_send, work, heard, typed, hist>>
    BY <1>5 DEF ws_register_sender
  <2> QED BY <2>2, <2>3, <2>4, Ported DEF TypeOK
<1>6. ASSUME NEW f \in Fd, handle_binary(f)
      PROVE  TypeOK'
  <2> DEFINE p == fd_port[f]
             key == [n |-> typed + 1, port |-> conn[f]]
  <2>1. typed' = typed + 1 /\ typed + 1 \in 1 .. MaxTyped /\ conn[f] \in Port
        /\ UNCHANGED <<conn, senders, fd_port, ring, httpd, ws_send, work, heard, hist>>
    BY <1>6, <1>0 DEF handle_binary, TypeOK
  <2>2. key \in Key
    BY <2>1 DEF Key
  <2>3. \/ tx' = tx
        \/ p # NoPort /\ Len(tx[p]) # WS_RING_CAP /\ tx' = [tx EXCEPT ![p] = Append(tx[p], key)]
        \/ p # NoPort /\ Len(tx[p]) = WS_RING_CAP
           /\ tx' = [tx EXCEPT ![p] = Append(Tail(tx[p]), key)]
    <3> HIDE DEF key, p
    <3>1. tx' = IF p = NoPort \/ (ws_send.at = "tx_draining" /\ Here = p) THEN tx
                ELSE [tx EXCEPT ![p] = Append(IF Len(@) = WS_RING_CAP THEN Tail(@) ELSE @, key)]
      BY <1>6 DEF handle_binary, p, key
    <3> QED BY <3>1
  <2>4. p # NoPort => p \in Port /\ tx[p] \in Seq(Key) /\ Len(tx[p]) \in Nat /\ Len(tx[p]) <= WS_RING_CAP
    BY LenProperties DEF TypeOK
  <2> HIDE DEF key, p
  <2>5. ASSUME NEW s \in Seq(Key), Len(s) \in Nat, Len(s) < WS_RING_CAP, p \in Port,
               tx' = [tx EXCEPT ![p] = Append(s, key)]
        PROVE  tx' \in [Port -> Seq(Key)] /\ \A q \in Port : Len(tx'[q]) <= WS_RING_CAP
    <3>1. Append(s, key) \in Seq(Key) /\ Len(Append(s, key)) = Len(s) + 1
      BY <2>2, <2>5, AppendProperties
    <3>2. Len(Append(s, key)) <= WS_RING_CAP
      BY <3>1, <2>5, <1>0
    <3> QED BY <3>1, <3>2, <2>5 DEF TypeOK
  <2>6. tx' \in [Port -> Seq(Key)] /\ \A q \in Port : Len(tx'[q]) <= WS_RING_CAP
    <3>1. CASE tx' = tx
      BY <3>1 DEF TypeOK
    <3>2. CASE p # NoPort /\ Len(tx[p]) # WS_RING_CAP /\ tx' = [tx EXCEPT ![p] = Append(tx[p], key)]
      <4>1. Len(tx[p]) < WS_RING_CAP
        BY <3>2, <2>4, <1>0
      <4> QED BY <4>1, <3>2, <2>4, <2>5
    <3>3. CASE p # NoPort /\ Len(tx[p]) = WS_RING_CAP
               /\ tx' = [tx EXCEPT ![p] = Append(Tail(tx[p]), key)]
      <4>1. tx[p] # <<>>
        BY <3>3, <1>0
      <4>2. Tail(tx[p]) \in Seq(Key) /\ Len(Tail(tx[p])) = WS_RING_CAP - 1
        BY <4>1, <3>3, <2>4, HeadTailOf
      <4>3. Len(Tail(tx[p])) \in Nat /\ Len(Tail(tx[p])) < WS_RING_CAP
        BY <4>2, <1>0
      <4> QED BY <4>2, <4>3, <3>3, <2>4, <2>5
    <3> QED BY <2>3, <3>1, <3>2, <3>3
  <2> QED BY <2>1, <2>6 DEF TypeOK
<1>7. CASE do_work
  <2>1. UNCHANGED <<conn, senders, fd_port, ring, tx, httpd, ws_send, heard, typed>>
        /\ work' \in {"sent", "failed"}
    BY <1>7 DEF do_work
  <2>2. hist' = hist \/ hist' = [hist EXCEPT !.got[Head(ws_send.todo)] = @ \o ws_send.data]
    BY <1>7 DEF do_work
  <2>3. ws_send.todo # <<>> /\ Head(ws_send.todo) \in Fd /\ ws_send.data \in Seq(Byte)
    <3>1. ws_send.todo \in Seq(Fd) /\ ws_send.todo # <<>>
      BY <1>7, <1>0 DEF do_work, SendInv, Sender
    <3> QED BY <3>1, <1>0, HeadTailOf DEF Sender
  <2>4. hist' \in Hist
    <3>1. hist.got[Head(ws_send.todo)] \o ws_send.data \in Seq(Byte)
      BY <2>3, ConcatProperties DEF TypeOK, Hist
    <3> DEFINE g == [hist.got EXCEPT ![Head(ws_send.todo)] = @ \o ws_send.data]
    <3>2. g \in [Fd -> Seq(Byte)]
      BY <3>1 DEF TypeOK, Hist
    <3>3. hist' = hist \/ hist' = [hist EXCEPT !.got = g]
      BY <2>2 DEF TypeOK, Hist
    <3> HIDE DEF g
    <3> QED BY <3>2, <3>3 DEF TypeOK, Hist
  <2> QED BY <2>1, <2>4 DEF TypeOK
<1>8. CASE drain_lock \/ drain_tx_lock
  <2>1. UNCHANGED <<conn, senders, fd_port, ring, tx, httpd, work, heard, typed, hist>>
    BY <1>8 DEF drain_lock, drain_tx_lock
  <2>2. ws_send' \in Sender
    <3>1. NextStage("drain", "tx") \/ NextStage("tx", "drain") => ws_send' \in Sender
      BY <1>0, NextStageOf
    <3>2. ASSUME NEW at \in {"draining", "tx_draining"}, ws_send' = [ws_send EXCEPT !.at = at]
          PROVE  ws_send' \in Sender
      BY <3>2, <1>0 DEF Sender
    <3> QED BY <1>8, <3>1, <3>2 DEF drain_lock, drain_tx_lock
  <2> QED BY <2>1, <2>2 DEF TypeOK
<1>9. CASE drain
  <2>1. ring' = [ring EXCEPT ![Here] = <<>>]
        /\ ws_send' = [ws_send EXCEPT !.at = "lock", !.data = ring[Here]]
        /\ UNCHANGED <<conn, senders, fd_port, tx, httpd, work, heard, typed, hist>>
    BY <1>9 DEF drain
  <2>2. ring[Here] \in Seq(Byte)
    BY <1>0 DEF TypeOK
  <2>3. ws_send' \in Sender
    BY <2>1, <2>2, <1>0 DEF Sender
  <2>4. ring' \in [Port -> Seq(Byte)] /\ \A q \in Port : Len(ring'[q]) <= WS_RING_CAP
    BY <2>1, <1>0 DEF TypeOK
  <2> QED BY <2>1, <2>3, <2>4 DEF TypeOK
<1>10. CASE lock_list
  <2>1. senders[Here] \in Seq(Fd)
    BY <1>0 DEF TypeOK
  <2>2. ws_send' \in Sender
    BY <1>10, <2>1, <1>0 DEF lock_list, Sender
  <2> QED BY <1>10, <2>2 DEF lock_list, TypeOK
<1>11. CASE try_sender
  <2>1. Tail(ws_send.todo) \in Seq(Fd)
    BY <1>11, <1>0, HeadTailOf DEF try_sender, Sender
  <2>2. ws_send' \in Sender
    BY <1>11, <2>1, <1>0 DEF try_sender, Sender
  <2>3. work' \in {"none", "queued", "sent", "failed"}
    BY <1>11 DEF try_sender, TypeOK
  <2> QED BY <1>11, <2>2, <2>3 DEF try_sender, TypeOK
<1>12. CASE sent
  <2>1. ws_send.todo # <<>> /\ ws_send.todo \in Seq(Fd) /\ ws_send.keep \in Seq(Fd)
    BY <1>12, <1>0 DEF sent, SendInv, Sender
  <2>2. Tail(ws_send.todo) \in Seq(Fd) /\ Append(ws_send.keep, Head(ws_send.todo)) \in Seq(Fd)
    BY <2>1, HeadTailOf, AppendProperties
  <2>3. PICK keep \in Seq(Fd) :
          ws_send' = [ws_send EXCEPT !.at = "send", !.todo = Tail(ws_send.todo), !.keep = keep]
    BY <1>12, <2>1, <2>2 DEF sent
  <2>4. ws_send' \in Sender
    BY <2>2, <2>3, <1>0 DEF Sender
  <2> QED BY <1>12, <2>4 DEF sent, TypeOK
<1>13. CASE unlock_list
  <2>1. ws_send' \in Sender
    BY <1>13, <1>0, NextStageOf DEF unlock_list
  <2>2. senders' \in [Port -> Seq(Fd)]
    BY <1>13, <1>0 DEF unlock_list, TypeOK, Sender
  <2> QED BY <1>13, <2>1, <2>2 DEF unlock_list, TypeOK
<1>14. CASE ws_drain_tx
  <2>1. ws_send' \in Sender
    BY <1>14, <1>0, NextStageOf DEF ws_drain_tx
  <2>2. tx' \in [Port -> Seq(Key)] /\ \A q \in Port : Len(tx'[q]) <= WS_RING_CAP
    BY <1>14, <1>0 DEF ws_drain_tx, TypeOK
  <2>3. hist' \in Hist
    <3>1. hist.written[Here] \o tx[Here] \in Seq(Key)
      BY <1>0, ConcatProperties DEF TypeOK, Hist
    <3>2. hist' = hist \/ hist' = [hist EXCEPT !.written[Here] = @ \o tx[Here]]
      BY <1>14 DEF ws_drain_tx
    <3> DEFINE w == [hist.written EXCEPT ![Here] = @ \o tx[Here]]
    <3>3. w \in [Port -> Seq(Key)]
      BY <3>1 DEF TypeOK, Hist
    <3>4. hist' = hist \/ hist' = [hist EXCEPT !.written = w]
      BY <3>2 DEF TypeOK, Hist
    <3> HIDE DEF w
    <3> QED BY <3>3, <3>4 DEF TypeOK, Hist
  <2> QED BY <1>14, <2>1, <2>2, <2>3 DEF ws_drain_tx, TypeOK
<1>15. CASE UNCHANGED vars
  BY <1>15 DEF vars, TypeOK
<1> QED
  BY <1>1, <1>2, <1>3, <1>4, <1>5, <1>6, <1>7, <1>8, <1>9, <1>10, <1>11, <1>12, <1>13, <1>14,
     <1>15 DEF Next, frame, lists, thread

-------------------------------------------------------------------------------
(* The lists.                                                              *)

\* What concerns neither connections nor lists.
LEMMA HomeQuiet ==
  ASSUME Next, ~(\E f \in Fd : Connect(f) \/ handle_closed(f) \/ \E p \in Port : handle_text(f, p)),
         ~lists, ~unlock_list
  PROVE  UNCHANGED <<conn, httpd, fd_port, senders>>
<1>1. \A p \in Port : ws_enqueue(p) => UNCHANGED <<conn, httpd, fd_port, senders>>
  BY DEF ws_enqueue
<1>2. \A f \in Fd : handle_binary(f) => UNCHANGED <<conn, httpd, fd_port, senders>>
  BY DEF handle_binary
<1>3. do_work => UNCHANGED <<conn, httpd, fd_port, senders>>
  BY DEF do_work
<1>4. thread => UNCHANGED <<conn, httpd, fd_port, senders>>
  BY DEF thread, drain_lock, drain, lock_list, try_sender, sent, drain_tx_lock, ws_drain_tx
<1> QED BY <1>1, <1>2, <1>3, <1>4 DEF Next, frame

LEMMA HomeKept ==
  ASSUME TypeOK, HomeInv, SendInv, [Next]_vars
  PROVE  HomeInv'
<1>0. /\ ws_send \in Sender /\ Here \in Port /\ httpd \in Httpd
      /\ \A p \in Port : senders[p] \in Seq(Fd)
      /\ \A f \in Fd : fd_port[f] \in Port \cup {NoPort}
      /\ \A f \in Fd : conn[f] \in {"none", "new", "closed"} \cup Port
      /\ httpd.fd \in Fd /\ httpd.port \in Port \cup {NoPort} /\ httpd.left \in Seq(Port)
  BY HereIs DEF TypeOK, Httpd
<1>00. \A p \in Port : \A g \in Range(senders[p]) : g \in Fd
  BY <1>0, ElementOfSeq, LenProperties DEF Range
<1>1. ASSUME NEW f \in Fd, Connect(f)
      PROVE  HomeInv'
  <2>1. /\ httpd.at = "idle" /\ conn[f] = "none" /\ conn' = [conn EXCEPT ![f] = "new"]
        /\ UNCHANGED <<senders, fd_port, httpd>>
    BY <1>1 DEF Connect
  <2>2. \A g \in Fd : g # f => conn'[g] = conn[g]
    BY <2>1 DEF TypeOK
  <2>3. fd_port[f] = NoPort
    BY <2>1, <1>0, Ported DEF HomeInv, Removing
  <2>4. \A p \in Port : f \notin Range(senders[p])
    BY <2>1, Ported DEF HomeInv, Removing
  <2> QED BY <2>1, <2>2, <2>3, <2>4, <1>00 DEF HomeInv, Removing
<1>2. ASSUME NEW f \in Fd, handle_closed(f) \/ \E p \in Port : handle_text(f, p)
      PROVE  HomeInv'
  <2>1. PICK q \in Port \cup {NoPort} :
          /\ conn' = [conn EXCEPT ![f] = IF q = NoPort THEN "closed" ELSE q]
          /\ httpd' = [at |-> "remove", fd |-> f, port |-> q, left |-> Ports]
    BY <1>2, Ported DEF handle_closed, handle_text
  <2>2. httpd.at = "idle" /\ UNCHANGED <<senders, fd_port>>
    BY <1>2 DEF handle_closed, handle_text
  <2>3. /\ \A g \in Fd : g # f => conn'[g] = conn[g]
        /\ conn'[f] = IF q = NoPort THEN "closed" ELSE q
    BY <2>1 DEF TypeOK
  <2>4. Ports # <<>> /\ Range(Ports) = Port
    BY WsAssumption DEF WsAssumption, Port
  <2>5. /\ httpd'.at = "remove" /\ httpd'.fd = f /\ httpd'.port = q /\ httpd'.left = Ports
        /\ \A g : Removing(g)' <=> g = f
    BY <2>1 DEF Removing
  <2> QED BY <2>2, <2>3, <2>4, <2>5, <1>00 DEF HomeInv, Removing
<1>3. CASE ws_remove_sender
  <2> DEFINE h == Head(httpd.left)
             f == httpd.fd
  <2>1. /\ httpd.at = "remove" /\ httpd.left # <<>>
        /\ conn[f] = IF httpd.port = NoPort THEN "closed" ELSE httpd.port
    BY <1>3 DEF ws_remove_sender, HomeInv
  <2>2. /\ h \in Port /\ f \in Fd
        /\ Range(httpd.left) = Range(Tail(httpd.left)) \cup {h}
    BY <2>1, <1>0, HeadTailOf
  <2>3. /\ senders' = [senders EXCEPT ![h] = Others(senders[h], f)]
        /\ fd_port' = [fd_port EXCEPT ![f] = NoPort]
        /\ httpd' = Removed
        /\ conn' = [conn EXCEPT ![f] = IF Removed.at = "idle" THEN "none" ELSE @]
    BY <1>3 DEF ws_remove_sender
  <2>4. /\ \A g \in Fd : g # f => conn'[g] = conn[g] /\ fd_port'[g] = fd_port[g]
        /\ fd_port'[f] = NoPort
        /\ Removed.at # "idle" => conn'[f] = conn[f]
    BY <2>2, <2>3 DEF TypeOK
  <2>5. /\ \/ /\ Removed.at = "remove" /\ Removed.fd = f /\ Removed.port = httpd.port
              /\ Removed.left = Tail(httpd.left) /\ Tail(httpd.left) # <<>>
           \/ /\ Removed.at = "idle" /\ Range(httpd.left) = {h}
           \/ /\ Removed.at = "register" /\ Removed.fd = f /\ Removed.port = httpd.port
              /\ httpd.port \in Port /\ Range(httpd.left) = {h}
    BY <2>1, RemovedOf, Ported
  <2>6. /\ \A p \in Port : p # h => senders'[p] = senders[p]
        /\ Range(senders'[h]) \subseteq Range(senders[h]) \ {f}
        /\ IsInjective(senders[h]) => IsInjective(senders'[h])
    <3>1. senders'[h] = Others(senders[h], f) /\ \A p \in Port : p # h => senders'[p] = senders[p]
      BY <2>2, <2>3 DEF TypeOK
    <3> HIDE DEF h, f
    <3>2. /\ Range(Others(senders[h], f)) \subseteq Range(senders[h]) \ {f}
          /\ IsInjective(senders[h]) => IsInjective(Others(senders[h], f))
      BY <2>2, <1>0, OthersOf
    <3> QED BY <3>1, <3>2
  <2>7. \A p \in Port : /\ Range(senders'[p]) \subseteq Range(senders[p])
                        /\ IsInjective(senders'[p])
    BY <2>6 DEF HomeInv
  <2>8. \A g : Removing(g) <=> g = f
    BY <2>1 DEF Removing
  <2>9. \A p \in Port : f \in Range(senders'[p]) => p \in Range(httpd.left) /\ p # h
    BY <2>6, <2>7, <2>8 DEF HomeInv
  <2>10. \A p \in Port : \A g \in Range(senders'[p]) : g # f => conn'[g] = p /\ fd_port'[g] = p
    BY <2>4, <2>7, <2>8, <1>00 DEF HomeInv
  <2>11. \A g \in Fd : g # f => fd_port'[g] \in {NoPort, conn'[g]}
    BY <2>4, <2>8 DEF HomeInv
  <2> HIDE DEF h, f
  <2>12. CASE /\ Removed.at = "remove" /\ Removed.fd = f /\ Removed.port = httpd.port
              /\ Removed.left = Tail(httpd.left) /\ Tail(httpd.left) # <<>>
    <3>1. \A g : Removing(g)' <=> g = f
      BY <2>12, <2>3 DEF Removing
    <3>2. \A p \in Port : f \in Range(senders'[p]) => p \in Range(httpd'.left)
      BY <2>2, <2>3, <2>9, <2>12
    <3>3. conn'[f] = IF httpd'.port = NoPort THEN "closed" ELSE httpd'.port
      BY <2>1, <2>3, <2>4, <2>12 DEF f
    <3> QED BY <2>3, <2>7, <2>10, <2>11, <2>12, <3>1, <3>2, <3>3 DEF HomeInv
  <2>13. CASE Removed.at # "remove" /\ Range(httpd.left) = {h}
    <3>1. \A g : ~Removing(g)'
      BY <2>13, <2>3 DEF Removing
    <3>2. \A p \in Port : f \notin Range(senders'[p])
      BY <2>9, <2>13
    <3>3. httpd'.at = "register" => /\ httpd'.port \in Port /\ conn'[httpd'.fd] = httpd'.port
                                    /\ fd_port'[httpd'.fd] = NoPort
      BY <2>1, <2>3, <2>4, <2>5, Ported DEF f
    <3>4. \A g \in Fd : fd_port'[g] \in {NoPort, conn'[g]}
      BY <2>4, <2>11
    <3> QED BY <2>3, <2>7, <2>10, <2>13, <3>1, <3>2, <3>3, <3>4 DEF HomeInv
  <2> QED BY <2>5, <2>12, <2>13
<1>4. CASE ws_register_sender
  <2> DEFINE q == httpd.port
             f == httpd.fd
  <2>1. /\ httpd.at = "register" /\ q \in Port /\ f \in Fd /\ conn[f] = q /\ fd_port[f] = NoPort
    BY <1>4, <1>0 DEF ws_register_sender, HomeInv
  <2>2. /\ senders' = [senders EXCEPT ![q] = Append(senders[q], f)]
        /\ fd_port' = [fd_port EXCEPT ![f] = q]
        /\ httpd' = Idle /\ conn' = conn
    BY <1>4 DEF ws_register_sender
  <2>3. \A g : ~Removing(g) /\ ~Removing(g)'
    BY <2>1, <2>2, Ported DEF Removing
  <2>4. \A p \in Port : f \notin Range(senders[p])
    BY <2>1, <2>3, Ported DEF HomeInv
  <2>5. /\ \A p \in Port : p # q => senders'[p] = senders[p]
        /\ senders'[q] = Append(senders[q], f)
        /\ \A g \in Fd : g # f => fd_port'[g] = fd_port[g]
        /\ fd_port'[f] = q
    BY <2>1, <2>2 DEF TypeOK
  <2> HIDE DEF q, f
  <2>6. Range(senders'[q]) = Range(senders[q]) \cup {f} /\ IsInjective(senders'[q])
    <3>1. /\ Range(Append(senders[q], f)) = Range(senders[q]) \cup {f}
          /\ IsInjective(senders[q]) /\ f \notin Range(senders[q]) => IsInjective(Append(senders[q], f))
      BY <2>1, <1>0, AppendOf
    <3>2. IsInjective(senders[q])
      BY <2>1 DEF HomeInv
    <3> QED BY <2>1, <2>4, <2>5, <3>1, <3>2
  <2>7. \A p \in Port : \A g \in Range(senders[p]) : g # f /\ conn[g] = p /\ fd_port[g] = p
    BY <2>3, <2>4 DEF HomeInv
  <2>8. \A p \in Port : /\ IsInjective(senders'[p])
                        /\ \A g \in Range(senders'[p]) : conn'[g] = p /\ fd_port'[g] = p
    <3> TAKE p \in Port
    <3>1. CASE p = q
      BY <3>1, <2>1, <2>2, <2>5, <2>6, <2>7, <1>00
    <3>2. CASE p # q
      BY <3>2, <2>2, <2>5, <2>7, <1>00 DEF HomeInv
    <3> QED BY <3>1, <3>2
  <2>9. \A g \in Fd : fd_port'[g] \in {NoPort, conn'[g]}
    BY <2>1, <2>2, <2>3, <2>5 DEF HomeInv
  <2>10. httpd'.at = "idle"
    BY <2>2, Ported
  <2> QED BY <2>3, <2>8, <2>9, <2>10 DEF HomeInv
<1>5. CASE unlock_list
  <2>1. /\ senders' = [senders EXCEPT ![Here] = ws_send.keep]
        /\ UNCHANGED <<conn, fd_port, httpd>>
    BY <1>5 DEF unlock_list
  <2>2. \A p \in Port : p # Here => senders'[p] = senders[p]
    BY <2>1 DEF TypeOK
  <2>3. senders'[Here] = ws_send.keep
    BY <2>1, <1>0 DEF TypeOK
  <2>4. IsInjective(ws_send.keep) /\ Range(ws_send.keep) \subseteq Range(senders[Here])
    BY DEF SendInv
  <2>5. \A p \in Port : IsInjective(senders'[p]) /\ Range(senders'[p]) \subseteq Range(senders[p])
    BY <2>2, <2>3, <2>4 DEF HomeInv
  <2> QED BY <2>1, <2>5 DEF HomeInv, Removing
<1>6. CASE UNCHANGED <<conn, httpd, fd_port, senders>>
  BY <1>6 DEF HomeInv, Removing
<1> QED
  BY <1>1, <1>2, <1>3, <1>4, <1>5, <1>6, HomeQuiet DEF vars, lists

-------------------------------------------------------------------------------
(* The locals of ws_send, and the keys.                                    *)

\* Without a list, ws_send has nothing kept and nothing to try.
LEMMA SendNothing ==
  ASSUME TypeOK, ws_send' \in Sender, ws_send'.at \notin {"wait"}, work' = "none",
         ws_send'.todo = <<>>, ws_send'.keep = <<>>,
         ws_send'.at \notin {"lock", "send", "wait"} => ws_send'.data = <<>>
  PROVE  SendInv'
<1>1. Range(<<>>) = {} /\ IsInjective(<<>>)
  BY DEF Range, IsInjective
<1> QED BY <1>1 DEF SendInv

LEMMA SendKept ==
  ASSUME TypeOK, HomeInv, SendInv, TypeOK', [Next]_vars
  PROVE  SendInv'
<1>0. /\ ws_send \in Sender /\ ws_send' \in Sender /\ Here \in Port
      /\ ws_send.todo \in Seq(Fd) /\ ws_send.keep \in Seq(Fd)
      /\ \A p \in Port : senders[p] \in Seq(Fd)
  BY HereIs DEF TypeOK, Sender
<1>1. ASSUME UNCHANGED <<ws_send, work, senders>>
      PROVE  SendInv'
  BY <1>1 DEF SendInv, Here
<1>2. CASE ws_remove_sender \/ ws_register_sender
  <2>1. PICK p \in Port : ~Held(p) /\ \A q \in Port : q # p => senders'[q] = senders[q]
    <3>1. CASE ws_remove_sender
      <4>1. Head(httpd.left) \in Port
        BY <3>1, HeadTailOf DEF ws_remove_sender, HomeInv, TypeOK, Httpd
      <4> QED BY <3>1, <4>1 DEF ws_remove_sender, TypeOK
    <3>2. CASE ws_register_sender
      <4>1. httpd.port \in Port
        BY <3>2 DEF ws_register_sender, HomeInv
      <4> QED BY <3>2, <4>1 DEF ws_register_sender, TypeOK
    <3> QED BY <1>2, <3>1, <3>2
  <2>2. UNCHANGED <<ws_send, work>>
    BY <1>2 DEF ws_remove_sender, ws_register_sender
  <2>3. Here' = Here
    BY <2>2 DEF Here
  <2>4. CASE Here # p
    BY <2>1, <2>2, <2>3, <2>4, <1>0 DEF SendInv
  <2>5. CASE Here = p
    <3>1. ws_send.at \notin {"send", "wait"}
      BY <2>1, <2>5 DEF Held
    <3> QED BY <2>2, <3>1, <1>0, SendNothing DEF SendInv
  <2> QED BY <2>4, <2>5
<1>3. CASE do_work
  <2>1. /\ work = "queued" /\ work' \in {"sent", "failed"}
        /\ UNCHANGED <<senders, ws_send>>
    BY <1>3 DEF do_work
  <2>2. Here' = Here
    BY <2>1 DEF Here
  <2> QED BY <2>1, <2>2 DEF SendInv
<1>4. CASE drain_lock \/ drain_tx_lock
  <2>1. /\ ws_send.at \in {"drain", "tx"} /\ work' = work
        /\ \/ NextStage("drain", "tx") \/ NextStage("tx", "drain")
           \/ \E at \in {"draining", "tx_draining"} : ws_send' = [ws_send EXCEPT !.at = at]
    BY <1>4 DEF drain_lock, drain_tx_lock
  <2>2. /\ ws_send'.at \notin {"lock", "send", "wait"}
        /\ ws_send'.todo = <<>> /\ ws_send'.keep = <<>> /\ ws_send'.data = <<>>
    <3>1. NextStage("drain", "tx") \/ NextStage("tx", "drain") =>
            /\ ws_send'.at \in {"drain", "tx"}
            /\ ws_send'.data = <<>> /\ ws_send'.todo = <<>> /\ ws_send'.keep = <<>>
      BY <1>0, NextStageOf
    <3>2. ws_send.todo = <<>> /\ ws_send.keep = <<>> /\ ws_send.data = <<>>
      BY <2>1 DEF SendInv
    <3>3. ASSUME NEW at \in {"draining", "tx_draining"}, ws_send' = [ws_send EXCEPT !.at = at]
          PROVE  ws_send'.at = at /\ ws_send'.todo = ws_send.todo
                 /\ ws_send'.keep = ws_send.keep /\ ws_send'.data = ws_send.data
      BY <3>3, <1>0 DEF Sender
    <3> QED BY <2>1, <3>1, <3>2, <3>3
  <2>3. work' = "none"
    BY <2>1 DEF SendInv
  <2> QED BY <2>2, <2>3, <1>0, SendNothing
<1>5. CASE unlock_list \/ ws_drain_tx
  <2>1. /\ ws_send'.at \in {"drain", "tx"}
        /\ ws_send'.data = <<>> /\ ws_send'.todo = <<>> /\ ws_send'.keep = <<>>
    BY <1>5, <1>0, NextStageOf DEF unlock_list, ws_drain_tx
  <2>2. work' = "none"
    BY <1>5 DEF unlock_list, ws_drain_tx, SendInv
  <2> QED BY <2>1, <2>2, <1>0, SendNothing
<1>6. CASE drain
  <2>1. ws_send' = [ws_send EXCEPT !.at = "lock", !.data = ring[Here]]
        /\ ws_send.at = "draining" /\ work' = work
    BY <1>6 DEF drain
  <2>2. ws_send'.at = "lock" /\ ws_send'.todo = ws_send.todo /\ ws_send'.keep = ws_send.keep
    BY <2>1, <1>0 DEF Sender
  <2> QED BY <2>1, <2>2, <1>0, SendNothing DEF SendInv
<1>7. CASE lock_list
  <2>1. /\ ws_send.at = "lock" /\ work' = work /\ senders' = senders
        /\ ws_send' = [ws_send EXCEPT !.at = "send", !.todo = senders[Here]]
    BY <1>7 DEF lock_list
  <2>2. /\ ws_send'.at = "send" /\ ws_send'.todo = senders[Here] /\ ws_send'.keep = ws_send.keep
        /\ Here' = Here
    BY <2>1, <1>0 DEF Sender, Here
  <2>3. ws_send.keep = <<>>
    BY <2>1 DEF SendInv
  <2>4. Range(<<>>) = {} /\ IsInjective(<<>>)
    BY DEF Range, IsInjective
  <2>5. IsInjective(senders[Here])
    BY <1>0 DEF HomeInv
  <2>6. work = "none"
    BY <2>1 DEF SendInv
  <2> QED BY <2>1, <2>2, <2>3, <2>4, <2>5, <2>6 DEF SendInv
<1>8. CASE try_sender
  <2>1. /\ ws_send.at = "send" /\ ws_send.todo # <<>> /\ senders' = senders
        /\ \/ /\ ws_send' = [ws_send EXCEPT !.todo = Tail(ws_send.todo)] /\ work' = work
           \/ /\ ws_send' = [ws_send EXCEPT !.at = "wait"] /\ work' = "queued"
    BY <1>8 DEF try_sender
  <2>2. work = "none"
    BY <2>1 DEF SendInv
  <2>3. CASE ws_send' = [ws_send EXCEPT !.todo = Tail(ws_send.todo)] /\ work' = work
    <3>1. /\ ws_send'.at = "send" /\ ws_send'.todo = Tail(ws_send.todo)
          /\ ws_send'.keep = ws_send.keep /\ Here' = Here
      BY <2>1, <2>3, <1>0 DEF Sender, Here
    <3>2. /\ Range(ws_send.todo) = Range(Tail(ws_send.todo)) \cup {Head(ws_send.todo)}
          /\ IsInjective(ws_send.todo) => IsInjective(Tail(ws_send.todo))
      BY <2>1, <1>0, HeadTailOf
    <3> QED BY <2>1, <2>2, <2>3, <3>1, <3>2 DEF SendInv
  <2>4. CASE ws_send' = [ws_send EXCEPT !.at = "wait"] /\ work' = "queued"
    <3>1. /\ ws_send'.at = "wait" /\ ws_send'.todo = ws_send.todo
          /\ ws_send'.keep = ws_send.keep /\ Here' = Here
      BY <2>4, <1>0 DEF Sender, Here
    <3> QED BY <2>1, <2>2, <2>4, <3>1 DEF SendInv
  <2> QED BY <2>1, <2>3, <2>4
<1>9. CASE sent
  <2> DEFINE f == Head(ws_send.todo)
  <2>1. ws_send.at = "wait" /\ ws_send.todo # <<>> /\ senders' = senders /\ work' = "none"
    BY <1>9 DEF sent, SendInv
  <2>2. /\ f \in Fd
        /\ Range(ws_send.todo) = Range(Tail(ws_send.todo)) \cup {f}
        /\ IsInjective(Tail(ws_send.todo)) /\ f \notin Range(Tail(ws_send.todo))
    BY <2>1, <1>0, HeadTailOf DEF SendInv
  <2>3. /\ f \notin Range(ws_send.keep)
        /\ Range(Tail(ws_send.todo)) \cap Range(ws_send.keep) = {}
    BY <2>2 DEF SendInv
  <2>4. /\ Range(Append(ws_send.keep, f)) = Range(ws_send.keep) \cup {f}
        /\ IsInjective(Append(ws_send.keep, f))
    <3> HIDE DEF f
    <3> QED BY <2>2, <2>3, <1>0, AppendOf DEF SendInv
  <2>5. PICK keep \in {ws_send.keep, Append(ws_send.keep, f)} :
          ws_send' = [ws_send EXCEPT !.at = "send", !.todo = Tail(ws_send.todo), !.keep = keep]
    BY <1>9 DEF sent
  <2> HIDE DEF f
  <2>6. /\ ws_send'.at = "send" /\ ws_send'.todo = Tail(ws_send.todo) /\ ws_send'.keep = keep
        /\ Here' = Here
    BY <2>5, <1>0 DEF Sender, Here
  <2>7. /\ IsInjective(keep) /\ Range(keep) \subseteq Range(ws_send.keep) \cup {f}
    BY <2>4, <2>5 DEF SendInv
  <2>8. Range(ws_send.todo) \cup Range(ws_send.keep) \subseteq Range(senders[Here])
    BY DEF SendInv
  <2> QED BY <2>1, <2>2, <2>3, <2>6, <2>7, <2>8 DEF SendInv
<1>10. ASSUME frame \/ \E p \in Port : ws_enqueue(p)
       PROVE  UNCHANGED <<ws_send, work, senders>>
  BY <1>10 DEF frame, Connect, handle_closed, handle_binary, handle_text, ws_enqueue
<1> QED
  BY <1>1, <1>2, <1>3, <1>4, <1>5, <1>6, <1>7, <1>8, <1>9, <1>10
     DEF Next, lists, thread, vars

LEMMA KeysAppend ==
  ASSUME NEW p \in Port, NEW s \in Seq(Key), NEW m \in Nat, KeysOf(p, s, m),
         NEW key \in Key, key.n = m + 1, key.port = p
  PROVE  KeysOf(p, Append(s, key), m + 1)
<1> DEFINE t == Append(s, key)
           l == Len(s) + 1
<1>1. /\ DOMAIN s = 1 .. Len(s) /\ DOMAIN t = 1 .. l /\ Len(s) \in Nat
      /\ \A i \in DOMAIN s : t[i] = s[i]
      /\ t[l] = key
  BY AppendOf
<1>2. \A i \in DOMAIN s : s[i] \in Key /\ s[i].n \in Nat
  <2>1. \A i \in DOMAIN s : s[i] \in Key
    BY <1>1, ElementOfSeq
  <2>2. \A k \in Key : k.n \in Nat
    BY WsAssumption DEF WsAssumption, Key
  <2> QED BY <2>1, <2>2
<1> HIDE DEF t
<1>3. \A i \in DOMAIN t : i \in DOMAIN s \/ i = l
  BY <1>1
<1>4. ASSUME NEW i \in DOMAIN s
      PROVE  /\ t[i].port = p /\ t[i].n <= m /\ t[i].n \in Nat
             /\ \A j \in DOMAIN s : i < j => t[i].n < t[j].n
  BY <1>1, <1>2, <1>4 DEF KeysOf
<1>5. ASSUME NEW i \in DOMAIN t, NEW j \in DOMAIN t, i < j
      PROVE  t[i].n < t[j].n
  <2>1. CASE j \in DOMAIN s
    <3>1. i \in DOMAIN s
      BY <2>1, <1>1, <1>5
    <3> QED BY <2>1, <3>1, <1>4, <1>5
  <2>2. CASE j = l
    <3>1. i \in DOMAIN s
      BY <2>2, <1>1, <1>5
    <3> QED BY <2>2, <3>1, <1>1, <1>4
  <2> QED BY <2>1, <2>2, <1>3
<1>6. ASSUME NEW i \in DOMAIN t
      PROVE  t[i].port = p /\ t[i].n <= m + 1
  <2>1. CASE i \in DOMAIN s
    BY <2>1, <1>4
  <2>2. CASE i = l
    BY <2>2, <1>1
  <2> QED BY <2>1, <2>2, <1>3
<1>7. KeysOf(p, t, m + 1)
  BY <1>5, <1>6 DEF KeysOf
<1> QED BY <1>7 DEF t

LEMMA KeysTail ==
  ASSUME NEW p \in Port, NEW s \in Seq(Key), s # <<>>, NEW m \in Nat, KeysOf(p, s, m)
  PROVE  KeysOf(p, Tail(s), m)
<1>1. /\ \A i \in DOMAIN Tail(s) : i + 1 \in DOMAIN s /\ Tail(s)[i] = s[i + 1]
      /\ Tail(s) \in Seq(Key)
  BY HeadTailOf
<1>2. \A i \in DOMAIN Tail(s) : i \in Nat
  BY <1>1, LenProperties
<1>3. ASSUME NEW i \in DOMAIN Tail(s), NEW j \in DOMAIN Tail(s), i < j
      PROVE  Tail(s)[i].n < Tail(s)[j].n
  <2>1. i + 1 < j + 1
    BY <1>2, <1>3
  <2> QED BY <2>1, <1>1 DEF KeysOf
<1> QED BY <1>1, <1>3 DEF KeysOf

LEMMA KeysConcat ==
  ASSUME NEW p \in Port, NEW s \in Seq(Key), NEW t \in Seq(Key), NEW m \in Nat,
         KeysOf(p, s, m), KeysOf(p, t, m), KeysBefore(s, t)
  PROVE  KeysOf(p, s \o t, m)
<1> DEFINE u == s \o t
           a == Len(s)
           b == Len(t)
<1>1. /\ a \in Nat /\ b \in Nat /\ DOMAIN s = 1 .. a /\ DOMAIN t = 1 .. b
      /\ DOMAIN u = 1 .. a + b
      /\ \A i \in 1 .. a + b : u[i] = IF i <= a THEN s[i] ELSE t[i - a]
  BY LenProperties, ConcatProperties
<1> HIDE DEF u, a, b
<1>2. ASSUME NEW i \in DOMAIN u
      PROVE  \/ i <= a /\ i \in DOMAIN s /\ u[i] = s[i]
             \/ i > a /\ i - a \in DOMAIN t /\ u[i] = t[i - a]
  BY <1>1
<1>3. ASSUME NEW i \in DOMAIN u, NEW j \in DOMAIN u, i < j
      PROVE  u[i].n < u[j].n
  <2>0. i \in Nat /\ j \in Nat
    BY <1>1
  <2>1. CASE i <= a /\ j <= a
    <3>1. i \in DOMAIN s /\ u[i] = s[i] /\ j \in DOMAIN s /\ u[j] = s[j]
      BY <2>0, <2>1, <1>1, <1>2
    <3> QED BY <3>1, <1>3 DEF KeysOf
  <2>2. CASE i <= a /\ j > a
    <3>1. i \in DOMAIN s /\ u[i] = s[i] /\ j - a \in DOMAIN t /\ u[j] = t[j - a]
      BY <2>0, <2>2, <1>1, <1>2
    <3> QED BY <3>1 DEF KeysBefore
  <2>3. CASE i > a
    <3>1. /\ i - a \in DOMAIN t /\ u[i] = t[i - a] /\ j - a \in DOMAIN t /\ u[j] = t[j - a]
          /\ i - a < j - a
      BY <2>0, <2>3, <1>1, <1>2, <1>3
    <3> QED BY <3>1 DEF KeysOf
  <2> QED BY <2>0, <2>1, <2>2, <2>3, <1>1
<1>4. ASSUME NEW i \in DOMAIN u
      PROVE  u[i].port = p /\ u[i].n <= m
  BY <1>2 DEF KeysOf
<1>5. KeysOf(p, u, m)
  BY <1>3, <1>4 DEF KeysOf
<1> QED BY <1>5 DEF u

LEMMA KeysMore ==
  ASSUME NEW p \in Port, NEW s \in Seq(Key), NEW m \in Nat, KeysOf(p, s, m)
  PROVE  KeysOf(p, s, m + 1)
<1>1. \A i \in DOMAIN s : s[i].n \in Nat
  <2>1. \A i \in DOMAIN s : s[i] \in Key
    BY ElementOfSeq, LenProperties
  <2>2. \A k \in Key : k.n \in Nat
    BY WsAssumption DEF WsAssumption, Key
  <2> QED BY <2>1, <2>2
<1>2. \A k \in Nat : k <= m => k <= m + 1
  OBVIOUS
<1> QED BY <1>1, <1>2 DEF KeysOf

\* A key is added to what was typed after s; the oldest of it may be dropped.
LEMMA KeysBeforeAppend ==
  ASSUME NEW p \in Port, NEW s \in Seq(Key), NEW t \in Seq(Key), NEW m \in Nat,
         KeysOf(p, s, m), KeysBefore(s, t), NEW key \in Key, key.n = m + 1
  PROVE  /\ KeysBefore(s, Append(t, key))
         /\ t # <<>> => KeysBefore(s, Tail(t))
<1> DEFINE u == Append(t, key)
           l == Len(t) + 1
<1>1. /\ \A i \in DOMAIN u : i \in DOMAIN t \/ i = l
      /\ \A i \in DOMAIN t : u[i] = t[i]
      /\ u[l] = key
  BY AppendOf
<1>2. \A i \in DOMAIN s : s[i].n < m + 1
  <2>1. \A i \in DOMAIN s : s[i] \in Key
    BY ElementOfSeq, LenProperties
  <2>2. \A k \in Key : k.n \in Nat
    BY WsAssumption DEF WsAssumption, Key
  <2> QED BY <2>1, <2>2 DEF KeysOf
<1> HIDE DEF u, l
<1>3. KeysBefore(s, u)
  BY <1>1, <1>2 DEF KeysBefore
<1>4. ASSUME t # <<>>
      PROVE  KeysBefore(s, Tail(t))
  <2>1. \A i \in DOMAIN Tail(t) : i + 1 \in DOMAIN t /\ Tail(t)[i] = t[i + 1]
    BY <1>4, HeadTailOf
  <2> QED BY <2>1 DEF KeysBefore
<1> QED BY <1>3, <1>4 DEF u

LEMMA KeysKept ==
  ASSUME TypeOK, HomeInv, KeysInv, [Next]_vars, TypeOK'
  PROVE  KeysInv'
<1>0. /\ typed \in Nat /\ Here \in Port
      /\ \A p \in Port : tx[p] \in Seq(Key) /\ hist.written[p] \in Seq(Key)
      /\ \A f \in Fd : fd_port[f] \in Port \cup {NoPort}
  BY HereIs DEF TypeOK, Hist
<1>1. ASSUME NEW f \in Fd, handle_binary(f)
      PROVE  KeysInv'
  <2> DEFINE q == fd_port[f]
             key == [n |-> typed + 1, port |-> conn[f]]
             new == tx'[q]
  <2>1. /\ httpd.at = "idle" /\ conn[f] \in Port /\ typed < MaxTyped
        /\ typed' = typed + 1 /\ hist' = hist
        /\ tx' = IF q = NoPort \/ (ws_send.at = "tx_draining" /\ Here = q) THEN tx
                 ELSE [tx EXCEPT ![q] = Append(IF Len(@) = WS_RING_CAP THEN Tail(@) ELSE @, key)]
    BY <1>1 DEF handle_binary
  <2>2. key \in Key /\ key.n = typed + 1 /\ key.port = conn[f]
    BY <2>1, <1>0, WsAssumption DEF WsAssumption, Key
  <2>3. q = NoPort \/ q = conn[f]
    BY <2>1 DEF HomeInv, Removing
  <2>4. \A p \in Port : /\ KeysOf(p, hist.written[p], typed) /\ KeysOf(p, tx[p], typed)
                        /\ KeysBefore(hist.written[p], tx[p])
    BY DEF KeysInv
  <2> HIDE DEF key, q
  <2>5. \A p \in Port : /\ KeysOf(p, hist.written[p], typed + 1)
                        /\ KeysOf(p, tx[p], typed + 1)
    BY <2>4, <1>0, KeysMore
  <2>6. CASE tx' = tx
    BY <2>1, <2>4, <2>5, <2>6 DEF KeysInv
  <2>7. ASSUME q # NoPort,
               tx' = [tx EXCEPT ![q] = Append(IF Len(@) = WS_RING_CAP THEN Tail(@) ELSE @, key)]
        PROVE  KeysInv'
    <3>1. q \in Port /\ key.port = q /\ tx[q] \in Seq(Key)
      BY <2>1, <2>2, <2>3, <2>7, <1>0
    <3>2. /\ new = Append(IF Len(tx[q]) = WS_RING_CAP THEN Tail(tx[q]) ELSE tx[q], key)
          /\ \A p \in Port : p # q => tx'[p] = tx[p]
      BY <3>1, <2>7 DEF TypeOK
    <3>3. Len(tx[q]) = WS_RING_CAP => tx[q] # <<>>
      BY WsAssumption DEF WsAssumption
    <3>4. PICK t \in {tx[q], Tail(tx[q])} :
            /\ new = Append(t, key)
            /\ t # tx[q] => t = Tail(tx[q]) /\ tx[q] # <<>>
      BY <3>2, <3>3
    <3>5. /\ t \in Seq(Key) /\ KeysOf(q, t, typed)
          /\ KeysBefore(hist.written[q], t)
      <4>1. CASE t = tx[q]
        BY <4>1, <3>1, <2>4
      <4>2. CASE t # tx[q]
        <5>1. Tail(tx[q]) \in Seq(Key)
          BY <4>2, <3>1, <3>4, HeadTailOf
        <5>2. KeysOf(q, Tail(tx[q]), typed)
          BY <4>2, <3>1, <3>4, <2>4, <1>0, KeysTail
        <5>3. KeysBefore(hist.written[q], Tail(tx[q]))
          BY <4>2, <3>1, <3>4, <2>2, <2>4, <1>0, KeysBeforeAppend
        <5> QED BY <4>2, <3>4, <5>1, <5>2, <5>3
      <4> QED BY <4>1, <4>2
    <3>6. KeysOf(q, new, typed + 1)
      BY <3>1, <3>4, <3>5, <2>2, <1>0, KeysAppend
    <3>7. KeysBefore(hist.written[q], new)
      BY <3>1, <3>4, <3>5, <2>2, <2>4, <1>0, KeysBeforeAppend
    <3> QED BY <2>1, <2>4, <2>5, <3>2, <3>6, <3>7 DEF KeysInv
  <2> QED BY <2>1, <2>6, <2>7
<1>2. CASE ws_drain_tx
  <2> DEFINE w == hist.written[Here]
             all == w \o tx[Here]
  <2>1. /\ tx' = [tx EXCEPT ![Here] = <<>>] /\ typed' = typed
        /\ hist' \in {hist, [hist EXCEPT !.written[Here] = all]}
    BY <1>2 DEF ws_drain_tx
  <2>2. /\ KeysOf(Here, w, typed) /\ KeysOf(Here, tx[Here], typed)
        /\ KeysBefore(w, tx[Here])
    BY <1>0 DEF KeysInv
  <2>3. KeysOf(Here, all, typed)
    BY <1>0, <2>2, KeysConcat
  <2>4. /\ hist'.written[Here] \in {w, all}
        /\ \A p \in Port : p # Here => hist'.written[p] = hist.written[p]
    <3> DEFINE g == [hist.written EXCEPT ![Here] = all]
    <3>1. g[Here] = all /\ \A p \in Port : p # Here => g[p] = hist.written[p]
      BY <1>0 DEF TypeOK, Hist
    <3>2. hist' \in {hist, [hist EXCEPT !.written = g]}
      BY <2>1
    <3> HIDE DEF g
    <3>3. hist'.written \in {hist.written, g}
      BY <3>2 DEF TypeOK, Hist
    <3> QED BY <3>1, <3>3
  <2>5. tx'[Here] = <<>> /\ \A p \in Port : p # Here => tx'[p] = tx[p]
    BY <2>1, <1>0 DEF TypeOK
  <2> HIDE DEF all, w
  <2>6. KeysOf(Here, <<>>, typed) /\ \A s : KeysBefore(s, <<>>)
    BY DEF KeysOf, KeysBefore
  <2>7. ASSUME NEW p \in Port
        PROVE  /\ KeysOf(p, hist'.written[p], typed) /\ KeysOf(p, tx'[p], typed)
               /\ KeysBefore(hist'.written[p], tx'[p])
    <3>1. CASE p = Here
      BY <3>1, <2>2, <2>3, <2>4, <2>5, <2>6
    <3>2. CASE p # Here
      BY <3>2, <2>4, <2>5 DEF KeysInv
    <3> QED BY <3>1, <3>2
  <2> QED BY <2>1, <2>7 DEF KeysInv
<1>3. ASSUME UNCHANGED <<tx, typed, hist.written>>
      PROVE  KeysInv'
  BY <1>3 DEF KeysInv
<1>4. ASSUME NEW p \in Port, ws_enqueue(p)
      PROVE  UNCHANGED <<tx, typed, hist.written>>
  <2>1. /\ UNCHANGED <<tx, typed>>
        /\ hist' = hist \/ \E S : hist' = [hist EXCEPT !.lost = S]
    BY <1>4, EnqueueOf
  <2> QED BY <2>1 DEF TypeOK, Hist
<1>5. ASSUME NEW f \in Fd, handle_closed(f) \/ \E p \in Port : handle_text(f, p)
      PROVE  UNCHANGED <<tx, typed, hist.written>>
  <2>1. UNCHANGED <<tx, typed>> /\ hist' = [hist EXCEPT !.got[f] = <<>>]
    BY <1>5 DEF handle_closed, handle_text
  <2> QED BY <2>1 DEF TypeOK, Hist
<1>6. ASSUME do_work
      PROVE  UNCHANGED <<tx, typed, hist.written>>
  <2> DEFINE f == Head(ws_send.todo)
             got == [hist.got EXCEPT ![f] = @ \o ws_send.data]
  <2>1. /\ UNCHANGED <<tx, typed>>
        /\ hist' = hist \/ hist' = [hist EXCEPT !.got = got]
    BY <1>6 DEF do_work
  <2> HIDE DEF got
  <2> QED BY <2>1 DEF TypeOK, Hist
<1>7. ASSUME lists \/ (thread /\ ~ws_drain_tx) \/ (\E f \in Fd : Connect(f)) \/ UNCHANGED vars
      PROVE  UNCHANGED <<tx, typed, hist>>
  BY <1>7 DEF lists, thread, Connect, drain_lock, drain, lock_list, try_sender, sent,
       unlock_list, drain_tx_lock, ws_remove_sender, ws_register_sender, vars
<1> QED BY <1>1, <1>2, <1>3, <1>4, <1>5, <1>6, <1>7 DEF Next, frame
-------------------------------------------------------------------------------
(* The bytes.                                                              *)

LEMMA BytesOf ==
  ASSUME NEW s \in Seq(Byte), NEW p, Sorted(p, s)
  PROVE  /\ \A b \in Range(s) : b \in Byte /\ b[2] \in Nat /\ b = <<p, b[2]>>
         /\ (s = <<>>) <=> (Range(s) = {})
<1>1. \A i \in DOMAIN s : s[i] \in Byte /\ s[i][1] = p
  BY ElementOfSeq, LenProperties DEF Sorted
<1>2. \A b \in Byte : b[2] \in Nat /\ b = <<b[1], b[2]>>
  BY DEF Byte
<1>3. ASSUME s # <<>>
      PROVE  Range(s) # {}
  <2>1. Range(s) = Range(Tail(s)) \cup {Head(s)}
    BY <1>3, HeadTailOf
  <2> QED BY <2>1
<1>4. s = <<>> => Range(s) = {}
  BY DEF Range
<1> QED BY <1>1, <1>2, <1>3, <1>4 DEF Range

LEMMA SortedEmpty == \A p : Sorted(p, <<>>) /\ Range(<<>>) = {}
BY DEF Sorted, Range

LEMMA SortedAppend ==
  ASSUME NEW p, NEW s \in Seq(Byte), Sorted(p, s),
         NEW b \in Byte, b[1] = p, \A c \in Range(s) : c[2] < b[2]
  PROVE  Sorted(p, Append(s, b))
<1> DEFINE t == Append(s, b)
           l == Len(s) + 1
<1>1. /\ DOMAIN s = 1 .. Len(s) /\ DOMAIN t = 1 .. l /\ Len(s) \in Nat
      /\ \A i \in DOMAIN s : t[i] = s[i]
      /\ t[l] = b
  BY AppendOf
<1> HIDE DEF t
<1>2. \A i \in DOMAIN t : i \in DOMAIN s \/ i = l
  BY <1>1
<1>3. ASSUME NEW i \in DOMAIN t, NEW j \in DOMAIN t, i < j
      PROVE  t[i][2] < t[j][2]
  <2>1. i \in DOMAIN s
    BY <1>1, <1>3
  <2>2. CASE j \in DOMAIN s
    BY <2>1, <2>2, <1>1, <1>3 DEF Sorted
  <2>3. CASE j = l
    BY <2>1, <2>3, <1>1 DEF Range
  <2> QED BY <2>2, <2>3, <1>2
<1>4. \A i \in DOMAIN t : t[i][1] = p
  BY <1>1, <1>2 DEF Sorted
<1>5. Sorted(p, t)
  BY <1>3, <1>4 DEF Sorted
<1> QED BY <1>5 DEF t

LEMMA SortedTail ==
  ASSUME NEW p, NEW s \in Seq(Byte), Sorted(p, s), s # <<>>
  PROVE  /\ Sorted(p, Tail(s))
         /\ \A c \in Range(Tail(s)) : Head(s)[2] < c[2]
<1>1. /\ Head(s) = s[1]
      /\ \A i \in DOMAIN Tail(s) : i + 1 \in DOMAIN s /\ Tail(s)[i] = s[i + 1]
      /\ Tail(s) \in Seq(Byte) /\ Len(s) \in Nat \ {0}
  BY HeadTailOf
<1>2. /\ \A i \in DOMAIN Tail(s) : i \in Nat \ {0}
      /\ 1 \in DOMAIN s
  BY <1>1, LenProperties
<1>3. ASSUME NEW i \in DOMAIN Tail(s), NEW j \in DOMAIN Tail(s), i < j
      PROVE  Tail(s)[i][2] < Tail(s)[j][2]
  <2>1. i + 1 < j + 1
    BY <1>2, <1>3
  <2> QED BY <2>1, <1>1 DEF Sorted
<1>4. ASSUME NEW i \in DOMAIN Tail(s)
      PROVE  Tail(s)[i][1] = p /\ Head(s)[2] < Tail(s)[i][2]
  <2>1. 1 < i + 1
    BY <1>2
  <2> QED BY <2>1, <1>1, <1>2 DEF Sorted
<1>5. Sorted(p, Tail(s))
  BY <1>3, <1>4 DEF Sorted
<1> QED BY <1>4, <1>5 DEF Range

LEMMA SortedConcat ==
  ASSUME NEW p, NEW s \in Seq(Byte), NEW t \in Seq(Byte),
         Sorted(p, s), Sorted(p, t), Before(Range(s), Range(t))
  PROVE  Sorted(p, s \o t) /\ Range(s \o t) = Range(s) \cup Range(t)
<1> DEFINE u == s \o t
           a == Len(s)
           b == Len(t)
<1>1. /\ a \in Nat /\ b \in Nat /\ DOMAIN s = 1 .. a /\ DOMAIN t = 1 .. b
      /\ DOMAIN u = 1 .. a + b
      /\ \A i \in 1 .. a + b : u[i] = IF i <= a THEN s[i] ELSE t[i - a]
  BY LenProperties, ConcatProperties
<1> HIDE DEF u, a, b
<1>2. ASSUME NEW i \in DOMAIN u
      PROVE  \/ i <= a /\ i \in DOMAIN s /\ u[i] = s[i]
             \/ i > a /\ i - a \in DOMAIN t /\ u[i] = t[i - a]
  BY <1>1
<1>3. ASSUME NEW i \in DOMAIN u, NEW j \in DOMAIN u, i < j
      PROVE  u[i][2] < u[j][2]
  <2>0. i \in Nat /\ j \in Nat
    BY <1>1
  <2>1. CASE i <= a /\ j <= a
    <3>1. i \in DOMAIN s /\ u[i] = s[i] /\ j \in DOMAIN s /\ u[j] = s[j]
      BY <2>0, <2>1, <1>1, <1>2
    <3> QED BY <3>1, <1>3 DEF Sorted
  <2>2. CASE i <= a /\ j > a
    <3>1. i \in DOMAIN s /\ u[i] = s[i] /\ j - a \in DOMAIN t /\ u[j] = t[j - a]
      BY <2>0, <2>2, <1>1, <1>2
    <3> QED BY <3>1 DEF Before, Range
  <2>3. CASE i > a
    <3>1. /\ i - a \in DOMAIN t /\ u[i] = t[i - a] /\ j - a \in DOMAIN t /\ u[j] = t[j - a]
          /\ i - a < j - a
      BY <2>0, <2>3, <1>1, <1>2, <1>3
    <3> QED BY <3>1 DEF Sorted
  <2> QED BY <2>0, <2>1, <2>2, <2>3, <1>1
<1>4. ASSUME NEW i \in DOMAIN u
      PROVE  u[i][1] = p /\ u[i] \in Range(s) \cup Range(t)
  BY <1>2 DEF Sorted, Range
<1>5. Range(u) \subseteq Range(s) \cup Range(t)
  BY <1>4 DEF Range
<1>6. Range(s) \subseteq Range(u)
  <2>1. \A i \in DOMAIN s : i \in DOMAIN u /\ u[i] = s[i]
    BY <1>1
  <2> QED BY <2>1 DEF Range
<1>7. Range(t) \subseteq Range(u)
  <2>1. \A i \in DOMAIN t : a + i \in DOMAIN u /\ u[a + i] = t[i]
    <3> SUFFICES ASSUME NEW i \in DOMAIN t
                 PROVE  a + i \in DOMAIN u /\ u[a + i] = t[i]
      OBVIOUS
    <3>1. a + i \in 1 .. a + b /\ ~(a + i <= a) /\ (a + i) - a = i
      BY <1>1
    <3> QED BY <3>1, <1>1
  <2> QED BY <2>1 DEF Range
<1>8. Sorted(p, u) /\ Range(u) = Range(s) \cup Range(t)
  BY <1>3, <1>4, <1>5, <1>6, <1>7 DEF Sorted
<1> QED BY <1>8 DEF u

\* One byte more is heard, and it is in U as all of T is.
LEMMA WholeMore ==
  ASSUME NEW p, NEW S, NEW m \in Nat, NEW T, NEW U,
         Whole(p, S, m, T), \A b \in S : b[2] \in Nat,
         T \subseteq U, <<p, m + 1>> \in U
  PROVE  /\ Whole(p, S, m + 1, U) /\ Whole(p, {<<p, m + 1>>}, m + 1, U)
         /\ Whole(p, S \cup {<<p, m + 1>>}, m + 1, U)
<1>1. Whole(p, S, m + 1, U)
  <2> SUFFICES ASSUME NEW b \in S, NEW n \in b[2] .. m + 1
               PROVE  <<p, n>> \in U
    BY DEF Whole
  <2>1. b[2] \in Nat /\ n \in Int /\ (n \in b[2] .. m \/ n = m + 1)
    OBVIOUS
  <2> QED BY <2>1 DEF Whole
<1>2. Whole(p, {<<p, m + 1>>}, m + 1, U)
  <2>1. \A n \in m + 1 .. m + 1 : n = m + 1
    OBVIOUS
  <2> QED BY <2>1 DEF Whole
<1> QED BY <1>1, <1>2 DEF Whole

\* What a byte received does to the ring of its port and to what is lost:
\* none of the bytes is in neither.
LEMMA RingOf ==
  ASSUME TypeOK, RingInv, NEW p \in Port, ws_enqueue(p)
  PROVE  LET b == <<p, heard[p] + 1>>
             R == Range(ring[p])
             S == Range(ring'[p])
         IN  /\ heard'[p] = heard[p] + 1
             /\ \A q \in Port : q # p => heard'[q] = heard[q] /\ ring'[q] = ring[q]
             /\ UNCHANGED <<conn, senders, httpd, ws_send, work, hist.got>>
             /\ S \subseteq R \cup {b} /\ R \cup hist.lost \cup {b} \subseteq S \cup hist'.lost
             /\ hist.lost \subseteq hist'.lost
             /\ Sorted(p, ring'[p])
<1> DEFINE b == <<p, heard[p] + 1>>
           r == ring[p]
<1>1. /\ r \in Seq(Byte) /\ heard[p] \in Nat /\ b \in Byte
      /\ Sorted(p, r) /\ \A c \in Range(r) : c[2] <= heard[p]
  BY ByteNext DEF TypeOK, RingInv
<1>2. /\ heard' = [heard EXCEPT ![p] = @ + 1]
      /\ UNCHANGED <<conn, senders, fd_port, tx, httpd, ws_send, work, typed>>
      /\ \/ /\ ring' = ring
            /\ hist' = [hist EXCEPT !.lost = hist.lost \cup {b}]
         \/ /\ ring' = [ring EXCEPT ![p] = Append(r, b)] /\ hist' = hist
         \/ /\ r # <<>> /\ ring' = [ring EXCEPT ![p] = Append(Tail(r), b)]
            /\ hist' = [hist EXCEPT !.lost = hist.lost \cup {Head(r)}]
  BY EnqueueOf
<1>3. /\ heard'[p] = heard[p] + 1
      /\ \A q \in Port : q # p => heard'[q] = heard[q] /\ ring'[q] = ring[q]
  BY <1>2 DEF TypeOK
<1>4. \A S : hist' = [hist EXCEPT !.lost = S] => hist'.lost = S /\ hist'.got = hist.got
  BY DEF TypeOK, Hist
<1>5. \A s : ring' = [ring EXCEPT ![p] = s] => ring'[p] = s
  BY DEF TypeOK
<1>6. b[1] = p /\ b[2] = heard[p] + 1
  OBVIOUS
<1>7. \A c \in Range(r) : c[2] \in Nat /\ c[2] < b[2]
  <2>1. \A c \in Range(r) : c[2] \in Nat
    BY <1>1, BytesOf
  <2> QED BY <2>1, <1>1, <1>6
<1> HIDE DEF r, b
<1>8. CASE ring' = ring /\ hist' = [hist EXCEPT !.lost = hist.lost \cup {b}]
  BY <1>1, <1>2, <1>3, <1>4, <1>8 DEF b, r
<1>9. CASE ring' = [ring EXCEPT ![p] = Append(r, b)] /\ hist' = hist
  <2>1. Sorted(p, Append(r, b)) /\ Range(Append(r, b)) = Range(r) \cup {b}
    BY <1>1, <1>6, <1>7, SortedAppend, AppendOf
  <2>2. ring'[p] = Append(r, b)
    BY <1>5, <1>9
  <2> QED BY <2>1, <2>2, <1>2, <1>3, <1>9 DEF b, r
<1>10. CASE /\ r # <<>> /\ ring' = [ring EXCEPT ![p] = Append(Tail(r), b)]
            /\ hist' = [hist EXCEPT !.lost = hist.lost \cup {Head(r)}]
  <2> DEFINE t == Tail(r)
  <2>1. t \in Seq(Byte) /\ Range(r) = Range(t) \cup {Head(r)} /\ Sorted(p, t)
    BY <1>1, <1>10, HeadTailOf, SortedTail
  <2> HIDE DEF t
  <2>2. Sorted(p, Append(t, b)) /\ Range(Append(t, b)) = Range(t) \cup {b}
    BY <2>1, <1>1, <1>6, <1>7, SortedAppend, AppendOf
  <2>3. ring'[p] = Append(t, b)
    BY <1>5, <1>10 DEF t
  <2>4. hist'.lost = hist.lost \cup {Head(r)} /\ hist'.got = hist.got
    BY <1>4, <1>10
  <2> QED BY <2>1, <2>2, <2>3, <2>4, <1>2, <1>3 DEF b, r
<1> QED BY <1>2, <1>8, <1>9, <1>10

\* Steps that take nothing from the rings and lose nothing.
LEMMA RingQuiet ==
  ASSUME TypeOK, RingInv, UNCHANGED <<ring, heard, hist.lost>>,
         \/ ws_send'.data = <<>>
         \/ ws_send'.data = ws_send.data /\ Here' = Here
  PROVE  RingInv'
<1>1. Sorted(Here', <<>>) /\ Range(<<>>) = {}
  BY SortedEmpty
<1>2. CASE ws_send'.data = <<>>
  BY <1>1, <1>2 DEF RingInv, Before, Whole
<1>3. CASE ws_send'.data = ws_send.data /\ Here' = Here
  BY <1>3 DEF RingInv
<1> QED BY <1>2, <1>3

\* Between two ports, or with a ring or a queue locked, ws_send goes on.
LEMMA PassOf ==
  ASSUME TypeOK, drain_lock \/ drain_tx_lock \/ ws_drain_tx
  PROVE  /\ UNCHANGED <<conn, senders, ring, httpd, work, heard, hist.lost, hist.got>>
         /\ ws_send.at \notin {"lock", "send", "wait"}
         /\ ws_send'.at \notin {"lock", "send", "wait"}
<1>0. ws_send \in Sender
  BY DEF TypeOK
<1>1. CASE drain_lock \/ drain_tx_lock
  <2>1. /\ UNCHANGED <<conn, senders, ring, httpd, work, heard, hist>>
        /\ ws_send.at \in {"drain", "tx"}
        /\ \/ NextStage("drain", "tx") \/ NextStage("tx", "drain")
           \/ \E at \in {"draining", "tx_draining"} : ws_send' = [ws_send EXCEPT !.at = at]
    BY <1>1 DEF drain_lock, drain_tx_lock
  <2>2. NextStage("drain", "tx") \/ NextStage("tx", "drain") => ws_send'.at \in {"drain", "tx"}
    BY <1>0, NextStageOf
  <2>3. ASSUME NEW at \in {"draining", "tx_draining"}, ws_send' = [ws_send EXCEPT !.at = at]
        PROVE  ws_send'.at = at
    BY <2>3, <1>0 DEF Sender
  <2> QED BY <2>1, <2>2, <2>3
<1>2. CASE ws_drain_tx
  <2> DEFINE w == [hist.written EXCEPT ![Here] = @ \o tx[Here]]
  <2>1. /\ UNCHANGED <<conn, senders, ring, httpd, work, heard>>
        /\ ws_send.at = "tx_draining" /\ NextStage("tx", "drain")
        /\ hist' = hist \/ hist' = [hist EXCEPT !.written = w]
    BY <1>2 DEF ws_drain_tx
  <2>2. ws_send'.at \in {"drain", "tx"}
    BY <2>1, <1>0, NextStageOf
  <2> HIDE DEF w
  <2>3. hist'.lost = hist.lost /\ hist'.got = hist.got
    BY <2>1 DEF TypeOK, Hist
  <2> QED BY <2>1, <2>2, <2>3
<1> QED BY <1>1, <1>2

\* The other steps of ws_send.
LEMMA ThreadOf ==
  ASSUME TypeOK
  PROVE  /\ drain \/ lock_list \/ try_sender \/ sent \/ unlock_list =>
              UNCHANGED <<conn, httpd, heard, hist>>
         /\ drain => /\ ws_send.at = "draining" /\ UNCHANGED <<senders, work>> /\ Here' = Here
                     /\ ws_send'.at = "lock" /\ ws_send'.data = ring[Here]
                     /\ ring'[Here] = <<>> /\ \A p \in Port : p # Here => ring'[p] = ring[p]
         /\ lock_list => /\ ws_send.at = "lock" /\ UNCHANGED <<ring, senders, work>> /\ Here' = Here
                         /\ ws_send'.at = "send" /\ ws_send'.data = ws_send.data
                         /\ ws_send'.todo = senders[Here] /\ ws_send'.keep = ws_send.keep
         /\ try_sender => /\ ws_send.at = "send" /\ ws_send.todo # <<>>
                          /\ UNCHANGED <<ring, senders>> /\ Here' = Here
                          /\ ws_send'.data = ws_send.data /\ ws_send'.keep = ws_send.keep
                          /\ \/ /\ ws_send'.at = "send" /\ ws_send'.todo = Tail(ws_send.todo)
                                /\ work' = work
                             \/ /\ ws_send'.at = "wait" /\ ws_send'.todo = ws_send.todo
                                /\ work' = "queued"
         /\ sent => /\ ws_send.at = "wait" /\ work \in {"sent", "failed"} /\ work' = "none"
                    /\ UNCHANGED <<ring, senders>> /\ Here' = Here
                    /\ ws_send'.at = "send" /\ ws_send'.data = ws_send.data
                    /\ ws_send'.todo = Tail(ws_send.todo)
                    /\ ws_send'.keep = IF work = "sent"
                                         THEN Append(ws_send.keep, Head(ws_send.todo))
                                         ELSE ws_send.keep
         /\ unlock_list => /\ ws_send.at = "send" /\ ws_send.todo = <<>>
                           /\ UNCHANGED <<ring, work>> /\ ws_send'.at \in {"drain", "tx"}
                           /\ senders'[Here] = ws_send.keep
                           /\ \A p \in Port : p # Here => senders'[p] = senders[p]
<1>0. ws_send \in Sender /\ Here \in Port
  BY HereIs DEF TypeOK
<1>1. drain \/ lock_list \/ try_sender \/ sent \/ unlock_list => UNCHANGED <<conn, httpd, heard, hist>>
  BY DEF drain, lock_list, try_sender, sent, unlock_list
<1>2. ASSUME drain
      PROVE  /\ ws_send.at = "draining" /\ UNCHANGED <<senders, work>> /\ Here' = Here
             /\ ws_send'.at = "lock" /\ ws_send'.data = ring[Here]
             /\ ring'[Here] = <<>> /\ \A p \in Port : p # Here => ring'[p] = ring[p]
  <2>1. /\ ws_send' = [ws_send EXCEPT !.at = "lock", !.data = ring[Here]]
        /\ ring' = [ring EXCEPT ![Here] = <<>>]
        /\ ws_send.at = "draining" /\ UNCHANGED <<senders, work>>
    BY <1>2 DEF drain
  <2>2. ws_send'.at = "lock" /\ ws_send'.data = ring[Here] /\ Here' = Here
    BY <2>1, <1>0 DEF Sender, Here
  <2>3. ring'[Here] = <<>> /\ \A p \in Port : p # Here => ring'[p] = ring[p]
    BY <2>1, <1>0 DEF TypeOK
  <2> QED BY <2>1, <2>2, <2>3
<1>3. ASSUME lock_list
      PROVE  /\ ws_send.at = "lock" /\ UNCHANGED <<ring, senders, work>> /\ Here' = Here
             /\ ws_send'.at = "send" /\ ws_send'.data = ws_send.data
             /\ ws_send'.todo = senders[Here] /\ ws_send'.keep = ws_send.keep
  BY <1>3, <1>0 DEF lock_list, Sender, Here
<1>4. ASSUME try_sender
      PROVE  /\ ws_send.at = "send" /\ ws_send.todo # <<>>
             /\ UNCHANGED <<ring, senders>> /\ Here' = Here
             /\ ws_send'.data = ws_send.data /\ ws_send'.keep = ws_send.keep
             /\ \/ /\ ws_send'.at = "send" /\ ws_send'.todo = Tail(ws_send.todo)
                   /\ work' = work
                \/ /\ ws_send'.at = "wait" /\ ws_send'.todo = ws_send.todo
                   /\ work' = "queued"
  <2>1. /\ ws_send.at = "send" /\ ws_send.todo # <<>>
        /\ UNCHANGED <<ring, senders>>
        /\ \/ /\ ws_send' = [ws_send EXCEPT !.todo = Tail(ws_send.todo)] /\ work' = work
           \/ /\ ws_send' = [ws_send EXCEPT !.at = "wait"] /\ work' = "queued"
    BY <1>4 DEF try_sender
  <2> QED BY <2>1, <1>0 DEF Sender, Here
<1>5. ASSUME sent
      PROVE  /\ ws_send.at = "wait" /\ work \in {"sent", "failed"} /\ work' = "none"
             /\ UNCHANGED <<ring, senders>> /\ Here' = Here
             /\ ws_send'.at = "send" /\ ws_send'.data = ws_send.data
             /\ ws_send'.todo = Tail(ws_send.todo)
             /\ ws_send'.keep = IF work = "sent"
                                  THEN Append(ws_send.keep, Head(ws_send.todo))
                                  ELSE ws_send.keep
  <2> DEFINE keep == IF work = "sent" THEN Append(ws_send.keep, Head(ws_send.todo))
                                      ELSE ws_send.keep
  <2>1. /\ ws_send.at = "wait" /\ work \in {"sent", "failed"} /\ work' = "none"
        /\ UNCHANGED <<ring, senders>>
        /\ ws_send' = [ws_send EXCEPT !.at = "send", !.todo = Tail(ws_send.todo), !.keep = keep]
    BY <1>5 DEF sent
  <2> HIDE DEF keep
  <2>2. /\ ws_send'.at = "send" /\ ws_send'.data = ws_send.data /\ Here' = Here
        /\ ws_send'.todo = Tail(ws_send.todo) /\ ws_send'.keep = keep
    BY <2>1, <1>0 DEF Sender, Here
  <2> QED BY <2>1, <2>2 DEF keep
<1>6. ASSUME unlock_list
      PROVE  /\ ws_send.at = "send" /\ ws_send.todo = <<>>
             /\ UNCHANGED <<ring, work>> /\ ws_send'.at \in {"drain", "tx"}
             /\ senders'[Here] = ws_send.keep
             /\ \A p \in Port : p # Here => senders'[p] = senders[p]
  <2>1. /\ ws_send.at = "send" /\ ws_send.todo = <<>> /\ UNCHANGED <<ring, work>>
        /\ NextStage("drain", "tx") /\ senders' = [senders EXCEPT ![Here] = ws_send.keep]
    BY <1>6 DEF unlock_list
  <2>2. ws_send'.at \in {"drain", "tx"}
    BY <2>1, <1>0, NextStageOf
  <2>3. /\ senders'[Here] = ws_send.keep
        /\ \A p \in Port : p # Here => senders'[p] = senders[p]
    BY <2>1, <1>0 DEF TypeOK
  <2> QED BY <2>1, <2>2, <2>3
<1> QED BY <1>1, <1>2, <1>3, <1>4, <1>5, <1>6

LEMMA RingKept ==
  ASSUME TypeOK, RingInv, SendInv', [Next]_vars
  PROVE  RingInv'
<1>0. /\ ws_send \in Sender /\ Here \in Port
      /\ \A p \in Port : ring[p] \in Seq(Byte) /\ heard[p] \in Nat
      /\ ws_send.data \in Seq(Byte)
  BY HereIs DEF TypeOK, Sender
<1>1. ASSUME NEW p \in Port, ws_enqueue(p)
      PROVE  RingInv'
  <2> DEFINE b == <<p, heard[p] + 1>>
             R == Range(ring[p])
             S == Range(ring'[p])
             D == Range(ws_send.data)
             h == heard[p]
             L == hist.lost
             M == hist'.lost
  <2>1. /\ heard'[p] = h + 1
        /\ \A q \in Port : q # p => heard'[q] = heard[q] /\ ring'[q] = ring[q]
        /\ UNCHANGED <<ws_send>>
        /\ S \subseteq R \cup {b} /\ R \cup L \cup {b} \subseteq S \cup M
        /\ L \subseteq M
        /\ Sorted(p, ring'[p])
    BY <1>1, RingOf
  <2>2. /\ \A c \in R : c[2] <= h /\ c[2] \in Nat
        /\ Whole(p, R, h, R \cup L) /\ h \in Nat
    BY <1>0, BytesOf DEF RingInv
  <2>3. /\ \A c \in D : c[2] \in Nat
        /\ Sorted(Here, ws_send.data)
        /\ Before(D, Range(ring[Here])) /\ \A c \in D : c[2] <= heard[Here]
        /\ Whole(Here, D, heard[Here], D \cup Range(ring[Here]) \cup L)
        /\ Here' = Here
    BY <2>1, <1>0, BytesOf DEF RingInv, Here
  <2>4. b = <<p, h + 1>> /\ b[2] = h + 1
    OBVIOUS
  <2> HIDE DEF S, R, D, L, M, b, h
  <2>5. Whole(p, R \cup {b}, h + 1, S \cup M)
    <3>1. R \cup L \subseteq S \cup M /\ <<p, h + 1>> \in S \cup M
      BY <2>1, <2>4
    <3> QED BY <2>2, <2>4, <3>1, WholeMore
  <2>6. \A c \in S : c[2] <= h + 1
    BY <2>1, <2>2, <2>4
  <2>7. Whole(p, S, h + 1, S \cup M)
    BY <2>1, <2>5 DEF Whole
  <2>8. \A q \in Port : LET Q == Range(ring'[q]) IN
          /\ Sorted(q, ring'[q]) /\ \A c \in Q : c[2] <= heard'[q]
          /\ Whole(q, Q, heard'[q], Q \cup M)
    <3> SUFFICES ASSUME NEW q \in Port
                 PROVE  LET Q == Range(ring'[q]) IN
                        /\ Sorted(q, ring'[q]) /\ \A c \in Q : c[2] <= heard'[q]
                        /\ Whole(q, Q, heard'[q], Q \cup M)
      OBVIOUS
    <3>1. CASE q = p
      BY <3>1, <2>1, <2>6, <2>7 DEF S
    <3>2. CASE q # p
      <4>1. /\ Sorted(q, ring[q]) /\ \A c \in Range(ring[q]) : c[2] <= heard[q]
            /\ Whole(q, Range(ring[q]), heard[q], Range(ring[q]) \cup L)
        BY DEF RingInv, L
      <4>2. Whole(q, Range(ring[q]), heard[q], Range(ring[q]) \cup M)
        BY <4>1, <2>1 DEF Whole
      <4> QED BY <3>2, <4>1, <4>2, <2>1
    <3> QED BY <3>1, <3>2
  <2>9. /\ Before(D, Range(ring'[Here])) /\ \A c \in D : c[2] <= heard'[Here]
        /\ Whole(Here, D, heard'[Here], D \cup Range(ring'[Here]) \cup M)
    <3>1. CASE Here = p
      <4>1. /\ Before(D, R) /\ \A c \in D : c[2] <= h
            /\ Whole(p, D, h, D \cup R \cup L)
        BY <3>1, <2>3 DEF R, h
      <4>2. Before(D, S)
        BY <4>1, <2>1, <2>2, <2>3, <2>4 DEF Before
      <4>3. Whole(p, D, h + 1, D \cup S \cup M)
        <5>1. D \cup R \cup L \subseteq D \cup S \cup M /\ <<p, h + 1>> \in D \cup S \cup M
          BY <2>1, <2>4
        <5> QED BY <4>1, <2>2, <2>3, <5>1, WholeMore
      <4>4. \A c \in D : c[2] <= h + 1
        BY <4>1, <2>2, <2>3
      <4> QED BY <3>1, <4>2, <4>3, <4>4, <2>1 DEF S
    <3>2. CASE Here # p
      <4>1. Whole(Here, D, heard[Here], D \cup Range(ring[Here]) \cup M)
        BY <2>1, <2>3 DEF Whole
      <4> QED BY <3>2, <4>1, <2>1, <2>3, <1>0
    <3> QED BY <3>1, <3>2
  <2> QED BY <2>1, <2>3, <2>8, <2>9 DEF RingInv, D, M
<1>2. CASE drain
  <2>1. /\ UNCHANGED <<heard, hist>> /\ Here' = Here
        /\ ws_send'.data = ring[Here]
        /\ ring'[Here] = <<>> /\ \A p \in Port : p # Here => ring'[p] = ring[p]
    BY <1>2, ThreadOf
  <2>2. \A p : Sorted(p, <<>>) /\ Range(<<>>) = {}
    BY SortedEmpty
  <2>3. /\ Sorted(Here, ring[Here]) /\ \A c \in Range(ring[Here]) : c[2] <= heard[Here]
        /\ Whole(Here, Range(ring[Here]), heard[Here], Range(ring[Here]) \cup hist.lost)
    BY <1>0 DEF RingInv
  <2>4. \A p \in Port : LET Q == Range(ring'[p]) IN
          /\ Sorted(p, ring'[p]) /\ \A c \in Q : c[2] <= heard[p]
          /\ Whole(p, Q, heard[p], Q \cup hist.lost)
    <3> SUFFICES ASSUME NEW p \in Port
                 PROVE  LET Q == Range(ring'[p]) IN
                        /\ Sorted(p, ring'[p]) /\ \A c \in Q : c[2] <= heard[p]
                        /\ Whole(p, Q, heard[p], Q \cup hist.lost)
      OBVIOUS
    <3>1. CASE p = Here
      BY <3>1, <2>1, <2>2 DEF Whole
    <3>2. CASE p # Here
      BY <3>2, <2>1 DEF RingInv
    <3> QED BY <3>1, <3>2
  <2> QED BY <2>1, <2>2, <2>3, <2>4 DEF RingInv, Before
<1>3. CASE drain_lock \/ drain_tx_lock \/ ws_drain_tx \/ unlock_list
  <2>1. /\ UNCHANGED <<ring, heard, hist.lost>>
        /\ ws_send'.at \notin {"lock", "send", "wait"}
    BY <1>3, PassOf, ThreadOf
  <2> QED BY <2>1, RingQuiet DEF SendInv
<1>4. CASE lock_list \/ try_sender \/ sent
  <2>1. /\ UNCHANGED <<ring, heard, hist.lost>>
        /\ ws_send'.data = ws_send.data /\ Here' = Here
    BY <1>4, ThreadOf
  <2> QED BY <2>1, RingQuiet
<1>5. ASSUME frame \/ lists \/ do_work \/ UNCHANGED vars
      PROVE  UNCHANGED <<ring, heard, ws_send, hist.lost>>
  <2>1. UNCHANGED <<ring, heard, ws_send>>
    BY <1>5 DEF frame, lists, Connect, handle_closed, handle_binary, handle_text, do_work,
         ws_remove_sender, ws_register_sender, vars
  <2>2. hist' = hist \/ \E g : hist' = [hist EXCEPT !.got = g]
    <3>1. ASSUME NEW f \in Fd, handle_closed(f) \/ \E p \in Port : handle_text(f, p)
          PROVE  hist' = [hist EXCEPT !.got[f] = <<>>]
      BY <3>1 DEF handle_closed, handle_text
    <3>2. ASSUME do_work
          PROVE  hist' = hist \/ \E f : hist' = [hist EXCEPT !.got[f] = @ \o ws_send.data]
      BY <3>2 DEF do_work
    <3>3. ASSUME lists \/ UNCHANGED vars \/ \E f \in Fd : Connect(f) \/ handle_binary(f)
          PROVE  hist' = hist
      BY <3>3 DEF lists, Connect, handle_binary, ws_remove_sender, ws_register_sender, vars
    <3> QED BY <1>5, <3>1, <3>2, <3>3 DEF frame
  <2>3. hist'.lost = hist.lost
    BY <2>2 DEF TypeOK, Hist
  <2> QED BY <2>1, <2>3
<1>6. ASSUME UNCHANGED <<ring, heard, ws_send, hist.lost>>
      PROVE  RingInv'
  <2>1. ws_send'.data = ws_send.data /\ Here' = Here
    BY <1>6 DEF Here
  <2> QED BY <1>6, <2>1, RingQuiet
<1> QED BY <1>1, <1>2, <1>3, <1>4, <1>5, <1>6 DEF Next, thread

LEMMA GotNone ==
  ASSUME NEW f \in Fd, hist'.got[f] = <<>>
  PROVE  Gapless(f)'
<1>1. \A p : Sorted(p, <<>>) /\ Range(<<>>) = {}
  BY SortedEmpty
<1> QED BY <1>1 DEF Gapless, Before, Whole

LEMMA GotSame ==
  ASSUME NEW f \in Fd, Gapless(f), UNCHANGED <<heard, hist.lost, hist.got[f], conn[f]>>,
         httpd'.at = "idle" \/ httpd'.fd # f,
         \A p \in Port : Listens(f, p)' => Listens(f, p) /\ Coming(f, p)' = Coming(f, p)
  PROVE  Gapless(f)'
<1>1. CASE hist.got[f] = <<>>
  BY <1>1, GotNone
<1>2. CASE hist.got[f] # <<>>
  BY <1>2 DEF Gapless
<1> QED BY <1>1, <1>2

\* A terminal that has nothing to receive, before and after.
LEMMA Unheard ==
  ASSUME UNCHANGED <<senders, ring>>,
         ws_send.at \notin {"lock", "send", "wait"}, ws_send'.at \notin {"lock", "send", "wait"},
         NEW f, NEW p
  PROVE  Listens(f, p)' <=> Listens(f, p) /\ Coming(f, p)' = Coming(f, p)
BY DEF Listens, Coming, Pending, Held

\* What a frame or a step on the lists does for another terminal: nothing.
LEMMA ListsOf ==
  ASSUME TypeOK, HomeInv, lists
  PROVE  /\ httpd.at # "idle" /\ httpd.fd \in Fd
         /\ UNCHANGED <<ring, ws_send, work, heard, hist>>
         /\ \A g \in Fd : g # httpd.fd => conn'[g] = conn[g]
         /\ httpd'.at = "idle" \/ httpd'.fd = httpd.fd
         /\ \A p \in Port : \/ ~Held(p)
                            \/ senders'[p] = senders[p]
         /\ \A p \in Port : Range(senders'[p]) \subseteq Range(senders[p]) \cup {httpd.fd}
<1>0. httpd \in Httpd /\ httpd.fd \in Fd /\ httpd.left \in Seq(Port)
  BY DEF TypeOK, Httpd
<1>1. CASE ws_remove_sender
  <2> DEFINE h == Head(httpd.left)
             f == httpd.fd
  <2>1. httpd.at = "remove" /\ httpd.left # <<>>
    BY <1>1 DEF ws_remove_sender, HomeInv
  <2>2. h \in Port
    BY <2>1, <1>0, HeadTailOf
  <2>3. /\ UNCHANGED <<ring, ws_send, work, heard, hist>> /\ ~Held(h)
        /\ senders' = [senders EXCEPT ![h] = Others(senders[h], f)]
        /\ httpd' = Removed
        /\ conn' = [conn EXCEPT ![f] = IF Removed.at = "idle" THEN "none" ELSE @]
    BY <1>1 DEF ws_remove_sender
  <2>4. Removed.at = "idle" \/ Removed.fd = f
    BY <2>1, RemovedOf, Ported
  <2>5. \A g \in Fd : g # f => conn'[g] = conn[g]
    BY <2>3 DEF TypeOK
  <2>6. senders'[h] = Others(senders[h], f) /\ \A p \in Port : p # h => senders'[p] = senders[p]
    BY <2>2, <2>3 DEF TypeOK
  <2>7. senders[h] \in Seq(Fd)
    BY <2>2 DEF TypeOK
  <2> HIDE DEF h, f
  <2>8. Range(Others(senders[h], f)) \subseteq Range(senders[h])
    BY <2>7, OthersOf
  <2>9. httpd.at # "idle" /\ (httpd'.at = "idle" \/ httpd'.fd = f)
    BY <2>1, <2>3, <2>4
  <2> QED BY <1>0, <2>3, <2>5, <2>6, <2>8, <2>9 DEF f
<1>2. CASE ws_register_sender
  <2> DEFINE q == httpd.port
             f == httpd.fd
  <2>1. /\ httpd.at = "register" /\ q \in Port /\ ~Held(q)
        /\ UNCHANGED <<conn, ring, ws_send, work, heard, hist>>
        /\ senders' = [senders EXCEPT ![q] = Append(senders[q], f)]
        /\ httpd' = Idle
    BY <1>2 DEF ws_register_sender, HomeInv
  <2>2. /\ senders'[q] = Append(senders[q], f)
        /\ \A p \in Port : p # q => senders'[p] = senders[p]
    BY <2>1 DEF TypeOK
  <2>3. senders[q] \in Seq(Fd) /\ f \in Fd
    BY <2>1, <1>0 DEF TypeOK
  <2> HIDE DEF q, f
  <2>4. Range(Append(senders[q], f)) = Range(senders[q]) \cup {f}
    BY <2>3, AppendOf
  <2>5. httpd'.at = "idle"
    BY <2>1, Ported
  <2> QED BY <1>0, <2>1, <2>2, <2>4, <2>5 DEF f
<1> QED BY <1>1, <1>2 DEF lists

\* Who listens to a port has it, unless he is being removed.
LEMMA ListensHome ==
  ASSUME TypeOK, HomeInv, SendInv, NEW f \in Fd, NEW p \in Port, Listens(f, p)
  PROVE  f \in Range(senders[p]) /\ (Removing(f) \/ conn[f] = p)
<1>1. f \in Range(senders[p])
  BY DEF Listens, Held, SendInv
<1> QED BY <1>1 DEF HomeInv

LEMMA GotKept ==
  ASSUME TypeOK, HomeInv, SendInv, RingInv, GotInv, [Next]_vars
  PROVE  GotInv'
<1> SUFFICES ASSUME NEW f \in Fd
             PROVE  Gapless(f)'
  BY DEF GotInv
<1>0. /\ Gapless(f) /\ Here \in Port /\ ws_send \in Sender
      /\ ws_send.data \in Seq(Byte) /\ ws_send.todo \in Seq(Fd) /\ ws_send.keep \in Seq(Fd)
      /\ hist \in Hist /\ hist.got[f] \in Seq(Byte)
      /\ \A p \in Port : senders[p] \in Seq(Fd)
  BY HereIs DEF GotInv, TypeOK, Sender, Hist
<1>1. ASSUME UNCHANGED <<conn, httpd, heard, hist.lost, hist.got>>,
             \A p \in Port : Listens(f, p)' => Listens(f, p) /\ Coming(f, p)' = Coming(f, p)
      PROVE  Gapless(f)'
  <2>1. CASE hist.got[f] = <<>>
    BY <2>1, <1>1, GotNone
  <2>2. CASE hist.got[f] # <<>>
    <3>1. httpd'.at = "idle" \/ httpd'.fd # f
      BY <2>2, <1>0, <1>1 DEF Gapless
    <3>2. UNCHANGED <<heard, hist.lost, hist.got[f], conn[f]>>
      BY <1>1
    <3> QED BY <3>1, <3>2, <1>0, <1>1, GotSame
  <2> QED BY <2>1, <2>2
<1>2. ASSUME UNCHANGED <<ws_send, ring, senders, work>>
      PROVE  \A p \in Port : (Listens(f, p)' <=> Listens(f, p)) /\ Coming(f, p)' = Coming(f, p)
  BY <1>2 DEF Listens, Coming, Pending, Held, Here
<1>3. CASE lists
  <2>1. CASE f = httpd.fd
    <3>1. hist'.got[f] = <<>>
      BY <2>1, <1>0, <1>3, ListsOf DEF Gapless
    <3> QED BY <3>1, GotNone
  <2>2. CASE f # httpd.fd
    <3>1. /\ UNCHANGED <<heard, hist.lost, hist.got[f], conn[f]>>
          /\ httpd'.at = "idle" \/ httpd'.fd # f
          /\ UNCHANGED <<ring, ws_send, work>>
      BY <2>2, <1>3, ListsOf
    <3>2. ASSUME NEW p \in Port, Listens(f, p)'
          PROVE  Listens(f, p) /\ Coming(f, p)' = Coming(f, p)
      <4>1. Held(p)' <=> Held(p)
        BY <3>1 DEF Held, Here
      <4>2. Coming(f, p)' = Coming(f, p)
        BY <3>1 DEF Coming, Pending, Here
      <4>3. CASE Held(p)
        BY <4>1, <4>2, <4>3, <3>1, <3>2 DEF Listens
      <4>4. CASE ~Held(p)
        <5>1. f \in Range(senders'[p])
          BY <4>1, <4>4, <3>2 DEF Listens
        <5>2. f \in Range(senders[p])
          BY <5>1, <2>2, <1>3, ListsOf
        <5> QED BY <4>2, <4>4, <5>2 DEF Listens
      <4> QED BY <4>3, <4>4
    <3> QED BY <3>1, <3>2, <1>0, GotSame
  <2> QED BY <2>1, <2>2
<1>4. ASSUME NEW g \in Fd, Connect(g)
      PROVE  Gapless(f)'
  <2>1. /\ UNCHANGED <<senders, ring, httpd, ws_send, work, heard, hist>>
        /\ httpd.at = "idle" /\ conn[g] = "none" /\ conn' = [conn EXCEPT ![g] = "new"]
    BY <1>4 DEF Connect
  <2>2. CASE f = g
    <3>1. hist'.got[f] = <<>>
      BY <2>1, <2>2, <1>0, Ported DEF Gapless
    <3> QED BY <3>1, GotNone
  <2>3. CASE f # g
    <3>1. conn'[f] = conn[f]
      BY <2>1, <2>3 DEF TypeOK
    <3> QED BY <2>1, <3>1, <1>0, <1>2, GotSame
  <2> QED BY <2>2, <2>3
<1>5. ASSUME NEW g \in Fd, handle_closed(g) \/ \E p \in Port : handle_text(g, p)
      PROVE  Gapless(f)'
  <2> DEFINE got == [hist.got EXCEPT ![g] = <<>>]
  <2>1. /\ UNCHANGED <<senders, ring, ws_send, work, heard>>
        /\ httpd'.fd = g
        /\ \E v : conn' = [conn EXCEPT ![g] = v]
        /\ hist' = [hist EXCEPT !.got = got]
    BY <1>5 DEF handle_closed, handle_text
  <2>2. got[g] = <<>> /\ \A k \in Fd : k # g => got[k] = hist.got[k]
    BY <1>0 DEF Hist
  <2> HIDE DEF got
  <2>3. hist'.got = got /\ hist'.lost = hist.lost
    BY <2>1, <1>0 DEF Hist
  <2>4. CASE f = g
    <3>1. hist'.got[f] = <<>>
      BY <2>2, <2>3, <2>4
    <3> QED BY <3>1, GotNone
  <2>5. CASE f # g
    <3>1. conn'[f] = conn[f]
      BY <2>1, <2>5 DEF TypeOK
    <3>2. hist'.got[f] = hist.got[f]
      BY <2>2, <2>3, <2>5
    <3> QED BY <2>1, <2>3, <2>5, <3>1, <3>2, <1>0, <1>2, GotSame
  <2> QED BY <2>4, <2>5
<1>6. ASSUME (\E g \in Fd : handle_binary(g)) \/ UNCHANGED vars
      PROVE  Gapless(f)'
  <2>1. UNCHANGED <<conn, httpd, senders, ring, ws_send, work, heard, hist>>
    BY <1>6 DEF handle_binary, vars
  <2> QED BY <2>1, <1>1, <1>2
<1>7. ASSUME NEW p \in Port, ws_enqueue(p)
      PROVE  Gapless(f)'
  <2> DEFINE b == <<p, heard[p] + 1>>
             R == Range(ring[p])
             S == Range(ring'[p])
             G == Range(hist.got[f])
             h == heard[p]
             L == hist.lost
             M == hist'.lost
             c0 == conn[f]
  <2>1. /\ heard'[p] = h + 1
        /\ \A q \in Port : q # p => heard'[q] = heard[q] /\ ring'[q] = ring[q]
        /\ UNCHANGED <<conn, senders, httpd, ws_send, work, hist.got>>
        /\ S \subseteq R \cup {b} /\ R \cup L \cup {b} \subseteq S \cup M
        /\ L \subseteq M
    BY <1>7, RingOf
  <2>2. CASE hist.got[f] = <<>>
    BY <2>1, <2>2, GotNone
  <2>3. CASE hist.got[f] # <<>>
    <3>1. /\ c0 \in Port /\ (httpd.at = "idle" \/ httpd.fd # f)
          /\ Sorted(c0, hist.got[f])
          /\ \A c \in G : c[2] <= heard[c0] /\ Whole(c0, G, c[2], G \cup L)
      BY <2>3, <1>0 DEF Gapless
    <3>2. /\ \A c \in G : c[2] \in Nat
          /\ \A q \in Port : heard[q] \in Nat
      BY <3>1, <1>0, BytesOf DEF TypeOK
    <3>3. \A q \in Port : heard[q] <= heard'[q] /\ heard'[q] \in Nat
      <4>1. heard[p] <= heard'[p] /\ heard'[p] \in Nat
        BY <2>1, <3>2
      <4> QED BY <4>1, <2>1, <3>2
    <3>4. ASSUME NEW c \in G
          PROVE  c[2] <= heard'[c0] /\ Whole(c0, G, c[2], G \cup M)
      <4>1. c[2] <= heard'[c0]
        BY <3>1, <3>2, <3>3
      <4>2. Whole(c0, G, c[2], G \cup M)
        BY <3>1, <2>1 DEF Whole
      <4> QED BY <4>1, <4>2
    <3>5. \A q \in Port : Listens(f, q)' <=> Listens(f, q)
      BY <2>1 DEF Listens, Held, Here
    <3>6. PICK X : /\ Coming(f, p) = R \cup X
                   /\ Coming(f, p)' = S \cup X
      BY <2>1 DEF Coming, Pending, Here
    <3>7. \A q \in Port : q # p => Coming(f, q)' = Coming(f, q)
      BY <2>1 DEF Coming, Pending, Here
    <3>8. ASSUME NEW q \in Port, Listens(f, q)
          PROVE  /\ Before(G, Coming(f, q)')
                 /\ Whole(q, G, heard'[q], G \cup Coming(f, q)' \cup M)
      <4>1. /\ Before(G, Coming(f, q)) /\ Whole(q, G, heard[q], G \cup Coming(f, q) \cup L)
        BY <3>8, <1>0 DEF Gapless
      <4>2. CASE q # p
        <5>1. Coming(f, q)' = Coming(f, q) /\ heard'[q] = heard[q]
          BY <4>2, <3>7, <2>1
        <5>2. Whole(q, G, heard[q], G \cup Coming(f, q) \cup M)
          BY <4>1, <2>1 DEF Whole
        <5> QED BY <5>1, <5>2, <4>1
      <4>3. CASE q = p
        <5>1. c0 = p
          BY <4>3, <3>8, <3>1, ListensHome DEF Removing
        <5>2. b = <<p, h + 1>> /\ b[2] = h + 1 /\ h \in Nat
          BY <3>2
        <5>3. \A c \in G : c[2] <= h
          BY <5>1, <3>1
        <5> HIDE DEF b, R, S, G, h, L, M, c0
        <5>4. Before(G, R \cup X) /\ Whole(p, G, h, G \cup R \cup X \cup L)
          <6>1. G \cup (R \cup X) \cup L = G \cup R \cup X \cup L
            OBVIOUS
          <6> QED BY <4>1, <4>3, <3>6, <6>1 DEF h
        <5>5. Before(G, S \cup X)
          <6>1. \A c \in G : c[2] < b[2]
            BY <5>2, <5>3, <3>2 DEF G
          <6>2. S \cup X \subseteq (R \cup X) \cup {b}
            BY <2>1
          <6> QED BY <5>4, <6>1, <6>2 DEF Before
        <5>6. Whole(p, G, h + 1, G \cup S \cup X \cup M)
          <6>1. /\ G \cup R \cup X \cup L \subseteq G \cup S \cup X \cup M
                /\ <<p, h + 1>> \in G \cup S \cup X \cup M
            BY <2>1, <5>2
          <6>2. \A c \in G : c[2] \in Nat
            BY <3>2 DEF G
          <6> QED BY <5>2, <5>4, <6>1, <6>2, WholeMore
        <5>7. G \cup (S \cup X) \cup M = G \cup S \cup X \cup M
          OBVIOUS
        <5> QED BY <4>3, <5>5, <5>6, <5>7, <3>6, <2>1
      <4> QED BY <4>2, <4>3
    <3> QED BY <2>1, <3>1, <3>4, <3>5, <3>8 DEF Gapless
  <2> QED BY <2>2, <2>3
<1>8. CASE do_work
  <2> DEFINE g == Head(ws_send.todo)
             got == [hist.got EXCEPT ![g] = @ \o ws_send.data]
             G == Range(hist.got[f])
             R == Range(ring[Here])
             D == Range(ws_send.data)
             h == heard[Here]
             L == hist.lost
  <2>1. /\ httpd.at = "idle" /\ work = "queued"
        /\ UNCHANGED <<conn, senders, ring, httpd, ws_send, heard>>
        /\ \/ work' = "sent" /\ hist' = [hist EXCEPT !.got = got]
           \/ work' = "failed" /\ hist' = hist
    BY <1>8 DEF do_work
  <2>2. ws_send.at = "wait" /\ ws_send.todo # <<>>
    BY <2>1 DEF SendInv
  <2>3. g \in Range(ws_send.todo) /\ g \in Fd
    <3>1. g \in Fd /\ Range(ws_send.todo) = Range(Tail(ws_send.todo)) \cup {g}
      BY <2>2, <1>0, HeadTailOf
    <3> QED BY <3>1
  <2>4. /\ \A p \in Port : (Listens(f, p)' <=> Listens(f, p))
        /\ Here' = Here
    BY <2>1 DEF Listens, Held, Here
  <2>5. CASE work' = "failed" /\ hist' = hist
    <3>1. \A p \in Port : Coming(f, p)' = Coming(f, p)
      BY <2>1, <2>4, <2>5 DEF Coming, Pending
    <3> QED BY <2>1, <2>4, <2>5, <3>1, <1>1
  <2>6. CASE work' = "sent" /\ hist' = [hist EXCEPT !.got = got]
    <3>1. /\ got[g] = hist.got[g] \o ws_send.data
          /\ \A k \in Fd : k # g => got[k] = hist.got[k]
      BY <2>3, <1>0 DEF Hist
    <3>2. hist'.got = got /\ hist'.lost = hist.lost
      <4> HIDE DEF got
      <4> QED BY <2>6, <1>0 DEF Hist
    <3> HIDE DEF got
    <3>3. CASE f # g
      <4>1. \A p \in Port : Coming(f, p)' = Coming(f, p)
        BY <2>1, <2>4, <2>6, <3>3 DEF Coming, Pending
      <4>2. /\ UNCHANGED <<heard, hist.lost, hist.got[f], conn[f]>>
            /\ httpd'.at = "idle"
        BY <2>1, <3>1, <3>2, <3>3
      <4> QED BY <2>4, <4>1, <4>2, <1>0, GotSame
    <3>4. CASE f = g
      <4>1. /\ f \in Range(senders[Here]) /\ conn[f] = Here /\ Listens(f, Here)
            /\ \A p \in Port : Listens(f, p) => p = Here
        <5>1. ~Removing(f)
          BY <2>1 DEF Removing
        <5>2. Listens(f, Here)
          BY <2>2, <2>3, <3>4 DEF Listens, Held
        <5> QED BY <5>1, <5>2, <1>0, ListensHome
      <4>2. Coming(f, Here) = R \cup D /\ Coming(f, Here)' = R
        <5>1. Pending(f, Here)
          BY <2>1, <2>2, <2>3, <3>4 DEF Pending
        <5>2. ~Pending(f, Here)'
          BY <2>1, <2>2, <2>4, <2>6, <3>4 DEF Pending
        <5>3. Coming(f, Here)' = Range(ring'[Here]) \cup
                                   IF Pending(f, Here)' THEN Range(ws_send'.data) ELSE {}
          BY <2>4 DEF Coming
        <5> QED BY <5>1, <5>2, <5>3, <2>1 DEF Coming
      <4>3. /\ Sorted(Here, hist.got[f])
            /\ \A c \in G : c[2] <= h /\ Whole(Here, G, c[2], G \cup L)
            /\ Before(G, R \cup D) /\ Whole(Here, G, h, G \cup (R \cup D) \cup L)
        BY <4>1, <4>2, <1>0 DEF Gapless
      <4>4. /\ Sorted(Here, ws_send.data) /\ Before(D, R) /\ \A b \in D : b[2] <= h
            /\ Whole(Here, D, h, D \cup R \cup L)
        BY DEF RingInv
      <4>5. /\ \A b \in G \cup D \cup R : b[2] \in Nat
            /\ h \in Nat
        <5>1. ring[Here] \in Seq(Byte) /\ Sorted(Here, ring[Here]) /\ h \in Nat
          BY <1>0 DEF TypeOK, RingInv
        <5> QED BY <5>1, <4>3, <4>4, <1>0, BytesOf
      <4>6. /\ Sorted(Here, hist'.got[f]) /\ Range(hist'.got[f]) = G \cup D
        <5>1. Before(G, D)
          BY <4>3 DEF Before
        <5>2. hist'.got[f] = hist.got[f] \o ws_send.data
          BY <3>1, <3>2, <3>4
        <5> QED BY <5>1, <5>2, <4>3, <4>4, <1>0, SortedConcat
      <4> DEFINE r == ring[Here]
      <4>7. \A n \in Nat : <<Here, n>>[2] = n
        OBVIOUS
      <4> HIDE DEF G, R, D, h, L
      <4>8. \A c \in G \cup D : c[2] <= h
        BY <4>3, <4>4
      <4>9. Before(G \cup D, R)
        BY <4>3, <4>4 DEF Before
      <4>10. Whole(Here, G \cup D, h, (G \cup D) \cup R \cup L)
        BY <4>3, <4>4 DEF Whole
      <4>11. ASSUME NEW c \in G \cup D
             PROVE  Whole(Here, G \cup D, c[2], (G \cup D) \cup L)
        <5> SUFFICES ASSUME NEW b \in G \cup D, NEW n \in b[2] .. c[2]
                     PROVE  <<Here, n>> \in (G \cup D) \cup L
          BY DEF Whole
        <5>1. n \in Nat /\ n <= c[2] /\ n \in b[2] .. h
          BY <4>5, <4>8
        <5>2. <<Here, n>> \in (G \cup D) \cup R \cup L
          BY <5>1, <4>10 DEF Whole
        <5>3. <<Here, n>> \notin R
          <6>1. ASSUME <<Here, n>> \in R
                PROVE  FALSE
            <7>1. c[2] < <<Here, n>>[2]
              BY <6>1, <4>9 DEF Before
            <7> QED BY <7>1, <4>5, <4>7, <5>1
          <6> QED BY <6>1
        <5> QED BY <5>2, <5>3
      <4>12. heard'[Here] = h /\ conn'[f] = Here /\ hist'.lost = L
        BY <2>1, <3>2, <4>1 DEF h, L
      <4>13. \A p \in Port : Listens(f, p)' => p = Here
        BY <2>4, <4>1
      <4>14. httpd'.at = "idle"
        BY <2>1
      <4>15. ASSUME NEW p \in Port, Listens(f, p)'
             PROVE  /\ Before(G \cup D, Coming(f, p)')
                    /\ Whole(p, G \cup D, heard'[p], (G \cup D) \cup Coming(f, p)' \cup hist'.lost)
        <5>1. p = Here /\ p = Here' /\ heard'[p] = h
          BY <2>4, <4>12, <4>13, <4>15
        <5>2. Coming(f, p)' = R
          BY <4>2, <5>1
        <5> QED BY <5>1, <5>2, <4>9, <4>10, <4>12
      <4>16. \A c \in G \cup D : /\ c[2] <= heard'[conn'[f]]
                                /\ Whole(conn'[f], G \cup D, c[2], (G \cup D) \cup hist'.lost)
        BY <4>8, <4>11, <4>12
      <4> QED BY <1>0, <4>6, <4>12, <4>14, <4>15, <4>16 DEF Gapless
    <3> QED BY <3>3, <3>4
  <2> QED BY <2>1, <2>5, <2>6
<1>9. CASE drain_lock \/ drain_tx_lock \/ ws_drain_tx
  <2>1. /\ UNCHANGED <<conn, senders, ring, httpd, work, heard, hist.lost, hist.got>>
        /\ ws_send.at \notin {"lock", "send", "wait"}
        /\ ws_send'.at \notin {"lock", "send", "wait"}
    BY <1>9, PassOf
  <2>2. \A p \in Port : Listens(f, p)' => Listens(f, p) /\ Coming(f, p)' = Coming(f, p)
    BY <2>1, Unheard
  <2> QED BY <2>1, <2>2, <1>1
<1>10. CASE drain
  <2>1. /\ UNCHANGED <<conn, httpd, heard, hist, senders>> /\ Here' = Here
        /\ ws_send.at = "draining" /\ ws_send'.at = "lock" /\ ws_send'.data = ring[Here]
        /\ ring'[Here] = <<>> /\ \A p \in Port : p # Here => ring'[p] = ring[p]
    BY <1>10, ThreadOf
  <2>2. Range(<<>>) = {}
    BY SortedEmpty
  <2>3. \A p \in Port : Listens(f, p)' <=> Listens(f, p)
    BY <2>1 DEF Listens, Held
  <2>4. ASSUME NEW p \in Port
        PROVE  Coming(f, p)' = Coming(f, p)
    <3>1. Coming(f, p) = Range(ring[p])
      BY <2>1 DEF Coming, Pending
    <3>2. CASE p = Here
      <4>1. Pending(f, p)'
        BY <2>1, <3>2 DEF Pending
      <4>2. Coming(f, p)' = Range(ring'[p]) \cup Range(ws_send'.data)
        BY <4>1 DEF Coming
      <4> QED BY <2>1, <2>2, <3>1, <3>2, <4>2
    <3>3. CASE p # Here
      <4>1. ~Pending(f, p)'
        BY <2>1, <3>3 DEF Pending
      <4>2. Coming(f, p)' = Range(ring'[p])
        BY <4>1 DEF Coming
      <4> QED BY <2>1, <3>1, <3>3, <4>2
    <3> QED BY <3>2, <3>3
  <2> QED BY <2>1, <2>3, <2>4, <1>1
<1>11. CASE lock_list
  <2>1. /\ UNCHANGED <<conn, httpd, heard, hist, ring, senders, work>> /\ Here' = Here
        /\ ws_send.at = "lock" /\ ws_send'.at = "send" /\ ws_send'.data = ws_send.data
        /\ ws_send'.todo = senders[Here] /\ ws_send'.keep = ws_send.keep
    BY <1>11, ThreadOf
  <2>2. ws_send.keep = <<>> /\ Range(<<>>) = {} /\ work = "none"
    BY <2>1, SortedEmpty DEF SendInv
  <2>3. \A p \in Port : Listens(f, p)' <=> Listens(f, p)
    BY <2>1, <2>2 DEF Listens, Held
  <2>4. ASSUME NEW p \in Port, Listens(f, p)
        PROVE  Coming(f, p)' = Coming(f, p)
    <3>1. Pending(f, p)' <=> Pending(f, p)
      <4>1. p = Here => f \in Range(ws_send'.todo)
        BY <2>1, <2>4 DEF Listens, Held
      <4> QED BY <2>1, <2>2, <4>1 DEF Pending
    <3> QED BY <2>1, <3>1 DEF Coming
  <2> QED BY <2>1, <2>3, <2>4, <1>1
<1>12. CASE try_sender \/ sent
  <2> DEFINE todo == ws_send.todo
             keep == ws_send.keep
             g == Head(todo)
  <2>1. /\ UNCHANGED <<conn, httpd, heard, hist, ring, senders>> /\ Here' = Here
        /\ ws_send.at \in {"send", "wait"} /\ ws_send'.at \in {"send", "wait"}
        /\ ws_send'.data = ws_send.data
    BY <1>12, ThreadOf
  <2>2. /\ todo # <<>> /\ IsInjective(todo) /\ Range(todo) \cap Range(keep) = {}
        /\ (work # "none") <=> (ws_send.at = "wait")
    BY <1>12, ThreadOf DEF SendInv
  <2>3. /\ Range(todo) = Range(Tail(todo)) \cup {g} /\ g \notin Range(Tail(todo))
        /\ g \in Fd
    BY <2>2, <1>0, HeadTailOf
  <2>4. Range(Append(keep, g)) = Range(keep) \cup {g}
    <3> HIDE DEF g
    <3> QED BY <2>3, <1>0, AppendOf
  <2>5. ASSUME NEW p \in Port, p # Here
        PROVE  (Listens(f, p)' <=> Listens(f, p)) /\ Coming(f, p)' = Coming(f, p)
    BY <2>1, <2>5 DEF Listens, Held, Coming, Pending
  <2>6. Held(Here) /\ Held(Here)' /\ ws_send'.at # "lock" /\ ws_send.at # "lock"
    BY <2>1 DEF Held
  <2>7. Listens(f, Here) <=> f \in Range(todo) \cup Range(keep)
    BY <2>6 DEF Listens
  <2>8. Listens(f, Here)' <=> f \in Range(ws_send'.todo) \cup Range(ws_send'.keep)
    BY <2>1, <2>6 DEF Listens
  <2>9. Pending(f, Here) <=> f \in Range(todo) /\ ~(work = "sent" /\ f = g)
    BY <2>1, <2>6 DEF Pending
  <2>10. Pending(f, Here)' <=> /\ f \in Range(ws_send'.todo)
                               /\ ~(work' = "sent" /\ f = Head(ws_send'.todo))
    BY <2>1, <2>6 DEF Pending
  <2>11. ASSUME Listens(f, Here)' => Listens(f, Here) /\ (Pending(f, Here)' <=> Pending(f, Here))
         PROVE  Gapless(f)'
    <3>1. \A p \in Port : Listens(f, p)' => Listens(f, p) /\ Coming(f, p)' = Coming(f, p)
      <4>1. Listens(f, Here)' => Coming(f, Here)' = Coming(f, Here)
        BY <2>1, <2>11 DEF Coming
      <4> QED BY <2>5, <2>11, <4>1, <2>1
    <3> QED BY <2>1, <3>1, <1>1
  <2> HIDE DEF g, todo, keep
  <2>12. CASE try_sender
    <3>1. /\ ws_send.at = "send" /\ ws_send'.keep = keep
          /\ \/ ws_send'.todo = Tail(todo) /\ work' = work
             \/ ws_send'.todo = todo /\ work' = "queued"
      BY <2>12, ThreadOf DEF todo, keep
    <3> QED BY <3>1, <2>2, <2>3, <2>7, <2>8, <2>9, <2>10, <2>11
  <2>13. CASE sent
    <3>1. /\ work \in {"sent", "failed"} /\ work' = "none" /\ ws_send'.todo = Tail(todo)
          /\ ws_send'.keep = IF work = "sent" THEN Append(keep, g) ELSE keep
      BY <2>13, ThreadOf DEF todo, keep, g
    <3> QED BY <3>1, <2>2, <2>3, <2>4, <2>7, <2>8, <2>9, <2>10, <2>11
  <2> QED BY <1>12, <2>12, <2>13
<1>13. CASE unlock_list
  <2>1. /\ UNCHANGED <<conn, httpd, heard, hist, ring>>
        /\ ws_send.at = "send" /\ ws_send.todo = <<>> /\ ws_send'.at \in {"drain", "tx"}
        /\ senders'[Here] = ws_send.keep
        /\ \A p \in Port : p # Here => senders'[p] = senders[p]
    BY <1>13, ThreadOf
  <2>2. Range(<<>>) = {}
    BY SortedEmpty
  <2>3. \A p \in Port : Listens(f, p)' <=> Listens(f, p)
    BY <2>1, <2>2 DEF Listens, Held
  <2>4. \A p \in Port : Coming(f, p)' = Coming(f, p)
    BY <2>1, <2>2 DEF Coming, Pending
  <2> QED BY <2>1, <2>3, <2>4, <1>1
<1> QED BY <1>3, <1>4, <1>5, <1>6, <1>7, <1>8, <1>9, <1>10, <1>11, <1>12, <1>13
        DEF Next, frame, thread
-------------------------------------------------------------------------------
(* Theorems.                                                               *)

LEMMA InitInv == Init => WsInv
<1> SUFFICES ASSUME Init
             PROVE  WsInv
  OBVIOUS
<1>0. Len(Ports) \in Nat \ {0} /\ Idle \in Httpd /\ Idle.at = "idle"
  BY Ported
<1>1. /\ \A p : Sorted(p, <<>>)
      /\ Range(<<>>) = {} /\ IsInjective(<<>>) /\ Len(<<>>) = 0
  BY SortedEmpty DEF IsInjective
<1>2. ws_send \in Sender
  BY <1>0 DEF Init, Sender
<1>3. TypeOK
  <2>1. hist \in Hist
    BY DEF Init, Hist
  <2>2. /\ ring \in [Port -> Seq(Byte)] /\ \A p \in Port : ring[p] = <<>>
        /\ tx \in [Port -> Seq(Key)] /\ \A p \in Port : tx[p] = <<>>
    BY DEF Init
  <2>3. 0 <= WS_RING_CAP /\ 0 \in 0 .. MaxTyped
    BY WsAssumption DEF WsAssumption
  <2>4. \A p \in Port : Len(ring[p]) <= WS_RING_CAP /\ Len(tx[p]) <= WS_RING_CAP
    BY <2>2, <2>3, <1>1
  <2> QED BY <2>1, <2>2, <2>3, <2>4, <1>0, <1>2 DEF Init, TypeOK
<1>4. HomeInv
  BY <1>0, <1>1 DEF Init, HomeInv, Removing
<1>5. SendInv
  BY <1>1 DEF Init, SendInv
<1>6. KeysInv
  BY DEF Init, KeysInv, KeysOf, KeysBefore
<1>7. RingInv
  <2>1. Here \in Port
    BY <1>2, HereIs
  <2> QED BY <2>1, <1>1 DEF Init, RingInv, Before, Whole
<1>8. GotInv
  BY <1>1 DEF Init, GotInv, Gapless, Before, Whole
<1> QED BY <1>3, <1>4, <1>5, <1>6, <1>7, <1>8 DEF WsInv

LEMMA StepInv == WsInv /\ [Next]_vars => WsInv'
<1> SUFFICES ASSUME TypeOK, HomeInv, SendInv, KeysInv, RingInv, GotInv, [Next]_vars
             PROVE  WsInv'
  BY DEF WsInv
<1>1. TypeOK'
  BY TypeKept
<1>2. HomeInv'
  BY HomeKept
<1>3. SendInv'
  BY <1>1, SendKept
<1>4. KeysInv'
  BY <1>1, KeysKept
<1>5. RingInv'
  BY <1>3, RingKept
<1>6. GotInv'
  BY GotKept
<1> QED BY <1>1, <1>2, <1>3, <1>4, <1>5, <1>6 DEF WsInv

\* In every reachable state a list has a connection once and for its own port
\* (HomeInv), the keys are queued and written in order (KeysInv), and a byte
\* heard is in a ring, in ws_send's hands, at the terminal, or lost (RingInv,
\* GotInv): what ws_handler, ws_enqueue and ws_send keep between them.
THEOREM WsInvariant == Spec => []WsInv
<1>1. Init => WsInv
  BY InitInv
<1>2. WsInv /\ [Next]_vars => WsInv'
  BY StepInv
<1> QED BY <1>1, <1>2, PTL DEF Spec

\* Between two frames a terminal is in one list at most, once, and it is the
\* list of the port that ws_handler's map has for it.
THEOREM OneHomeEver == Spec => []OneHome
<1>1. WsInv => OneHome
  <2> SUFFICES ASSUME WsInv, httpd.at = "idle",
                      NEW f \in Fd, NEW p \in Port, f \in Range(senders[p])
               PROVE  /\ fd_port[f] = p /\ conn[f] = p
                      /\ \A q \in Port :
                           Cardinality({i \in DOMAIN senders[q] : senders[q][i] = f})
                             = (IF q = p THEN 1 ELSE 0)
    BY DEF OneHome
  <2>1. \A q \in Port : /\ IsInjective(senders[q])
                        /\ f \in Range(senders[q]) => conn[f] = q /\ fd_port[f] = q
    BY DEF WsInv, HomeInv, Removing
  <2> SUFFICES ASSUME NEW q \in Port
               PROVE  Cardinality({i \in DOMAIN senders[q] : senders[q][i] = f})
                        = (IF q = p THEN 1 ELSE 0)
    BY <2>1
  <2> DEFINE at == {i \in DOMAIN senders[q] : senders[q][i] = f}
  <2>2. CASE q = p
    <3>1. PICK i \in DOMAIN senders[q] : senders[q][i] = f
      BY <2>2 DEF Range
    <3>2. at = {i}
      BY <2>1, <3>1 DEF IsInjective
    <3> QED BY <2>2, <3>2, FS_Singleton
  <2>3. CASE q # p
    <3>1. at = {}
      BY <2>1, <2>3 DEF Range
    <3> QED BY <2>3, <3>1, FS_EmptySet
  <2> QED BY <2>2, <2>3
<1> QED BY <1>1, WsInvariant, PTL

\* A terminal receives bytes of its port, in order, none twice, and between
\* two of them it received nothing is missing but what a ring dropped.
THEOREM BytesStayInOrder == Spec => []BytesInOrder
<1>1. WsInv => BytesInOrder
  <2> SUFFICES ASSUME WsInv, NEW f \in Fd, conn[f] \in Port, httpd.at = "idle"
               PROVE  LET got == hist.got[f] IN
                      /\ \A i \in DOMAIN got : got[i][1] = conn[f]
                      /\ \A i \in 1 .. Len(got) - 1 :
                           /\ got[i][2] < got[i + 1][2]
                           /\ \A n \in got[i][2] + 1 .. got[i + 1][2] - 1 :
                                <<conn[f], n>> \in hist.lost
    BY DEF BytesInOrder
  <2> DEFINE got == hist.got[f]
             G == Range(got)
             p == conn[f]
             l == Len(got)
  <2>1. /\ Sorted(p, got) /\ got \in Seq(Byte)
        /\ \A c \in G : Whole(p, G, c[2], G \cup hist.lost)
    BY DEF WsInv, GotInv, Gapless, TypeOK, Hist
  <2>2. /\ l \in Nat /\ DOMAIN got = 1 .. l
        /\ \A b \in G : b[2] \in Nat
    BY <2>1, BytesOf, LenProperties
  <2> HIDE DEF got, p, l
  <2>3. ASSUME NEW i \in 1 .. l - 1
        PROVE  /\ got[i][2] < got[i + 1][2]
               /\ \A n \in got[i][2] + 1 .. got[i + 1][2] - 1 : <<p, n>> \in hist.lost
    <3>1. i \in DOMAIN got /\ i + 1 \in DOMAIN got /\ i < i + 1 /\ i \in Nat
      BY <2>2
    <3>2. got[i][2] < got[i + 1][2] /\ got[i] \in G /\ got[i + 1] \in G
      BY <2>1, <3>1 DEF Sorted, Range
    <3>3. ASSUME NEW n \in got[i][2] + 1 .. got[i + 1][2] - 1
          PROVE  <<p, n>> \in hist.lost
      <4> DEFINE b == <<p, n>>
      <4>1. /\ got[i][2] \in Nat /\ got[i + 1][2] \in Nat
            /\ n \in Nat /\ got[i][2] < n /\ n < got[i + 1][2]
        BY <2>2, <3>2
      <4>2. n \in got[i][2] .. got[i + 1][2]
        BY <4>1
      <4>3. b \in G \cup hist.lost
        BY <2>1, <3>2, <4>2 DEF Whole
      <4>4. b[2] = n
        OBVIOUS
      <4> HIDE DEF b
      <4>5. b \notin G
        <5>1. ASSUME NEW j \in DOMAIN got, got[j] = b
              PROVE  FALSE
          <6>1. j \in Nat /\ (j < i \/ j = i \/ j = i + 1 \/ i + 1 < j)
            BY <2>2, <3>1
          <6>2. /\ j < i => got[j][2] < got[i][2]
                /\ i + 1 < j => got[i + 1][2] < got[j][2]
            BY <2>1, <3>1 DEF Sorted
          <6>3. got[j][2] = n
            BY <4>4, <5>1
          <6> QED BY <4>1, <6>1, <6>2, <6>3
        <5> QED BY <5>1 DEF Range
      <4> QED BY <4>3, <4>5 DEF b
    <3> QED BY <3>2, <3>3
  <2>4. \A i \in DOMAIN got : got[i][1] = p
    BY <2>1 DEF Sorted
  <2> QED BY <2>3, <2>4 DEF got, p, l
<1> QED BY <1>1, WsInvariant, PTL

\* A device receives the keys of its own terminals only, and each key once.
THEOREM KeysOnceEver == Spec => []KeysOnce
<1>1. WsInv => KeysOnce
  <2> SUFFICES ASSUME WsInv, NEW p \in Port
               PROVE  LET keys == hist.written[p] IN
                      /\ \A i \in DOMAIN keys : keys[i].port = p
                      /\ \A i, j \in DOMAIN keys : i # j => keys[i].n # keys[j].n
    BY DEF KeysOnce
  <2> DEFINE keys == hist.written[p]
  <2>1. KeysOf(p, keys, typed) /\ keys \in Seq(Key)
    BY DEF WsInv, KeysInv, TypeOK, Hist
  <2> HIDE DEF keys
  <2>2. \A i \in DOMAIN keys : i \in Nat /\ keys[i].n \in Nat
    <3>1. \A i \in DOMAIN keys : i \in Nat /\ keys[i] \in Key
      BY <2>1, LenProperties, ElementOfSeq
    <3>2. \A k \in Key : k.n \in Nat
      BY WsAssumption DEF WsAssumption, Key
    <3> QED BY <3>1, <3>2
  <2>3. ASSUME NEW i \in DOMAIN keys, NEW j \in DOMAIN keys, i # j
        PROVE  keys[i].n # keys[j].n
    <3>1. i < j \/ j < i
      BY <2>2, <2>3
    <3>2. keys[i].n < keys[j].n \/ keys[j].n < keys[i].n
      BY <2>1, <3>1 DEF KeysOf
    <3> QED BY <2>2, <3>2
  <2> QED BY <2>1, <2>3 DEF KeysOf, keys
<1> QED BY <1>1, WsInvariant, PTL
===============================================================================
