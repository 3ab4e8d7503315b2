----------------------------- MODULE UsbHost_proofs -----------------------------
(* Theorems about UsbHost for any devices, number of ports and writers.    *)
EXTENDS UsbHost, SequenceTheorems, FiniteSetTheorems, WellFoundedInduction, TLAPS

-------------------------------------------------------------------------------
(* The walk over a descriptor of any length finds the pairs of endpoints.  *)

\* A set with 0 and the successor of each of its numbers has all numbers.
LEMMA NatSetInduction ==
  ASSUME NEW S, 0 \in S, \A n \in Nat : n \in S => n + 1 \in S
  PROVE  Nat \subseteq S
<1> DEFINE T    == Nat \ S
           Less == {ss \in Nat \X Nat : ss[1] < ss[2]}
<1>1. SUFFICES ASSUME T # {} PROVE FALSE
  OBVIOUS
<1>2. IsWellFoundedOn(Less, Nat)
  BY NatLessThanWellFounded DEF OpToRel
<1>3. PICK x \in T : \A y \in T : <<y, x>> \notin Less
  <2> HIDE DEF Less
  <2> QED BY <1>1, <1>2, WFMin
<1>4. x # 0 /\ x - 1 \in T
  OBVIOUS
<1>5. <<x - 1, x>> \in Less
  BY <1>4
<1> QED BY <1>3, <1>4, <1>5

Pair == [intf : 0 .. 255, class : Class, ep_in : 0 .. 255, ep_out : 0 .. 255]
Walk == [intf : 0 .. 255, class : Class, ep_in : 0 .. 255, ep_out : 0 .. 255,
         seen : BOOLEAN, found : Seq(Pair)]

\* The interface at j is the last one of the first i items.
Current(items, i, j) ==
  /\ j \in 1 .. i /\ items[j].type = "interface"
  /\ \A n \in j + 1 .. i : items[n].type # "interface"

\* The endpoint kept of those between j and i: one of them, 0 if there is none.
Kept(items, j, i, kind, ep) ==
  IF ep = 0 THEN \A k \in j + 1 .. i : ~Kind(items[k], kind)
            ELSE \E k \in j + 1 .. i : Kind(items[k], kind) /\ items[k].num = ep

\* The pairs found are those of the interfaces before j, in their order.
Listing(items, j, at, found) ==
  /\ at \in Seq(Pairs(items)) /\ found \in Seq(Pair) /\ Len(at) = Len(found)
  /\ \A n \in 1 .. Len(at) : at[n] < j /\ PairOf(items, at[n], found[n])
  /\ \A m, n \in 1 .. Len(at) : m < n => at[m] < at[n]
  /\ \A q \in Pairs(items) : q < j => \E n \in 1 .. Len(at) : at[n] = q

\* The walk after i items, with interface j at hand and at before it.
Walking(items, i, w, j, at) ==
  /\ Current(items, i, j)
  /\ w.seen /\ w.intf = items[j].num /\ w.class = items[j].class
  /\ Kept(items, j, i, "bulk_in", w.ep_in) /\ Kept(items, j, i, "bulk_out", w.ep_out)
  /\ Listing(items, j, at, w.found)

LEMMA BeginsOf == WalkBegins \in Walk
<1>1. <<>> \in Seq(Pair)
  BY EmptySeq
<1> HIDE DEF Pair
<1> QED BY <1>1 DEF WalkBegins, Walk, Class

LEMMA WalkedOf ==
  ASSUME NEW w \in Walk, NEW item \in Item
  PROVE  /\ item.type = "interface" =>
              Walked(w, item) = [intf |-> item.num, class |-> item.class, ep_in |-> 0, ep_out |-> 0,
                                 seen |-> TRUE, found |-> IF w.seen THEN Flushed(w) ELSE w.found]
         /\ item.type # "interface" =>
              /\ Walked(w, item) \in Walk
              /\ Walked(w, item).seen = w.seen /\ Walked(w, item).intf = w.intf
              /\ Walked(w, item).class = w.class /\ Walked(w, item).found = w.found
              /\ Walked(w, item).ep_in =
                   IF w.ep_in = 0 /\ Kind(item, "bulk_in") THEN item.num ELSE w.ep_in
              /\ Walked(w, item).ep_out =
                   IF w.ep_out = 0 /\ Kind(item, "bulk_out") THEN item.num ELSE w.ep_out
<1>1. CASE item.type = "interface"
  BY <1>1 DEF Walked, Kind
<1>2. CASE item.type # "interface"
  <2> DEFINE in == Kind(item, "bulk_in") /\ w.ep_in = 0
             out == Kind(item, "bulk_out") /\ w.ep_out = 0
  <2>1. /\ Kind(item, "bulk_in") => ~Kind(item, "bulk_out")
        /\ item.num \in 0 .. 255
    BY DEF Kind, Item
  <2>2. CASE in
    <3>1. Walked(w, item) = [w EXCEPT !.ep_in = item.num]
      BY <1>2, <2>1, <2>2 DEF Walked
    <3>2. /\ Walked(w, item) \in Walk
          /\ Walked(w, item).seen = w.seen /\ Walked(w, item).intf = w.intf
          /\ Walked(w, item).class = w.class /\ Walked(w, item).found = w.found
          /\ Walked(w, item).ep_in = item.num /\ Walked(w, item).ep_out = w.ep_out
      BY <2>1, <3>1 DEF Walk
    <3> QED BY <1>2, <2>1, <2>2, <3>2
  <2>3. CASE out
    <3>1. Walked(w, item) = [w EXCEPT !.ep_out = item.num]
      BY <1>2, <2>1, <2>3 DEF Walked
    <3>2. /\ Walked(w, item) \in Walk
          /\ Walked(w, item).seen = w.seen /\ Walked(w, item).intf = w.intf
          /\ Walked(w, item).class = w.class /\ Walked(w, item).found = w.found
          /\ Walked(w, item).ep_out = item.num /\ Walked(w, item).ep_in = w.ep_in
      BY <2>1, <3>1 DEF Walk
    <3> QED BY <1>2, <2>1, <2>3, <3>2
  <2>4. CASE ~in /\ ~out
    <3>1. Walked(w, item) = w
      BY <1>2, <2>4 DEF Walked
    <3> QED BY <1>2, <2>4, <3>1
  <2> QED BY <2>2, <2>3, <2>4
<1> QED BY <1>1, <1>2

\* Where an interface ends its endpoints are those walked over.
LEMMA EndpointsOf ==
  ASSUME NEW items, Descriptor(items), NEW i \in 1 .. Len(items), NEW j, Current(items, i, j),
         i = Len(items) \/ items[i + 1].type = "interface", NEW kind
  PROVE  Endpoints(items, j, kind) = {items[k].num : k \in {n \in j + 1 .. i : Kind(items[n], kind)}}
<1>1. (\A x : x \in DOMAIN items <=> x \in 1 .. Len(items)) /\ Len(items) \in Nat
  BY DEF Descriptor
<1>2. ASSUME NEW k \in DOMAIN items, j < k, Kind(items[k], kind),
             \A n \in j + 1 .. k : items[n].type # "interface"
      PROVE  k \in j + 1 .. i
  <2>1. k \in 1 .. Len(items) /\ j \in 1 .. i
    BY <1>1 DEF Current
  <2>2. i < k => i + 1 \in j + 1 .. k /\ i # Len(items)
    BY <1>1, <2>1
  <2>3. ~(i < k)
    BY <1>2, <2>2
  <2> QED BY <1>1, <1>2, <2>1, <2>3
<1>3. ASSUME NEW k \in j + 1 .. i, Kind(items[k], kind)
      PROVE  /\ k \in DOMAIN items /\ j < k
             /\ \A n \in j + 1 .. k : items[n].type # "interface"
  <2>1. j \in 1 .. i /\ \A n \in j + 1 .. i : items[n].type # "interface"
    BY DEF Current
  <2>2. k \in 1 .. Len(items) /\ j < k /\ \A n \in j + 1 .. k : n \in j + 1 .. i
    BY <1>1, <2>1
  <2> QED BY <1>1, <2>1, <2>2
<1>4. {k \in DOMAIN items : /\ j < k /\ Kind(items[k], kind)
                            /\ \A n \in j + 1 .. k : items[n].type # "interface"}
      = {n \in j + 1 .. i : Kind(items[n], kind)}
  BY <1>2, <1>3
<1> QED BY <1>4 DEF Endpoints

LEMMA FlushedOf ==
  ASSUME NEW items, Descriptor(items), NEW i \in 1 .. Len(items), NEW w \in Walk, NEW j, NEW at,
         Walking(items, i, w, j, at), i = Len(items) \/ items[i + 1].type = "interface"
  PROVE  \E at2 : Listing(items, i + 1, at2, Flushed(w))
<1>1. (\A x : x \in DOMAIN items <=> x \in 1 .. Len(items)) /\ Len(items) \in Nat /\ j \in 1 .. i
  BY DEF Descriptor, Walking, Current
<1>2. \A kind : Endpoints(items, j, kind)
                = {items[k].num : k \in {n \in j + 1 .. i : Kind(items[n], kind)}}
  BY EndpointsOf DEF Walking
<1>3. ASSUME NEW kind, NEW ep \in 0 .. 255, Kept(items, j, i, kind, ep)
      PROVE  /\ ep = 0 => Endpoints(items, j, kind) = {}
             /\ ep # 0 => ep \in Endpoints(items, j, kind)
  BY <1>2, <1>3 DEF Kept
<1>4. /\ w.ep_in = 0 => Endpoints(items, j, "bulk_in") = {}
      /\ w.ep_in # 0 => w.ep_in \in Endpoints(items, j, "bulk_in")
      /\ w.ep_out = 0 => Endpoints(items, j, "bulk_out") = {}
      /\ w.ep_out # 0 => w.ep_out \in Endpoints(items, j, "bulk_out")
  BY <1>3, ZenonT(30) DEF Walking, Walk
<1>5. j \in Pairs(items) <=> w.ep_in # 0 /\ w.ep_out # 0
  <2>1. j \in DOMAIN items /\ items[j].type = "interface"
    BY <1>1 DEF Walking, Current
  <2> QED BY <1>4, <2>1 DEF Pairs
<1>6. ASSUME NEW q \in Pairs(items), q < i + 1
      PROVE  q = j \/ q < j
  <2>1. q \in 1 .. Len(items) /\ items[q].type = "interface"
    BY <1>1 DEF Pairs
  <2>2. q \notin j + 1 .. i
    BY <2>1 DEF Walking, Current
  <2> QED BY <1>1, <1>6, <2>1, <2>2
<1>7. Listing(items, j, at, w.found)
  BY DEF Walking
<1>8. CASE w.ep_in # 0 /\ w.ep_out # 0
  <2> DEFINE ep == [intf |-> w.intf, class |-> w.class, ep_in |-> w.ep_in, ep_out |-> w.ep_out]
             found2 == Append(w.found, ep)
             at2 == Append(at, j)
  <2>1. ep \in Pair /\ PairOf(items, j, ep) /\ Flushed(w) = found2
    BY <1>4, <1>8 DEF Pair, PairOf, Flushed, Walk, Walking
  <2> HIDE DEF ep
  <2>2. j \in Pairs(items) /\ at \in Seq(Pairs(items)) /\ w.found \in Seq(Pair)
        /\ Len(at) = Len(w.found)
    BY <1>5, <1>7, <1>8 DEF Listing
  <2>3. /\ at2 \in Seq(Pairs(items)) /\ Len(at2) = Len(at) + 1 /\ at2[Len(at) + 1] = j
        /\ \A n \in 1 .. Len(at) : at2[n] = at[n]
    BY <2>2, AppendProperties
  <2>4. /\ found2 \in Seq(Pair) /\ Len(found2) = Len(w.found) + 1 /\ found2[Len(w.found) + 1] = ep
        /\ \A n \in 1 .. Len(w.found) : found2[n] = w.found[n]
    BY <2>1, <2>2, AppendProperties
  <2> HIDE DEF at2, found2
  <2>5. ASSUME NEW n \in 1 .. Len(at2)
        PROVE  at2[n] < i + 1 /\ PairOf(items, at2[n], found2[n])
    <3>1. CASE n = Len(at) + 1
      <4>1. at2[n] = j /\ found2[n] = ep
        BY <2>2, <2>3, <2>4, <3>1
      <4> QED BY <1>1, <2>1, <4>1
    <3>2. CASE n # Len(at) + 1
      <4>1. n \in 1 .. Len(at)
        BY <2>2, <2>3, <3>2
      <4>2. at[n] < j /\ at[n] \in Pairs(items) /\ PairOf(items, at[n], w.found[n])
        BY <1>7, <4>1 DEF Listing
      <4>3. at2[n] = at[n] /\ found2[n] = w.found[n]
        BY <2>2, <2>3, <2>4, <4>1
      <4>4. at[n] < i + 1
        <5>1. at[n] \in 1 .. Len(items)
          BY <1>1, <4>2 DEF Pairs
        <5> QED BY <1>1, <4>2, <5>1
      <4> QED BY <4>2, <4>3, <4>4
    <3> QED BY <3>1, <3>2
  <2>6. ASSUME NEW m \in 1 .. Len(at2), NEW n \in 1 .. Len(at2), m < n
        PROVE  at2[m] < at2[n]
    <3>1. m \in 1 .. Len(at)
      BY <2>2, <2>3, <2>6
    <3>2. n = Len(at) + 1 \/ n \in 1 .. Len(at)
      BY <2>2, <2>3
    <3> QED BY <1>7, <2>3, <2>6, <3>1, <3>2 DEF Listing
  <2>7. ASSUME NEW q \in Pairs(items), q < i + 1
        PROVE  \E n \in 1 .. Len(at2) : at2[n] = q
    <3>1. CASE q = j
      BY <2>2, <2>3, <3>1
    <3>2. CASE q < j
      <4>1. PICK n \in 1 .. Len(at) : at[n] = q
        BY <1>7, <2>7, <3>2 DEF Listing
      <4>2. n \in 1 .. Len(at2) /\ at2[n] = q
        BY <2>2, <2>3, <4>1
      <4> QED BY <4>2
    <3> QED BY <1>6, <2>7, <3>1, <3>2
  <2>8. Listing(items, i + 1, at2, found2)
    BY <2>2, <2>3, <2>4, <2>5, <2>6, <2>7 DEF Listing
  <2> QED BY <2>1, <2>8
<1>9. CASE ~(w.ep_in # 0 /\ w.ep_out # 0)
  <2>1. Flushed(w) = w.found
    BY <1>9 DEF Flushed
  <2>2. \A q \in Pairs(items) : q < i + 1 => q < j
    BY <1>5, <1>6, <1>9
  <2>3. \A n \in 1 .. Len(at) : at[n] < i + 1
    <3> SUFFICES ASSUME NEW n \in 1 .. Len(at) PROVE at[n] < i + 1
      OBVIOUS
    <3>1. at[n] < j /\ at[n] \in Pairs(items)
      BY <1>7 DEF Listing
    <3>2. at[n] \in 1 .. Len(items)
      BY <1>1, <3>1 DEF Pairs
    <3> QED BY <1>1, <3>1, <3>2
  <2>4. Listing(items, i + 1, at, w.found)
    BY <1>7, <2>2, <2>3 DEF Listing
  <2> QED BY <2>1, <2>4
<1> QED BY <1>8, <1>9

LEMMA WalkingStep ==
  ASSUME NEW items, Descriptor(items), NEW i \in 1 .. Len(items) - 1, NEW w \in Walk, NEW j, NEW at,
         Walking(items, i, w, j, at)
  PROVE  /\ Walked(w, items[i + 1]) \in Walk
         /\ \E j2, at2 : Walking(items, i + 1, Walked(w, items[i + 1]), j2, at2)
<1> DEFINE item == items[i + 1]
           w2   == Walked(w, item)
<1>1. /\ (\A x : x \in DOMAIN items <=> x \in 1 .. Len(items)) /\ Len(items) \in Nat /\ j \in 1 .. i
      /\ i + 1 \in 1 .. Len(items) /\ item \in Item
  BY DEF Descriptor, Walking, Current
<1>2. CASE item.type = "interface"
  <2>1. PICK at2 : Listing(items, i + 1, at2, Flushed(w))
    BY <1>1, <1>2, FlushedOf
  <2>2. w2 = [intf |-> item.num, class |-> item.class, ep_in |-> 0, ep_out |-> 0,
              seen |-> TRUE, found |-> Flushed(w)]
    BY <1>1, <1>2, WalkedOf DEF Walking
  <2>3. w2 \in Walk
    BY <1>1, <2>1, <2>2 DEF Walk, Item, Listing
  <2>4. Current(items, i + 1, i + 1)
    BY <1>1, <1>2 DEF Current
  <2>5. \A kind : Kept(items, i + 1, i + 1, kind, 0)
    BY <1>1 DEF Kept
  <2>6. Walking(items, i + 1, w2, i + 1, at2)
    BY <2>1, <2>2, <2>4, <2>5 DEF Walking
  <2> QED BY <2>3, <2>6
<1>3. CASE item.type # "interface"
  <2>1. /\ w2 \in Walk
        /\ w2.seen = w.seen /\ w2.intf = w.intf /\ w2.class = w.class /\ w2.found = w.found
        /\ w2.ep_in  = IF w.ep_in = 0 /\ Kind(item, "bulk_in") THEN item.num ELSE w.ep_in
        /\ w2.ep_out = IF w.ep_out = 0 /\ Kind(item, "bulk_out") THEN item.num ELSE w.ep_out
    BY <1>1, <1>3, WalkedOf
  <2> HIDE DEF w2
  <2>2. Current(items, i + 1, j)
    BY <1>1, <1>3 DEF Walking, Current
  <2>3. ASSUME NEW kind, NEW ep \in 0 .. 255, Kept(items, j, i, kind, ep)
        PROVE  Kept(items, j, i + 1, kind, IF ep = 0 /\ Kind(item, kind) THEN item.num ELSE ep)
    <3>1. i + 1 \in j + 1 .. i + 1 /\ \A k \in j + 1 .. i + 1 : k = i + 1 \/ k \in j + 1 .. i
      BY <1>1
    <3>2. \A k \in j + 1 .. i : k \in j + 1 .. i + 1
      BY <1>1
    <3>3. CASE ep # 0
      BY <2>3, <3>2, <3>3 DEF Kept
    <3>4. CASE ep = 0 /\ Kind(item, kind)
      <4>1. item.num # 0
        BY <1>1, <3>4 DEF Descriptor, Kind
      <4> QED BY <3>1, <3>4, <4>1 DEF Kept
    <3>5. CASE ep = 0 /\ ~Kind(item, kind)
      BY <2>3, <3>1, <3>5 DEF Kept
    <3> QED BY <3>3, <3>4, <3>5
  <2>4. Kept(items, j, i + 1, "bulk_in", w2.ep_in) /\ Kept(items, j, i + 1, "bulk_out", w2.ep_out)
    <3>1. w.ep_in \in 0 .. 255 /\ w.ep_out \in 0 .. 255
      BY DEF Walk
    <3>2. Kept(items, j, i, "bulk_in", w.ep_in) /\ Kept(items, j, i, "bulk_out", w.ep_out)
      BY DEF Walking
    <3>3. Kept(items, j, i + 1, "bulk_in",
               IF w.ep_in = 0 /\ Kind(item, "bulk_in") THEN item.num ELSE w.ep_in)
      BY <2>3, <3>1, <3>2
    <3>4. Kept(items, j, i + 1, "bulk_out",
               IF w.ep_out = 0 /\ Kind(item, "bulk_out") THEN item.num ELSE w.ep_out)
      BY <2>3, <3>1, <3>2
    <3> QED BY <2>1, <3>3, <3>4
  <2>5. Walking(items, i + 1, w2, j, at)
    BY <2>1, <2>2, <2>4 DEF Walking
  <2> QED BY <2>1, <2>5 DEF w2
<1> QED BY <1>2, <1>3

\* Every interface with endpoints both ways is found, and nothing else.
LEMMA FindAll ==
  ASSUME NEW items, Descriptor(items)
  PROVE  \E at : Listing(items, Len(items) + 1, at, find_all_bulk_eps(items))
<1> DEFINE n == Len(items)
           step(w, i) == Walked(w, items[i])
           Is(f, m) == f = [i \in 0 .. m |-> IF i = 0 THEN WalkBegins ELSE step(f[i - 1], i)]
           walk == CHOOSE f : Is(f, n)
<1>1. items \in Seq(Item) /\ n \in Nat /\ (\A x : x \in DOMAIN items <=> x \in 1 .. n)
  BY DEF Descriptor
<1>2. find_all_bulk_eps(items) = Flushed(walk[n])
  BY DEF find_all_bulk_eps
<1>3. Is(walk, n)
  <2> HIDE DEF step
  <2> DEFINE S == {m \in Nat : \E f : Is(f, m)}
  <2>1. 0 \in S
    <3> DEFINE f == [i \in 0 .. 0 |-> WalkBegins]
    <3>1. Is(f, 0)
      OBVIOUS
    <3> QED BY <3>1
  <2>2. ASSUME NEW m \in Nat, m \in S
        PROVE  m + 1 \in S
    <3>1. PICK f : Is(f, m)
      BY <2>2
    <3> DEFINE g == [i \in 0 .. m + 1 |-> IF i = m + 1 THEN step(f[m], i) ELSE f[i]]
    <3>2. ASSUME NEW i \in 0 .. m + 1
          PROVE  g[i] = IF i = 0 THEN WalkBegins ELSE step(g[i - 1], i)
      <4>1. CASE i = m + 1
        BY <4>1
      <4>2. CASE i \in 0 .. m
        <5>1. f[i] = IF i = 0 THEN WalkBegins ELSE step(f[i - 1], i)
          BY <3>1, <4>2
        <5>2. i # 0 => g[i - 1] = f[i - 1]
          BY <4>2
        <5> QED BY <4>2, <5>1, <5>2
      <4> QED BY <4>1, <4>2
    <3>3. Is(g, m + 1)
      <4>1. g = [i \in 0 .. m + 1 |-> g[i]]
        OBVIOUS
      <4>2. [i \in 0 .. m + 1 |-> g[i]]
              = [i \in 0 .. m + 1 |-> IF i = 0 THEN WalkBegins ELSE step(g[i - 1], i)]
        BY <3>2
      <4> QED BY <4>1, <4>2
    <3> HIDE DEF Is
    <3> QED BY <3>3
  <2>3. n \in S
    <3> HIDE DEF S
    <3> QED BY <1>1, <2>1, <2>2, NatSetInduction
  <2> QED BY <2>3
<1>4. walk[0] = WalkBegins /\ \A i \in 1 .. n : walk[i] = Walked(walk[i - 1], items[i])
  <2> HIDE DEF walk
  <2> QED BY <1>1, <1>3
<1> HIDE DEF walk
<1>5. WalkBegins \in Walk
  BY BeginsOf
<1>6. CASE n = 0
  <2>1. Flushed(walk[n]) = <<>>
    <3>1. walk[n] = WalkBegins
      BY <1>4, <1>6
    <3>2. Flushed(WalkBegins) = <<>>
      BY DEF Flushed, WalkBegins
    <3> QED BY <3>1, <3>2
  <2>2. Listing(items, n + 1, <<>>, <<>>)
    BY <1>1, <1>6, EmptySeq DEF Listing, Pairs
  <2> QED BY <1>2, <2>1, <2>2
<1>7. CASE n # 0
  <2> DEFINE S == {m \in Nat : m + 1 <= n => walk[m + 1] \in Walk
                                 /\ \E j, at : Walking(items, m + 1, walk[m + 1], j, at)}
  <2>1. 0 \in S
    <3>1. items[1] \in Item /\ items[1].type = "interface" /\ 1 \in 1 .. n
      BY <1>1, <1>7, EmptySeq DEF Descriptor
    <3>2. walk[1] = [intf |-> items[1].num, class |-> items[1].class, ep_in |-> 0, ep_out |-> 0,
                     seen |-> TRUE, found |-> <<>>]
      <4>1. walk[1] = Walked(WalkBegins, items[1])
        BY <1>4, <3>1
      <4> QED BY <1>5, <3>1, <4>1, WalkedOf DEF WalkBegins
    <3>3. walk[1] \in Walk
      BY <3>1, <3>2, EmptySeq DEF Walk, Item
    <3>4. Listing(items, 1, <<>>, <<>>)
      BY <1>1, EmptySeq DEF Listing, Pairs
    <3>5. Walking(items, 1, walk[1], 1, <<>>)
      BY <3>1, <3>2, <3>4 DEF Walking, Current, Kept
    <3> QED BY <3>3, <3>5
  <2>2. ASSUME NEW m \in Nat, m \in S
        PROVE  m + 1 \in S
    <3>1. SUFFICES ASSUME m + 2 <= n
                   PROVE  walk[m + 2] \in Walk
                          /\ \E j, at : Walking(items, m + 2, walk[m + 2], j, at)
      <4>1. (m + 1) + 1 = m + 2
        OBVIOUS
      <4> QED BY <4>1
    <3>2. PICK j, at : walk[m + 1] \in Walk /\ Walking(items, m + 1, walk[m + 1], j, at)
      BY <2>2, <3>1, <1>1
    <3>3. m + 1 \in 1 .. n - 1 /\ (m + 1) + 1 = m + 2 /\ m + 2 \in 1 .. n /\ (m + 2) - 1 = m + 1
      BY <1>1, <3>1
    <3>4. walk[m + 2] = Walked(walk[m + 1], items[m + 2])
      BY <1>4, <3>3
    <3> QED BY <3>2, <3>3, <3>4, WalkingStep
  <2>3. n - 1 \in S
    <3>1. Nat \subseteq S
      <4> HIDE DEF S
      <4> QED BY <2>1, <2>2, NatSetInduction
    <3>2. n - 1 \in Nat
      BY <1>1, <1>7
    <3> HIDE DEF S
    <3> QED BY <3>1, <3>2
  <2>4. PICK j, at : walk[n] \in Walk /\ Walking(items, n, walk[n], j, at)
    BY <1>1, <1>7, <2>3
  <2>5. n \in 1 .. Len(items)
    BY <1>1, <1>7
  <2> QED BY <1>2, <2>4, <2>5, FlushedOf
<1> QED BY <1>6, <1>7

LEMMA MinOf ==
  ASSUME NEW S, S \subseteq Nat, S # {}
  PROVE  Min(S) \in S /\ \A x \in S : Min(S) <= x
<1> DEFINE Less == {ss \in Nat \X Nat : ss[1] < ss[2]}
<1>1. IsWellFoundedOn(Less, Nat)
  BY NatLessThanWellFounded DEF OpToRel
<1>2. PICK m \in S : \A y \in S : <<y, m>> \notin Less
  <2> HIDE DEF Less
  <2> QED BY <1>1, WFMin
<1>3. \A y \in S : m <= y
  <2> SUFFICES ASSUME NEW y \in S PROVE m <= y
    OBVIOUS
  <2>1. y \in Nat /\ m \in Nat
    OBVIOUS
  <2>2. ~(y < m)
    BY <1>2, <2>1
  <2> QED BY <2>1, <2>2
<1> QED BY <1>2, <1>3 DEF Min

LEMMA MaxOf ==
  ASSUME NEW n \in Nat, NEW S, S \subseteq 1 .. n, S # {}
  PROVE  Max(S) \in S /\ \A x \in S : x <= Max(S)
<1> DEFINE T == {n - x : x \in S}
<1>1. T \subseteq Nat /\ T # {}
  <2>1. \A x \in S : x \in 1 .. n /\ n - x \in Nat
    OBVIOUS
  <2> QED BY <2>1
<1>2. Min(T) \in T /\ \A y \in T : Min(T) <= y
  <2> HIDE DEF T
  <2> QED BY <1>1, MinOf
<1>3. PICK m \in S : n - m = Min(T)
  BY <1>2
<1>4. \A x \in S : x <= m
  <2> SUFFICES ASSUME NEW x \in S PROVE x <= m
    OBVIOUS
  <2>1. n - m <= n - x
    BY <1>2, <1>3
  <2>2. x \in 1 .. n /\ m \in 1 .. n
    OBVIOUS
  <2> QED BY <2>1, <2>2
<1> QED BY <1>3, <1>4 DEF Max

\* The endpoints used are pairs of the descriptor, as many as there are ports.
LEMMA EpsPaired ==
  ASSUME MAX_USB_PORTS \in Nat \ {0}, NEW device, Descriptor(device.items),
         device.ports \in Nat \ {0}
  PROVE  /\ Paired(device, eps_to_use(device))
         /\ eps_to_use(device) \in Seq(Pair) /\ Len(eps_to_use(device)) <= MAX_USB_PORTS
<1> DEFINE items == device.items
           all   == find_all_bulk_eps(items)
           sel   == selected_eps(device, all)
           most  == IF device.chip = "FTDI" THEN {device.ports, MAX_USB_PORTS} ELSE {1}
           m     == Min(most \cup {Len(sel)})
           used  == eps_to_use(device)
           Data  == {j \in Pairs(items) : items[j].class = "CDC data"}
           data  == {i \in DOMAIN all : all[i].class = "CDC data"}
<1>1. used = SubSeq(sel, 1, m)
  BY DEF eps_to_use
<1>2. PICK at : Listing(items, Len(items) + 1, at, all)
  BY FindAll
<1>3. /\ all \in Seq(Pair) /\ Len(all) \in Nat /\ Len(at) = Len(all)
      /\ \A n : n \in DOMAIN all <=> n \in 1 .. Len(all)
      /\ \A n \in 1 .. Len(all) : at[n] \in Pairs(items) /\ PairOf(items, at[n], all[n])
                                  /\ all[n] \in Pair
      /\ \A k, n \in 1 .. Len(all) : k < n => at[k] < at[n]
  BY <1>2 DEF Listing
<1>4. \A q \in Pairs(items) : \E n \in 1 .. Len(all) : at[n] = q
  <2> SUFFICES ASSUME NEW q \in Pairs(items)
               PROVE  \E n \in 1 .. Len(all) : at[n] = q
    OBVIOUS
  <2>1. q < Len(items) + 1
    <3>1. Len(items) \in Nat /\ q \in 1 .. Len(items)
      BY DEF Descriptor, Pairs
    <3> QED BY <3>1
  <2> QED BY <1>2, <1>3, <2>1 DEF Listing
<1>5. Pairs(items) \subseteq Nat
  BY DEF Descriptor, Pairs
<1>6. \A n \in 1 .. Len(all) : at[n] \in Data <=> all[n].class = "CDC data"
  BY <1>3 DEF PairOf
<1>7. ASSUME NEW N \in Nat, sel \in Seq(Pair), Len(sel) = N
      PROVE  /\ m \in 0 .. N /\ m <= MAX_USB_PORTS
             /\ device.chip # "FTDI" => m <= 1
             /\ used \in Seq(Pair) /\ Len(used) = m
             /\ \A n \in 1 .. m : used[n] = sel[n]
  <2>1. most \cup {N} \subseteq Nat /\ most \cup {N} # {}
    OBVIOUS
  <2>2. m \in most \cup {N} /\ \A x \in most \cup {N} : m <= x
    BY <1>7, <2>1, MinOf
  <2> HIDE DEF sel
  <2>3. m \in Nat /\ m <= N /\ (device.chip # "FTDI" => m <= 1)
    BY <2>1, <2>2
  <2>4. m <= MAX_USB_PORTS
    <3>1. CASE device.chip = "FTDI"
      <4>1. MAX_USB_PORTS \in most
        BY <3>1
      <4> QED BY <2>2, <4>1
    <3>2. CASE device.chip # "FTDI"
      <4>1. m <= 1 /\ 1 <= MAX_USB_PORTS
        BY <2>3, <3>2
      <4> QED BY <2>3, <4>1
    <3> QED BY <3>1, <3>2
  <2> HIDE DEF m
  <2>5. \A i \in 1 .. m : sel[i] \in Pair
    BY <1>7, <2>3
  <2>6. /\ SubSeq(sel, 1, m) \in Seq(Pair)
        /\ Len(SubSeq(sel, 1, m)) = IF 1 <= m THEN m - 1 + 1 ELSE 0
        /\ \A i \in 1 .. m - 1 + 1 : SubSeq(sel, 1, m)[i] = sel[1 + i - 1]
    BY <2>3, <2>5, SubSeqProperties
  <2> QED BY <1>1, <2>3, <2>4, <2>6
<1>8. ASSUME NEW f \in [1 .. Len(used) -> Pairs(items)],
             \A n \in 1 .. Len(used) : PairOf(items, f[n], used[n]),
             \A k, n \in 1 .. Len(used) : k < n => f[k] < f[n],
             device.chip = "FTDI" =>
               \A n \in 1 .. Len(used) : \A j \in Pairs(items) :
                 j < f[n] => \E k \in 1 .. n - 1 : f[k] = j,
             device.chip # "FTDI" =>
               /\ Len(used) <= 1
               /\ \A n \in 1 .. Len(used) :
                    IF Data # {} THEN f[n] \in Data /\ \A j \in Data : j <= f[n]
                                 ELSE \A j \in Pairs(items) : f[n] <= j
      PROVE  Paired(device, used)
  <2> DEFINE Serial == DataOf(items, "ACM control")
  <2>1. ASSUME device.chip # "FTDI", NEW n \in 1 .. Len(used),
               NEW s \in Serial, \A j \in Data : j <= s
        PROVE  f[n] \in Serial
    <3>1. s \in Data
      BY DEF DataOf
    <3>2. f[n] \in Data /\ s <= f[n] /\ f[n] <= s
      BY <1>8, <2>1, <3>1
    <3>3. f[n] \in Nat /\ s \in Nat
      BY <1>5, <3>1, <3>2
    <3>4. f[n] = s
      <4> HIDE DEF used, Data, Serial
      <4> QED BY <3>2, <3>3
    <3> QED BY <3>4
  <2>2. device.chip # "FTDI" => \A n \in 1 .. Len(used) :
          /\ Data # {} => f[n] \in Data
          /\ Data = {} => \A j \in Pairs(items) : f[n] <= j
    <3> HIDE DEF used, Data
    <3> QED BY <1>8
  <2> QED BY <1>8, <2>1, <2>2 DEF Paired
<1> HIDE DEF Data
<1>9. CASE device.chip = "FTDI" \/ Len(all) <= 1
  <2>1. sel = all
    BY <1>9 DEF selected_eps
  <2>2. /\ m \in 0 .. Len(all) /\ m <= MAX_USB_PORTS /\ (device.chip # "FTDI" => m <= 1)
        /\ used \in Seq(Pair) /\ Len(used) = m /\ \A n \in 1 .. m : used[n] = all[n]
    BY <1>3, <1>7, <2>1
  <2> HIDE DEF m, used, sel, all
  <2> DEFINE f == [n \in 1 .. m |-> at[n]]
  <2>3. f \in [1 .. m -> Pairs(items)] /\ \A n \in 1 .. m : f[n] = at[n]
    BY <1>3, <2>2
  <2> HIDE DEF f
  <2>4. \A n \in 1 .. m : PairOf(items, f[n], used[n])
    BY <1>3, <2>2, <2>3
  <2>5. \A k, n \in 1 .. m : k < n => f[k] < f[n]
    BY <1>3, <2>2, <2>3
  <2>6. ASSUME NEW n \in 1 .. m, NEW j \in Pairs(items), j < f[n]
        PROVE  \E k \in 1 .. n - 1 : f[k] = j
    <3>1. PICK k \in 1 .. Len(all) : at[k] = j
      BY <1>4
    <3>2. n \in 1 .. Len(all) /\ at[k] < at[n] /\ at[k] \in Nat /\ at[n] \in Nat
      BY <1>3, <1>5, <2>2, <2>3, <2>6, <3>1
    <3>3. ~(n < k) /\ n # k
      BY <1>3, <3>2
    <3>4. k \in 1 .. n - 1
      BY <1>3, <3>2, <3>3
    <3>5. f[k] = j
      BY <2>2, <2>3, <3>1, <3>4
    <3> QED BY <3>4, <3>5
  <2>7. ASSUME device.chip # "FTDI", NEW n \in 1 .. m
        PROVE  IF Data # {} THEN f[n] \in Data /\ \A j \in Data : j <= f[n]
                            ELSE \A j \in Pairs(items) : f[n] <= j
    <3>1. n = 1 /\ Len(all) = 1 /\ f[n] = at[1] /\ at[1] \in Nat
      BY <1>3, <1>5, <1>9, <2>2, <2>3, <2>7
    <3>2. \A j \in Pairs(items) : j = at[1]
      BY <1>4, <3>1
    <3>3. \A j \in Data : j \in Pairs(items)
      BY DEF Data
    <3> QED BY <3>1, <3>2, <3>3
  <2>8. Paired(device, used)
    BY <1>8, <2>2, <2>3, <2>4, <2>5, <2>6, <2>7
  <2> QED BY <2>2, <2>8 DEF used
<1>10. CASE ~(device.chip = "FTDI" \/ Len(all) <= 1)
  <2> DEFINE k == IF data # {} THEN Max(data) ELSE 1
  <2>1. sel = <<all[k]>>
    BY <1>10 DEF selected_eps
  <2>2. \A n : n \in data <=> n \in 1 .. Len(all) /\ all[n].class = "CDC data"
    BY <1>3
  <2>3. data # {} => k \in data /\ \A n \in data : n <= k
    <3>1. data \subseteq 1 .. Len(all)
      BY <2>2
    <3> HIDE DEF data, all
    <3> QED BY <1>3, <3>1, MaxOf
  <2> HIDE DEF data
  <2>4. k \in 1 .. Len(all)
    <3>1. CASE data # {}
      BY <2>2, <2>3, <3>1
    <3>2. CASE data = {}
      <4>1. k = 1
        BY <3>2
      <4> QED BY <1>3, <1>10, <4>1
    <3> QED BY <3>1, <3>2
  <2>5. sel \in Seq(Pair) /\ Len(sel) = 1 /\ sel[1] = all[k]
    BY <1>3, <2>1, <2>4
  <2>6. /\ m \in 0 .. 1 /\ m <= MAX_USB_PORTS
        /\ used \in Seq(Pair) /\ Len(used) = m /\ \A n \in 1 .. m : used[n] = all[k]
    <3>1. /\ m \in 0 .. 1 /\ m <= MAX_USB_PORTS
          /\ used \in Seq(Pair) /\ Len(used) = m /\ \A n \in 1 .. m : used[n] = sel[n]
      <4> HIDE DEF m, used, sel, all, k
      <4> QED BY <1>7, <2>5
    <3> HIDE DEF m, used, sel, all, k
    <3>2. \A n \in 1 .. m : n = 1
      BY <3>1
    <3> QED BY <2>5, <3>1, <3>2
  <2>7. data = {} => k = 1
    OBVIOUS
  <2> HIDE DEF m, used, sel, all, k
  <2> DEFINE f == [n \in 1 .. m |-> at[k]]
  <2>8. f \in [1 .. m -> Pairs(items)] /\ \A n \in 1 .. m : f[n] = at[k]
    BY <1>3, <2>4, <2>6
  <2> HIDE DEF f
  <2>9. \A n \in 1 .. m : PairOf(items, f[n], used[n])
    BY <1>3, <2>4, <2>6, <2>8
  <2>10. \A i, n \in 1 .. m : i < n => f[i] < f[n]
    BY <2>6
  <2>11. ASSUME NEW j \in Data
         PROVE  data # {} /\ j <= at[k]
    <3>1. j \in Pairs(items)
      BY DEF Data
    <3>2. PICK n \in 1 .. Len(all) : at[n] = j
      BY <1>4, <3>1
    <3>3. n \in data
      BY <1>6, <2>2, <3>2
    <3>4. n = k \/ n < k
      BY <1>3, <2>3, <2>4, <3>2, <3>3
    <3>5. at[n] \in Nat /\ at[k] \in Nat
      BY <1>3, <1>5, <2>4
    <3>6. at[n] = at[k] \/ at[n] < at[k]
      BY <1>3, <2>4, <3>4
    <3> QED BY <3>2, <3>3, <3>5, <3>6
  <2>12. data # {} => at[k] \in Data
    BY <1>6, <2>2, <2>3, <2>4
  <2>13. ASSUME data = {}, NEW j \in Pairs(items)
         PROVE  at[k] <= j
    <3>1. PICK n \in 1 .. Len(all) : at[n] = j
      BY <1>4
    <3>2. n = k \/ k < n
      BY <1>3, <2>7, <2>13, <3>1
    <3>3. at[n] \in Nat /\ at[k] \in Nat
      BY <1>3, <1>5, <2>4
    <3>4. at[n] = at[k] \/ at[k] < at[n]
      BY <1>3, <2>4, <3>2
    <3> QED BY <3>1, <3>3, <3>4
  <2>14. ASSUME NEW n \in 1 .. m
         PROVE  IF Data # {} THEN f[n] \in Data /\ \A j \in Data : j <= f[n]
                             ELSE \A j \in Pairs(items) : f[n] <= j
    <3>1. CASE Data # {}
      BY <2>8, <2>11, <2>12, <3>1
    <3>2. CASE Data = {}
      <4>1. data = {}
        BY <2>12, <3>2
      <4> QED BY <2>8, <2>13, <3>2, <4>1
    <3> QED BY <3>1, <3>2
  <2>15. Paired(device, used)
    BY <1>8, <1>10, <2>6, <2>8, <2>9, <2>10, <2>14
  <2> QED BY <2>6, <2>15 DEF used
<1> QED BY <1>9, <1>10

-------------------------------------------------------------------------------
(* What the client's steps make of its locals.                             *)

LEMMA ChipPlans ==
  ASSUME NEW chip
  PROVE  /\ chip_init(chip) \in Seq(Request) /\ chip_init(chip) # <<>>
         /\ chip = "CDC" => chip_init(chip) = cdc_acm_init
<1>1. pl2303_init \in Seq(Request) /\ pl2303_init # <<>>
  BY DEF pl2303_init, Request, ClassRequests
<1>2. cp210x_init \in Seq(Request) /\ cp210x_init # <<>>
  BY DEF cp210x_init, Request, ClassRequests
<1>3. ftdi_init \in Seq(Request) /\ ftdi_init # <<>>
  BY DEF ftdi_init, Request, ClassRequests
<1>4. cdc_acm_init \in Seq(Request) /\ cdc_acm_init # <<>>
  BY DEF cdc_acm_init, Request, ClassRequests
<1> QED BY <1>1, <1>2, <1>3, <1>4 DEF chip_init

Thens == {"alloc", "reinit", "recover", "recover_out", "resubmit"}

\* One answer more: the plan is shorter, or goes on with the data interface.
LEMMA AnsweredOf ==
  ASSUME TypeOK, StageInv, Asking, NEW good \in BOOLEAN
  PROVE  LET c == Answered(good)
         IN  /\ c \in Client
             /\ c.dev = client.dev /\ c.port = client.port /\ c.active = client.active
             /\ c.then = client.then
             /\ \/ c.at = "ctrl" /\ c.plan # <<>>
                \/ c.at = client.then /\ c.plan = <<>>
<1> DEFINE repeat == /\ ~good /\ client.plan[1] \in {"SetLineCoding", "SetControlLineState"}
                     /\ Opened.chip = "CDC"
           plan == IF repeat THEN <<OnData(client.plan[1])>> \o Tail(client.plan)
                             ELSE Tail(client.plan)
           ok == client.ok /\ (good \/ Len(plan) = Len(client.plan) \/ Opened.chip # "CDC")
           at == IF plan = <<>> THEN client.then ELSE "ctrl"
<1>1. /\ client \in Client
      /\ client.plan \in Seq(Request) /\ client.plan # <<>>
      /\ client.then \in Thens
      /\ Tail(client.plan) \in Seq(Request)
  BY HeadTailProperties DEF TypeOK, Client, StageInv, Thens
<1>2. plan \in Seq(Request)
  <2>1. repeat => OnData(client.plan[1]) \in Request
    BY DEF OnData, Request, ClassRequests
  <2>2. repeat => <<OnData(client.plan[1])>> \in Seq(Request)
    BY <2>1
  <2> QED BY <1>1, <2>2, ConcatProperties
<1>3. ok \in BOOLEAN
  BY <1>1 DEF Client
<1>4. at \in Thens \cup {"ctrl"}
  BY <1>1
<1>5. Answered(good) = [client EXCEPT !.plan = plan, !.ok = ok, !.at = at]
  BY DEF Answered
<1> HIDE DEF plan, ok
<1> QED BY <1>1, <1>2, <1>3, <1>4, <1>5 DEF Client, Thens

LEMMA EpsOf ==
  ASSUME NEW d \in Plug, Eps[d] # <<>>
  PROVE  Len(Eps[d]) \in 1 .. MAX_USB_PORTS /\ Len(Eps[d]) \in Nat
<1>1. Descriptor(Device[d].items) /\ Device[d].ports \in Nat \ {0}
  BY UsbAssumption
<1>2. Eps[d] = eps_to_use(Device[d])
  BY UsbAssumption DEF Eps
<1>3. Eps[d] \in Seq(Pair) /\ Len(Eps[d]) <= MAX_USB_PORTS
  BY <1>1, <1>2, EpsPaired, UsbAssumption
<1>4. Len(Eps[d]) \in Nat /\ Len(Eps[d]) # 0
  BY <1>3
<1> QED BY <1>3, <1>4, UsbAssumption

LEMMA IdleOf == Idle \in Client
<1>1. <<>> \in Seq(Request)
  BY EmptySeq
<1> QED BY <1>1, UsbAssumption DEF Idle, Client

LEMMA NextPortOf ==
  ASSUME NEW c \in Client, Len(eps) \in 1 .. MAX_USB_PORTS, c.port < Len(eps)
  PROVE  /\ NextPort(c) \in Client
         /\ \/ NextPort(c).at = "claim" /\ c.port + 1 < Len(eps)
            \/ NextPort(c).at = "publish"
         /\ NextPort(c).port = c.port + 1
         /\ NextPort(c).dev = c.dev
         /\ NextPort(c).active = c.active
<1>1. /\ MAX_USB_PORTS \in Nat /\ c.port + 1 \in 0 .. MAX_USB_PORTS
      /\ c.port \in Nat
  BY UsbAssumption DEF Client
<1> QED BY <1>1 DEF NextPort, Client

LEMMA NotClientKept ==
  ASSUME \/ bus_next \/ client_event_cb \/ callbacks
         \/ \E w \in Writer : write_begin(w) \/ write(w)
         \/ UNCHANGED vars
  PROVE  UNCHANGED <<client, CDC_DEV_HDL, CDC_PORT_COUNT>>
<1>1. CASE bus_next
  BY <1>1 DEF bus_next, PlugIn, Enumerate, Unplug, AnswerCtrl, CompleteIn, CompleteOut, hostvars
<1>2. CASE client_event_cb \/ callbacks
  BY <1>2 DEF callbacks, client_event_cb, ctrl_xfer_cb, bulk_in_cb, bulk_out_cb, hostvars
<1>3. CASE \E w \in Writer : write_begin(w) \/ write(w)
  BY <1>3 DEF write, write_begin, write_check, write_wait, submit_claim, submit_transfer,
       submit_chunk, submit_again, submit_freed, hostside, hostvars
<1>4. CASE UNCHANGED vars
  BY <1>4 DEF vars, hostvars
<1> QED BY <1>1, <1>2, <1>3, <1>4

LEMMA ClientStep ==
  ASSUME TypeOK, StageInv, client_next
  PROVE  /\ client' \in Client
         /\ CDC_DEV_HDL' \in 0 .. MaxPlugs /\ CDC_PORT_COUNT' \in 0 .. MAX_USB_PORTS
         /\ StageInv'
<1>a. /\ client \in Client /\ client.dev \in 0 .. MaxPlugs
      /\ client.port \in 0 .. MAX_USB_PORTS /\ client.active \in 0 .. MAX_USB_PORTS
      /\ client.then \in Thens
      /\ CDC_DEV_HDL \in 0 .. MaxPlugs /\ CDC_PORT_COUNT \in 0 .. MAX_USB_PORTS
      /\ MAX_USB_PORTS \in Nat \ {0} /\ MaxPlugs \in Nat
      /\ 0 \in 0 .. MAX_USB_PORTS
  BY UsbAssumption DEF TypeOK, Client, Thens
<1>b. client.dev # 0 => client.dev \in Plug
  BY <1>a DEF Plug
<1> USE DEF Asking, SetUp, Serving
<1>1. ASSUME NEW good \in BOOLEAN, Asking, client' = Answered(good),
             UNCHANGED <<CDC_DEV_HDL, CDC_PORT_COUNT>>
      PROVE  client' \in Client /\ StageInv'
  <2>1. /\ client' \in Client
        /\ client'.dev = client.dev /\ client'.port = client.port
        /\ client'.active = client.active /\ client'.then = client.then
        /\ (client'.at = "ctrl" /\ client'.plan # <<>>) \/ client'.at = client.then
    BY <1>1, AnsweredOf DEF Asking
  <2>2. Stage' = Stage /\ eps' = eps
    BY <1>1, <1>a, <2>1 DEF Stage, eps, Thens
  <2>3. Asking' => client'.plan # <<>>
    BY <1>a, <2>1 DEF Thens
  <2> QED BY <1>1, <2>1, <2>2, <2>3 DEF StageInv
<1>2. CASE ctrl_submit
  <2>1. UNCHANGED <<CDC_DEV_HDL, CDC_PORT_COUNT>> /\ client.at = "ctrl"
    BY <1>2 DEF ctrl_submit, submit_control
  <2>2. CASE client' = Answered(FALSE)
    BY <1>1, <1>a, <2>1, <2>2
  <2>3. CASE client' = [client EXCEPT !.at = "wait"]
    <3>1. /\ client' \in Client
          /\ client'.dev = client.dev /\ client'.port = client.port
          /\ client'.active = client.active /\ client'.then = client.then
          /\ client'.plan = client.plan /\ client'.at = "wait"
      BY <1>a, <2>3 DEF Client
    <3>2. Stage' = Stage /\ eps' = eps
      BY <2>1, <3>1 DEF Stage, eps
    <3> QED BY <1>a, <2>1, <3>1, <3>2 DEF StageInv
  <2> QED BY <1>2, <2>2, <2>3 DEF ctrl_submit, submit_control
<1>3. CASE ctrl_answered \/ ctrl_timeout
  <2>1. /\ UNCHANGED <<CDC_DEV_HDL, CDC_PORT_COUNT>> /\ client.at = "wait"
        /\ \E good \in BOOLEAN : client' = Answered(good)
    BY <1>3 DEF ctrl_answered, ctrl_timeout, hostvars_but_client
  <2> QED BY <1>1, <1>a, <2>1
<1>4. CASE scan
  <2>1. client' = Idle /\ UNCHANGED <<CDC_DEV_HDL, CDC_PORT_COUNT>> /\ client.at = "scan"
    BY <1>4 DEF scan, Unchanged_but_client
  <2> QED BY <1>a, <2>1, IdleOf DEF StageInv, Stage, Idle
<1>5. CASE open_device
  <2>1. /\ UNCHANGED <<CDC_DEV_HDL, CDC_PORT_COUNT>> /\ client.at = "idle"
        /\ NEW_DEV_ADDR \in Plug
    BY <1>5, <1>a DEF open_device, Unchanged_but_client, TypeOK, Plug
  <2>2. CASE client' = client
    <3>1. Stage' = Stage /\ eps' = eps
      BY <2>2 DEF Stage, eps
    <3> QED BY <1>a, <2>1, <2>2, <3>1 DEF StageInv
  <2>3. CASE /\ Eps[NEW_DEV_ADDR] # <<>>
             /\ client' = [client EXCEPT !.at = "claim", !.dev = NEW_DEV_ADDR, !.port = 0,
                                         !.active = 0]
    <3>1. /\ client' \in Client
          /\ client'.at = "claim" /\ client'.dev = NEW_DEV_ADDR /\ client'.port = 0
          /\ client'.active = 0
      <4>1. NEW_DEV_ADDR \in 0 .. MaxPlugs
        BY <1>a, <2>1 DEF Plug
      <4> QED BY <1>a, <2>3, <4>1 DEF Client
    <3>2. Stage' = "claim" /\ eps' = Eps[NEW_DEV_ADDR]
      BY <3>1 DEF Stage, eps
    <3>3. NEW_DEV_ADDR # 0 /\ CDC_DEV_HDL = 0
      BY <2>1 DEF StageInv, Stage, Plug
    <3>4. Len(Eps[NEW_DEV_ADDR]) \in Nat /\ 0 < Len(Eps[NEW_DEV_ADDR])
      BY <2>1, <2>3, EpsOf
    <3> QED BY <1>a, <2>1, <3>1, <3>2, <3>3, <3>4 DEF StageInv
  <2> QED BY <1>5, <2>2, <2>3 DEF open_device
<1>6. ASSUME client.at \in {"claim", "alloc"}
      PROVE  /\ Len(eps) \in 1 .. MAX_USB_PORTS /\ client.port < Len(eps)
             /\ client.dev # 0 /\ CDC_DEV_HDL = 0 /\ client.active <= client.port
  <2>1. client.dev \in Plug /\ client.port < Len(eps) /\ CDC_DEV_HDL = 0
        /\ client.active <= client.port
    BY <1>6, <1>b DEF StageInv, Stage
  <2>2. Eps[client.dev] # <<>>
    <3>1. Len(<<>>) = 0
      BY EmptySeq
    <3> QED BY <1>a, <2>1, <3>1 DEF eps
  <2> QED BY <2>1, <2>2, EpsOf DEF eps, Plug
<1>7. ASSUME client.at \in {"claim", "alloc"}, NEW c \in Client, c.dev = client.dev,
             c.port = client.port, c.active \in {client.active, client.active + 1},
             c.at = "claim" => c.active = client.active, client' = NextPort(c),
             UNCHANGED <<CDC_DEV_HDL, CDC_PORT_COUNT>>
      PROVE  client' \in Client /\ StageInv'
  <2>1. /\ client' \in Client
        /\ \/ client'.at = "claim" /\ c.port + 1 < Len(eps)
           \/ client'.at = "publish"
        /\ client'.port = c.port + 1 /\ client'.dev = c.dev
        /\ client'.active = c.active
    BY <1>6, <1>7, NextPortOf
  <2>2. Stage' = client'.at /\ eps' = eps
    BY <1>7, <2>1 DEF Stage, eps
  <2>3. /\ Stage' \in {"claim", "publish"} /\ client'.dev = client.dev /\ client.dev # 0
        /\ CDC_DEV_HDL' = 0 /\ ~Asking'
    BY <1>6, <1>7, <2>1, <2>2
  <2>4. Stage' = "claim" => client'.port < Len(eps')
    BY <2>1, <2>2
  <2>5. client'.active <= client'.port
    <3>1. client.active \in Nat /\ client.port \in Nat
      BY <1>a
    <3>2. client.active <= client.port
      BY <1>6, <1>7
    <3>3. /\ client'.port = client.port + 1
          /\ client'.active \in {client.active, client.active + 1}
      BY <1>7, <2>1
    <3> QED BY <3>1, <3>2, <3>3
  <2> QED BY <2>1, <2>3, <2>4, <2>5 DEF StageInv
<1>8. ASSUME NEW plan \in Seq(Request), plan # <<>>, NEW then \in Thens, NEW c \in Client,
             c.dev = client.dev, c.active = client.active,
             client' = Sends(c, plan, then),
             UNCHANGED <<CDC_DEV_HDL, CDC_PORT_COUNT>>,
             Stage \in Serving <=> then \in Serving, client.dev # 0,
             then = "alloc" => c.port = client.port /\ Stage = "claim",
             then \in {"recover_out", "resubmit"} => c.port < c.active
      PROVE  client' \in Client /\ StageInv'
  <2>1. /\ client' \in Client /\ client'.at = "ctrl" /\ client'.plan = plan
        /\ client'.then = then /\ client'.dev = c.dev /\ client'.port = c.port
        /\ client'.active = c.active
    <3>1. client' = Sends(c, plan, then)
      BY <1>8
    <3>2. c \in Client /\ plan \in Seq(Request) /\ then \in Thens
      BY <1>8
    <3>3. /\ Sends(c, plan, then) \in Client
          /\ Sends(c, plan, then).at = "ctrl" /\ Sends(c, plan, then).plan = plan
          /\ Sends(c, plan, then).then = then /\ Sends(c, plan, then).dev = c.dev
          /\ Sends(c, plan, then).port = c.port /\ Sends(c, plan, then).active = c.active
      BY <3>2 DEF Sends, Client, Thens
    <3> QED BY <3>1, <3>3
  <2>2. Stage' = then /\ eps' = eps
    BY <1>8, <2>1 DEF Stage, eps
  <2> QED BY <1>8, <1>a, <2>1, <2>2 DEF StageInv, Thens
<1>9. CASE claim
  <2>1. UNCHANGED <<CDC_DEV_HDL, CDC_PORT_COUNT>> /\ client.at = "claim" /\ Stage = "claim"
    BY <1>9 DEF claim, Unchanged_but_client, Stage
  <2>2. CASE client' = Sends([client EXCEPT !.claimed = @ \cup {client.port}],
                             chip_init(Opened.chip), "alloc")
    <3> DEFINE c == [client EXCEPT !.claimed = @ \cup {client.port}]
    <3>1. client.port \in Port
      <4>1. /\ client.port \in Nat /\ MAX_USB_PORTS \in Nat
            /\ client.port < Len(eps) /\ Len(eps) \in 1 .. MAX_USB_PORTS
        BY <1>6, <1>a, <2>1
      <4> HIDE DEF eps
      <4> QED BY <4>1 DEF Port
    <3>2. /\ c \in Client /\ c.dev = client.dev /\ c.port = client.port
          /\ c.active = client.active
      BY <1>a, <3>1 DEF Client
    <3>3. client' = Sends(c, chip_init(Opened.chip), "alloc")
      BY <2>2
    <3>4. chip_init(Opened.chip) \in Seq(Request) /\ chip_init(Opened.chip) # <<>>
      BY ChipPlans
    <3> HIDE DEF c
    <3> QED BY <1>6, <1>8, <1>a, <2>1, <3>2, <3>3, <3>4 DEF Thens
  <2>3. CASE client' = NextPort(client)
    BY <1>7, <1>a, <2>1, <2>3
  <2> QED BY <1>9, <1>a, <2>2, <2>3 DEF claim
<1>10. CASE alloc
  <2>1. UNCHANGED <<CDC_DEV_HDL, CDC_PORT_COUNT>> /\ client.at = "alloc"
    BY <1>10 DEF alloc, hostvars_but_client
  <2>2. CASE client' = NextPort(client)
    BY <1>7, <1>a, <2>1, <2>2
  <2>3. CASE client' = NextPort([client EXCEPT !.active = @ + 1])
    <3> DEFINE c == [client EXCEPT !.active = @ + 1]
    <3>1. client.active + 1 \in 0 .. MAX_USB_PORTS
      BY <1>6, <1>a, <2>1
    <3>2. /\ c \in Client /\ c.dev = client.dev /\ c.port = client.port
          /\ c.active = client.active + 1 /\ c.at = "alloc"
      BY <1>a, <2>1, <3>1 DEF Client
    <3> HIDE DEF c
    <3> QED BY <1>7, <1>a, <2>1, <2>3, <3>2 DEF c
  <2> QED BY <1>10, <1>a, <2>2, <2>3 DEF alloc
<1>11. CASE publish
  <2>1. /\ client' = [client EXCEPT !.at = "serve"]
        /\ CDC_PORT_COUNT' = client.active /\ CDC_DEV_HDL' = client.dev
        /\ client.at = "publish"
    BY <1>11 DEF publish
  <2>2. /\ client' \in Client /\ client'.at = "serve" /\ client'.dev = client.dev
        /\ client'.active = client.active
    BY <1>a, <2>1 DEF Client
  <2>3. Stage' = "serve" /\ client.dev # 0
    BY <2>1, <2>2 DEF Stage, StageInv
  <2> QED BY <1>a, <2>1, <2>2, <2>3 DEF StageInv
<1>12. CASE give_up
  <2>1. /\ client' = Idle /\ UNCHANGED <<CDC_DEV_HDL, CDC_PORT_COUNT>>
        /\ client.at = "publish"
    BY <1>12 DEF give_up, Unchanged_but_client
  <2> QED BY <1>a, <2>1, IdleOf DEF StageInv, Stage, Idle
<1>13. ASSUME client.at \in Serving
       PROVE  client.dev # 0 /\ CDC_DEV_HDL = client.dev /\ Stage = client.at
  BY <1>13 DEF StageInv, Stage
<1>14. ASSUME client.at \in Serving, client' \in Client, client'.dev = client.dev,
              client'.active = client.active, client'.at \in {"serve", "recover"},
              UNCHANGED <<CDC_DEV_HDL, CDC_PORT_COUNT>>
       PROVE  client' \in Client /\ StageInv'
  <2>1. Stage' = client'.at
    BY <1>14 DEF Stage
  <2> QED BY <1>13, <1>14, <2>1 DEF StageInv
<1>15. CASE retry
  <2>1. UNCHANGED <<CDC_DEV_HDL, CDC_PORT_COUNT>> /\ client.at = "serve"
    BY <1>15 DEF retry, Unchanged_but_client
  <2>2. CASE client' = Sends([client EXCEPT !.port = 0], cdc_acm_init, "reinit")
    <3> DEFINE c == [client EXCEPT !.port = 0]
    <3>1. c \in Client /\ c.dev = client.dev /\ c.active = client.active
      BY <1>a DEF Client
    <3>2. cdc_acm_init \in Seq(Request) /\ cdc_acm_init # <<>>
      BY ChipPlans
    <3>3. client' = Sends(c, cdc_acm_init, "reinit")
      BY <2>2
    <3> HIDE DEF c
    <3> QED BY <1>8, <1>13, <1>a, <2>1, <3>1, <3>2, <3>3 DEF Thens
  <2>3. CASE client' = [client EXCEPT !.at = "recover", !.port = 0]
    <3>1. /\ client' \in Client /\ client'.dev = client.dev
          /\ client'.active = client.active /\ client'.at = "recover"
      BY <1>a, <2>3 DEF Client
    <3> QED BY <1>14, <1>a, <2>1, <3>1
  <2> QED BY <1>15, <1>a, <2>2, <2>3 DEF retry
<1>16. CASE reinit
  <2>1. UNCHANGED <<CDC_DEV_HDL, CDC_PORT_COUNT>> /\ client.at = "reinit"
    BY <1>16 DEF reinit, Unchanged_but_client
  <2>2. CASE client' = Sends(client, cdc_acm_init, "recover")
    <3>1. cdc_acm_init \in Seq(Request) /\ cdc_acm_init # <<>>
      BY ChipPlans
    <3> QED BY <1>8, <1>13, <1>a, <2>1, <2>2, <3>1 DEF Thens
  <2>3. CASE client' = [client EXCEPT !.at = "recover"]
    <3>1. /\ client' \in Client /\ client'.dev = client.dev
          /\ client'.active = client.active /\ client'.at = "recover"
      BY <1>a, <2>3 DEF Client
    <3> QED BY <1>14, <1>a, <2>1, <3>1
  <2> QED BY <1>16, <1>a, <2>2, <2>3 DEF reinit
<1>17. <<"CLEAR_FEATURE">> \in Seq(Request) /\ <<"CLEAR_FEATURE">> # <<>>
  BY DEF Request
<1>18. CASE recover_in
  <2>1. /\ UNCHANGED <<CDC_DEV_HDL, CDC_PORT_COUNT>> /\ client.at = "recover"
        /\ client.port < client.active
    BY <1>18, <1>a DEF recover_in, hostvars_but_client, Active
  <2>2. CASE client' = Sends(client, <<"CLEAR_FEATURE">>, "recover_out")
    BY <1>8, <1>13, <1>17, <1>a, <2>1, <2>2 DEF Thens
  <2>3. CASE client' = [client EXCEPT !.port = @ + 1]
    <3>1. client.port + 1 \in 0 .. MAX_USB_PORTS
      BY <1>a, <2>1
    <3>2. /\ client' \in Client /\ client'.dev = client.dev
          /\ client'.active = client.active /\ client'.at = "recover"
      BY <1>a, <2>1, <2>3, <3>1 DEF Client
    <3> QED BY <1>14, <1>a, <2>1, <3>2
  <2> QED BY <1>18, <1>a, <2>2, <2>3 DEF recover_in
<1>19. CASE recover_out
  <2>1. /\ UNCHANGED <<CDC_DEV_HDL, CDC_PORT_COUNT>> /\ client.at = "recover_out"
        /\ client' = Sends(client, <<"CLEAR_FEATURE">>, "resubmit")
    BY <1>19 DEF recover_out, hostvars_but_client
  <2>2. client.port < client.active
    BY <2>1 DEF StageInv, Stage
  <2> QED BY <1>8, <1>13, <1>17, <1>a, <2>1, <2>2 DEF Thens
<1>20. CASE recovered
  <2>1. /\ UNCHANGED <<CDC_DEV_HDL, CDC_PORT_COUNT>> /\ client.at = "recover"
        /\ client' = [client EXCEPT !.at = "serve"]
    BY <1>20 DEF recovered, Unchanged_but_client
  <2>2. /\ client' \in Client /\ client'.dev = client.dev
        /\ client'.active = client.active /\ client'.at = "serve"
    BY <1>a, <2>1 DEF Client
  <2> QED BY <1>14, <1>a, <2>1, <2>2
<1>21. CASE resubmit
  <2>1. /\ UNCHANGED <<CDC_DEV_HDL, CDC_PORT_COUNT>> /\ client.at = "resubmit"
        /\ client' = [client EXCEPT !.at = "recover", !.port = @ + 1]
    BY <1>21 DEF resubmit, hostvars_but_client
  <2>2. client.port + 1 \in 0 .. MAX_USB_PORTS
    BY <1>a, <2>1 DEF StageInv, Stage
  <2>3. /\ client' \in Client /\ client'.dev = client.dev
        /\ client'.active = client.active /\ client'.at = "recover"
    BY <1>a, <2>1, <2>2 DEF Client
  <2> QED BY <1>14, <1>a, <2>1, <2>3
<1>22. ASSUME NEW at \in {"invalidate", "free"}, client.dev # 0,
              client' = [client EXCEPT !.at = at], CDC_DEV_HDL' = 0,
              CDC_PORT_COUNT' \in {0, CDC_PORT_COUNT}
       PROVE  /\ client' \in Client /\ StageInv'
              /\ CDC_DEV_HDL' \in 0 .. MaxPlugs /\ CDC_PORT_COUNT' \in 0 .. MAX_USB_PORTS
  <2>1. client' \in Client /\ client'.dev = client.dev /\ client'.at = at
    BY <1>a, <1>22 DEF Client
  <2>2. Stage' = at
    BY <2>1 DEF Stage
  <2> QED BY <1>22, <1>a, <2>1, <2>2 DEF StageInv
<1>23. CASE unpublish
  BY <1>13, <1>22, <1>23 DEF unpublish
<1>24. CASE invalidate
  <2>1. /\ client.at = "invalidate" /\ UNCHANGED <<CDC_DEV_HDL, CDC_PORT_COUNT>>
        /\ client' = [client EXCEPT !.at = "free"]
    BY <1>24 DEF invalidate, hostvars_but_client
  <2>2. client.dev # 0 /\ CDC_DEV_HDL = 0
    BY <2>1 DEF StageInv, Stage
  <2> QED BY <1>22, <2>1, <2>2
<1>25. CASE free
  <2>1. /\ client' = Idle /\ UNCHANGED <<CDC_DEV_HDL, CDC_PORT_COUNT>>
        /\ client.at = "free"
    BY <1>25 DEF free
  <2> QED BY <1>a, <2>1, IdleOf DEF StageInv, Stage, Idle
<1> QED
  BY <1>2, <1>3, <1>4, <1>5, <1>9, <1>10, <1>11, <1>12, <1>15, <1>16, <1>18, <1>19, <1>20,
     <1>21, <1>23, <1>24, <1>25, <1>a
  DEF client_next, ctrl_submit, submit_control, ctrl_answered, ctrl_timeout, scan,
      open_device, claim, alloc, give_up, retry, reinit, recover_in, recover_out, recovered,
      resubmit, invalidate, free, hostvars_but_client, Unchanged_but_client

-------------------------------------------------------------------------------
(* Types.                                                                  *)

LEMMA TypeInit == Init => TypeOK
<1> SUFFICES ASSUME Init PROVE TypeOK
  OBVIOUS
<1>a. /\ MaxPlugs \in Nat /\ MAX_USB_PORTS \in Nat \ {0} /\ 0 \in 0 .. MaxPlugs
      /\ 0 \in 0 .. MAX_USB_PORTS /\ 0 \in Port
  BY UsbAssumption DEF Port
<1>1. client \in Client
  <2>1. /\ Idle \in Client /\ client = [Idle EXCEPT !.at = "scan"]
    BY IdleOf DEF Init
  <2> QED BY <2>1 DEF Client
<1>2. events \in Seq({"NEW", "GONE"} \X Plug)
  BY EmptySeq DEF Init
<1>3. ctrl \in Ctrl /\ bulk_out \in [Port -> Out] /\ writer \in [Writer -> Write]
  BY <1>a DEF Init, Ctrl, Out, NoOut, Write, Away
<1>4. hist \in Hist /\ bus \in Bus
  BY <1>a DEF Init, Hist, Bus
<1> QED BY <1>a, <1>1, <1>2, <1>3, <1>4 DEF Init, TypeOK

\* All of TypeOK but what ClientStep has.
TypeRest ==
  /\ bus \in Bus
  /\ events \in Seq({"NEW", "GONE"} \X Plug)
  /\ NEW_DEV_ADDR \in 0 .. MaxPlugs
  /\ DEV_GONE \in BOOLEAN
  /\ ctrl \in Ctrl
  /\ bulk_in \in [Port -> {"none", "idle", "flying", "data", "error", "canceled"}]
  /\ NEEDS_RESUBMIT \in [Port -> BOOLEAN]
  /\ bulk_out \in [Port -> Out]
  /\ writer \in [Writer -> Write]
  /\ hist \in Hist

LEMMA OutShapes ==
  ASSUME TypeOK, NEW p \in Port
  PROVE  /\ bulk_out[p] \in Out
         /\ \A at \in {"none", "idle", "flying", "done"} :
              /\ [bulk_out[p] EXCEPT !.at = at] \in Out
              /\ [bulk_out[p] EXCEPT !.at = at, !.busy = FALSE] \in Out
              /\ \A x \in 0 .. MaxPlugs : [bulk_out[p] EXCEPT !.xfer = x, !.at = at] \in Out
         /\ \A busy \in BOOLEAN : [bulk_out[p] EXCEPT !.busy = busy] \in Out
BY DEF TypeOK, Out

LEMMA HistCleared ==
  ASSUME hist \in Hist
  PROVE  [hist EXCEPT !.dropped = {}, !.unserved = 0] \in Hist
<1>1. 0 \in 0 .. MaxPlugs
  BY UsbAssumption
<1> QED BY <1>1 DEF Hist

LEMMA TypeBus ==
  ASSUME TypeOK, bus_next \/ client_event_cb \/ callbacks
  PROVE  TypeRest'
<1> USE DEF TypeRest, TypeOK, hostvars, hostvars_but_client, invars
<1>a. /\ MaxPlugs \in Nat /\ MAX_USB_PORTS \in Nat \ {0}
      /\ bus.now \in 0 .. MaxPlugs /\ bus.plugs \in 0 .. MaxPlugs
  BY UsbAssumption DEF Bus
<1>1. CASE PlugIn
  <2>1. bus.plugs + 1 \in 0 .. MaxPlugs
    BY <1>1, <1>a DEF PlugIn
  <2>2. bus' \in Bus
    BY <1>1, <2>1 DEF PlugIn, Bus
  <2> QED BY <1>1, <2>2 DEF PlugIn
<1>e. CASE Enumerate
  <2>1. bus' \in Bus
    BY <1>e DEF Enumerate, Bus
  <2>2. <<"NEW", bus.now>> \in {"NEW", "GONE"} \X Plug
    BY <1>e, <1>a DEF Enumerate, Plug
  <2>3. events' \in Seq({"NEW", "GONE"} \X Plug)
    BY <1>e, <2>2, AppendProperties DEF Enumerate
  <2> QED BY <1>e, <2>1, <2>3 DEF Enumerate
<1>2. CASE Unplug
  <2>1. bus' \in Bus
    <3>1. bus' = [bus EXCEPT !.now = 0]
      BY <1>2 DEF Unplug
    <3> QED BY <1>a, <3>1 DEF Bus
  <2>2. events' \in Seq({"NEW", "GONE"} \X Plug)
    <3>1. <<"GONE", bus.now>> \in {"NEW", "GONE"} \X Plug
      BY <1>2, <1>a DEF Unplug, Plug
    <3>2. events' \in {events, Append(events, <<"GONE", bus.now>>)}
      BY <1>2 DEF Unplug
    <3>3. Append(events, <<"GONE", bus.now>>) \in Seq({"NEW", "GONE"} \X Plug)
      BY <3>1, AppendProperties
    <3> QED BY <3>2, <3>3
  <2>3. ctrl' \in Ctrl
    BY <1>2 DEF Unplug, Ctrl
  <2>4. bulk_in' \in [Port -> {"none", "idle", "flying", "data", "error", "canceled"}]
    BY <1>2 DEF Unplug
  <2>5. bulk_out' \in [Port -> Out]
    BY <1>2, OutShapes DEF Unplug
  <2>6. hist' \in Hist
    <3>1. hist' = [hist EXCEPT !.dropped = {}, !.unserved = 0]
      BY <1>2 DEF Unplug
    <3> QED BY <3>1, HistCleared
  <2> QED BY <1>2, <2>1, <2>2, <2>3, <2>4, <2>5, <2>6 DEF Unplug
<1>3. CASE AnswerCtrl
  <2>1. ctrl' \in Ctrl
    BY <1>3 DEF AnswerCtrl, Ctrl
  <2>2. hist' \in Hist
    BY <1>3 DEF AnswerCtrl, Hist
  <2> QED BY <1>3, <2>1, <2>2 DEF AnswerCtrl
<1>4. CASE \E p \in Port : CompleteIn(p)
  BY <1>4 DEF CompleteIn
<1>5. CASE \E p \in Port : CompleteOut(p)
  <2>1. bulk_out' \in [Port -> Out]
    BY <1>5, OutShapes, ZenonT(30) DEF CompleteOut
  <2> QED BY <1>5, <2>1 DEF CompleteOut
<1>6. CASE client_event_cb
  <2>1. /\ Head(events) \in {"NEW", "GONE"} \X Plug
        /\ events' \in Seq({"NEW", "GONE"} \X Plug)
    BY <1>6, HeadTailProperties DEF client_event_cb
  <2>2. NEW_DEV_ADDR' \in 0 .. MaxPlugs /\ DEV_GONE' \in BOOLEAN
    BY <1>6, <1>a, <2>1 DEF client_event_cb, Plug
  <2> QED BY <1>6, <2>1, <2>2 DEF client_event_cb
<1>7. CASE ctrl_xfer_cb
  <2>1. ctrl' \in Ctrl
    BY <1>7 DEF ctrl_xfer_cb, Ctrl
  <2> QED BY <1>7, <2>1 DEF ctrl_xfer_cb
<1>8. CASE \E p \in Port : bulk_in_cb(p)
  <2>1. PICK p \in Port : bulk_in_cb(p)
    BY <1>8
  <2>2. bulk_in' \in [Port -> {"none", "idle", "flying", "data", "error", "canceled"}]
    BY <2>1 DEF bulk_in_cb, Resubmits
  <2>3. NEEDS_RESUBMIT' \in [Port -> BOOLEAN]
    BY <2>1 DEF bulk_in_cb
  <2>4. hist' \in Hist
    BY <2>1 DEF bulk_in_cb, Resubmits, Hist
  <2> QED BY <2>1, <2>2, <2>3, <2>4 DEF bulk_in_cb
<1>9. CASE \E p \in Port : bulk_out_cb(p)
  <2>1. bulk_out' \in [Port -> Out]
    <3>1. PICK p \in Port : bulk_out_cb(p)
      BY <1>9
    <3>2. \A at \in {"none", "idle", "flying", "done"} :
            [bulk_out[p] EXCEPT !.at = at, !.busy = FALSE] \in Out
      BY OutShapes
    <3>3. bulk_out' = [bulk_out EXCEPT ![p] = [bulk_out[p] EXCEPT !.at = "idle", !.busy = FALSE]]
      BY <3>1 DEF bulk_out_cb
    <3> QED BY <3>2, <3>3
  <2> QED BY <1>9, <2>1 DEF bulk_out_cb
<1> QED
  BY <1>1, <1>e, <1>2, <1>3, <1>4, <1>5, <1>6, <1>7, <1>8, <1>9 DEF bus_next, callbacks

LEMMA TypeClient ==
  ASSUME TypeOK, StageInv, client_next
  PROVE  TypeRest'
<1> USE DEF TypeRest, TypeOK, hostvars, hostvars_but_client, invars, Unchanged_but_client
<1>a. /\ MaxPlugs \in Nat /\ MAX_USB_PORTS \in Nat \ {0} /\ 0 \in 0 .. MaxPlugs
      /\ bus.now \in 0 .. MaxPlugs /\ client.dev \in 0 .. MaxPlugs
      /\ client.plan \in Seq(Request)
  BY UsbAssumption DEF Client, Bus
<1>b. client.active \in 0 .. MAX_USB_PORTS /\ MAX_USB_PORTS \in Nat
  BY UsbAssumption DEF Client
<1>c. ASSUME NEW C, close(C), client.dev # 0 PROVE bus' \in Bus
  <2>1. client.dev \in Plug
    BY <1>a, <1>c DEF Plug
  <2> QED BY <1>c, <2>1 DEF close, Bus
<1>1. CASE ctrl_submit
  <2>1. client.plan[1] \in Request
    <3>1. client.plan # <<>> /\ Len(client.plan) \in Nat \ {0}
      BY <1>1, <1>a, EmptySeq DEF ctrl_submit, submit_control, StageInv, Asking
    <3> QED BY <1>a, <3>1, ElementOfSeq
  <2>2. ctrl' \in Ctrl
    BY <1>1, <2>1 DEF ctrl_submit, submit_control, Ctrl
  <2> QED BY <1>1, <2>2 DEF ctrl_submit, submit_control
<1>2. CASE ctrl_answered \/ ctrl_timeout
  BY <1>2 DEF ctrl_answered, ctrl_timeout
<1>3. CASE scan
  BY <1>3, <1>a DEF scan
<1>4. CASE open_device
  <2>1. hist' \in Hist
    BY <1>4 DEF open_device, Hist
  <2> QED BY <1>4, <1>a, <2>1 DEF open_device
<1>5. CASE claim \/ retry
  <2>1. hist' \in Hist
    BY <1>5 DEF claim, retry, Hist
  <2> QED BY <1>5, <2>1 DEF claim, retry
<1>6. CASE alloc
  <2>1. bulk_in' \in [Port -> {"none", "idle", "flying", "data", "error", "canceled"}]
    BY <1>6 DEF alloc
  <2>2. bulk_out' \in [Port -> Out]
    <3> DEFINE p == client.port
    <3>1. CASE p \in Port
      <4>1. \A at \in {"none", "idle", "flying", "done"}, x \in 0 .. MaxPlugs :
              [bulk_out[p] EXCEPT !.xfer = x, !.at = at] \in Out
        BY <3>1, OutShapes
      <4>2. \/ bulk_out' = bulk_out
            \/ bulk_out' = [bulk_out EXCEPT ![p] =
                               [bulk_out[p] EXCEPT !.xfer = client.dev, !.at = "idle"]]
        BY <1>6, <3>1 DEF alloc
      <4> QED BY <1>a, <4>1, <4>2, ZenonT(30)
    <3>2. CASE p \notin Port
      BY <1>6, <3>2 DEF alloc
    <3> QED BY <3>1, <3>2
  <2>3. hist' \in Hist
    BY <1>6 DEF alloc, Hist
  <2> QED BY <1>6, <2>1, <2>2, <2>3 DEF alloc
<1>7. CASE publish
  <2>1. bulk_in' \in [Port -> {"none", "idle", "flying", "data", "error", "canceled"}]
    BY <1>7 DEF publish
  <2>2. hist' \in Hist
    <3>1. Active \subseteq Port
      BY <1>b DEF Active, Port
    <3> QED BY <1>7, <3>1 DEF publish, Hist
  <2> QED BY <1>7, <2>1, <2>2 DEF publish
<1>8. CASE give_up
  <2>1. hist' \in Hist
    BY <1>8, <1>a DEF give_up, Hist
  <2>2. bus' \in Bus
    BY <1>8, <1>c DEF give_up, StageInv, Stage, Asking
  <2> QED BY <1>8, <2>1, <2>2 DEF give_up
<1>9. CASE reinit \/ recovered \/ unpublish
  <2>1. hist' \in Hist
    BY <1>9 DEF reinit, recovered, unpublish, Hist
  <2> QED BY <1>9, <2>1 DEF reinit, recovered, unpublish
<1>10. CASE recover_in
  BY <1>10 DEF recover_in
<1>11. CASE recover_out
  <2>1. bulk_out' \in [Port -> Out]
    <3> DEFINE p == client.port
    <3>1. bulk_out' = [bulk_out EXCEPT ![p].at = "done"] \/ bulk_out' = bulk_out
      <4>1. CASE bulk_out[p].at = "flying"
        BY <1>11, <4>1 DEF recover_out
      <4>2. CASE bulk_out[p].at # "flying"
        <5>1. bulk_out' = [bulk_out EXCEPT ![p].at = bulk_out[p].at]
          BY <1>11, <4>2 DEF recover_out
        <5>2. CASE p \in Port
          <6>1. [bulk_out[p] EXCEPT !.at = bulk_out[p].at] = bulk_out[p]
            BY <5>2 DEF Out
          <6> QED BY <5>1, <6>1
        <5>3. CASE p \notin Port
          BY <5>1, <5>3
        <5> QED BY <5>2, <5>3
      <4> QED BY <4>1, <4>2
    <3> HIDE DEF p
    <3> QED BY <3>1, OutShapes
  <2> QED BY <1>11, <2>1 DEF recover_out
<1>12. CASE resubmit
  BY <1>12 DEF resubmit
<1>13. CASE invalidate
  <2>1. bulk_out' \in [Port -> Out]
    BY <1>13, <1>a, ZenonT(30) DEF invalidate, Out
  <2>2. hist' \in Hist
    BY <1>13 DEF invalidate, Hist
  <2>3. NEEDS_RESUBMIT' \in [Port -> BOOLEAN]
    BY <1>13 DEF invalidate
  <2> QED BY <1>13, <2>1, <2>2, <2>3 DEF invalidate
<1>14. CASE free
  <2>1. bulk_out' \in [Port -> Out]
    BY <1>14, ZenonT(30) DEF free, Out
  <2>2. bus' \in Bus
    BY <1>14, <1>c DEF free, StageInv, Stage, Asking
  <2> QED BY <1>14, <2>1, <2>2 DEF free
<1> QED
  BY <1>1, <1>2, <1>3, <1>4, <1>5, <1>6, <1>7, <1>8, <1>9, <1>10, <1>11, <1>12, <1>13,
     <1>14 DEF client_next

\* What a writer's step does: nothing to the port, or it takes the busy flag,
\* goes on with it, gives it back, or leaves it to the transfer it submits.
Resting(w)    == ~Claims(w) /\ ~Claims(w)' /\ bulk_out' = bulk_out
Taking(w, p)  == /\ ~Claims(w) /\ writer'[w].at = "fill" /\ ~bulk_out[p].busy
                 /\ bulk_out' = [bulk_out EXCEPT ![p].busy = TRUE]
Keeping(w, p) == /\ Claims(w) /\ Claims(w)'
                 /\ bulk_out' = bulk_out \/ bulk_out' = [bulk_out EXCEPT ![p].busy = TRUE]
Giving(w, p)  == /\ Claims(w) /\ ~Claims(w)'
                 /\ bulk_out' = [bulk_out EXCEPT ![p].busy = FALSE]
Flying(w, p)  == /\ Claims(w) /\ ~Claims(w)'
                 /\ writer[w].at \in {"submit", "again"} /\ Holds(w) /\ bus.now = writer[w].hdl
                 /\ bulk_out[p].at = "idle"
                 /\ bulk_out' = [bulk_out EXCEPT ![p].at = "flying"]

LEMMA WriteStep ==
  ASSUME TypeOK, NEW w \in Writer, write_begin(w) \/ write(w)
  PROVE  /\ UNCHANGED <<bus, events, NEW_DEV_ADDR, DEV_GONE, CDC_DEV_HDL, CDC_PORT_COUNT,
                        client, ctrl, bulk_in, NEEDS_RESUBMIT, hist>>
         /\ writer' = [writer EXCEPT ![w] = writer'[w]]
         /\ writer'[w] \in Write
         /\ Claims(w)' => writer'[w].port = writer[w].port
         /\ writer'[w].at \in {"submit", "again"} =>
              \/ writer'[w].xfer # 0
              \/ writer'[w].xfer = writer[w].xfer /\ writer[w].at = "submit"
         /\ writer'[w].hdl \in {0, CDC_DEV_HDL, writer[w].hdl}
         /\ LET p == writer[w].port
            IN  /\ p \in Port
                /\ \/ Resting(w) \/ Taking(w, p) \/ Keeping(w, p) \/ Giving(w, p)
                   \/ Flying(w, p)
<1> DEFINE p == writer[w].port
<1>a. /\ 0 \in 0 .. MaxPlugs /\ 0 \in Port /\ Target \subseteq Port
      /\ p \in Port /\ CDC_DEV_HDL \in 0 .. MaxPlugs
      /\ writer \in [Writer -> Write] /\ writer[w] \in Write
      /\ bulk_out[p].xfer \in 0 .. MaxPlugs
  <2>1. writer \in [Writer -> Write] /\ bulk_out \in [Port -> Out] /\ CDC_DEV_HDL \in 0 .. MaxPlugs
    BY DEF TypeOK
  <2>2. writer[w] \in Write
    BY <2>1
  <2>3. p \in Port
    BY <2>2 DEF Write
  <2>4. bulk_out[p].xfer \in 0 .. MaxPlugs
    BY <2>1, <2>3 DEF Out
  <2>5. 0 \in 0 .. MaxPlugs /\ 0 \in Port /\ Target \subseteq Port
    BY UsbAssumption DEF Port
  <2> QED BY <2>1, <2>2, <2>3, <2>4, <2>5
<1> USE DEF hostside, hostvars, invars, Claims
<1>0. ASSUME NEW r \in Write, writer' = [writer EXCEPT ![w] = r]
      PROVE  writer'[w] = r /\ writer' = [writer EXCEPT ![w] = writer'[w]]
  BY <1>0, <1>a
<1>b. [writer[w] EXCEPT !.at = "check", !.hdl = 0, !.xfer = 0] \in Write
  BY <1>a DEF Write
<1>c. ASSUME NEW at \in {"wait", "claim", "fill", "again"}
      PROVE  [writer[w] EXCEPT !.at = at] \in Write
  BY <1>a DEF Write
<1>d. Away \in Write
  BY <1>a DEF Away, Write
<1>e. ASSUME Again(w)
      PROVE  /\ writer' = [writer EXCEPT ![w] = writer'[w]]
             /\ writer'[w] \in Write
             /\ writer'[w].at = "check" /\ writer'[w].hdl = 0
  <2>1. writer' = [writer EXCEPT ![w] = [writer[w] EXCEPT !.at = "check", !.hdl = 0, !.xfer = 0]]
    BY <1>e, <1>a DEF Again
  <2>2. writer'[w] = [writer[w] EXCEPT !.at = "check", !.hdl = 0, !.xfer = 0]
    BY <1>0, <1>b, <2>1
  <2> QED BY <1>0, <1>a, <1>b, <2>1, <2>2 DEF Write
<1>f. ASSUME NEW at \in {"wait", "claim", "fill", "again"}, At(w, at)
      PROVE  /\ writer' = [writer EXCEPT ![w] = writer'[w]]
             /\ writer'[w] \in Write
             /\ writer'[w].at = at /\ writer'[w].hdl = writer[w].hdl
             /\ writer'[w].port = writer[w].port
             /\ writer'[w].xfer = writer[w].xfer
  <2>1. writer' = [writer EXCEPT ![w] = [writer[w] EXCEPT !.at = at]]
    BY <1>f, <1>a DEF At
  <2>2. writer'[w] = [writer[w] EXCEPT !.at = at]
    BY <1>0, <1>c, <2>1
  <2> QED BY <1>0, <1>a, <1>c, <2>1, <2>2 DEF Write
<1>1. CASE write_begin(w)
  <2>1. PICK q \in Target : writer' = [writer EXCEPT ![w] = [writer[w] EXCEPT !.at = "check", !.port = q]]
    BY <1>1, <1>a DEF write_begin
  <2>2. q \in Port /\ [writer[w] EXCEPT !.at = "check", !.port = q] \in Write
    BY <1>a DEF Write
  <2>3. /\ writer'[w] = [writer[w] EXCEPT !.at = "check", !.port = q]
        /\ writer' = [writer EXCEPT ![w] = writer'[w]]
    BY <1>0, <2>1, <2>2
  <2>4. writer'[w].at = "check" /\ writer'[w].hdl = writer[w].hdl
    BY <1>a, <2>3 DEF Write
  <2> QED BY <1>1, <1>a, <2>2, <2>3, <2>4 DEF write_begin, Resting
<1>2. CASE write_check(w)
  <2> DEFINE r == [writer[w] EXCEPT !.hdl = CDC_DEV_HDL, !.at = "wait"]
  <2>1. r \in Write /\ r.at = "wait" /\ r.hdl = CDC_DEV_HDL
    BY <1>a DEF Write
  <2>2. Away.at = "idle" /\ Away.hdl = 0
    BY DEF Away
  <2>3. \E n \in {Away, r} : writer' = [writer EXCEPT ![w] = n]
    BY <1>2, <1>a DEF write_check
  <2> HIDE DEF r
  <2>4. writer'[w] \in {Away, r} /\ writer' = [writer EXCEPT ![w] = writer'[w]]
    BY <1>0, <1>d, <2>1, <2>3
  <2> QED BY <1>2, <1>a, <1>d, <2>1, <2>2, <2>4 DEF write_check, Resting
<1>3. CASE write_wait(w)
  <2> DEFINE r == [writer[w] EXCEPT !.at = "claim"]
  <2>1. r \in Write /\ r.at = "claim" /\ r.hdl = writer[w].hdl
    BY <1>a DEF Write
  <2>2. Away.at = "idle" /\ Away.hdl = 0
    BY DEF Away
  <2>3. \E n \in {Away, r} : writer' = [writer EXCEPT ![w] = n]
    BY <1>3, <1>a DEF write_wait
  <2> HIDE DEF r
  <2>4. writer'[w] \in {Away, r} /\ writer' = [writer EXCEPT ![w] = writer'[w]]
    BY <1>0, <1>d, <2>1, <2>3
  <2> QED BY <1>3, <1>a, <1>d, <2>1, <2>2, <2>4 DEF write_wait, Resting
<1>9. CASE submit_claim(w)
  <2>1. CASE Again(w) /\ UNCHANGED bulk_out
    BY <1>9, <1>a, <1>e, <2>1 DEF submit_claim, Resting
  <2>2. CASE At(w, "fill") /\ ~bulk_out[p].busy /\ bulk_out' = [bulk_out EXCEPT ![p].busy = TRUE]
    <3>1. /\ writer' = [writer EXCEPT ![w] = writer'[w]] /\ writer'[w] \in Write
          /\ writer'[w].at = "fill" /\ writer'[w].hdl = writer[w].hdl
          /\ writer'[w].port = writer[w].port
      BY <1>f, <2>2
    <3> QED BY <1>9, <1>a, <2>2, <3>1 DEF submit_claim, Taking
  <2> QED BY <1>9, <2>1, <2>2 DEF submit_claim
<1>4. CASE submit_transfer(w)
  <2>1. CASE bulk_out[p].xfer = 0
    <3>1. Again(w) /\ bulk_out' = [bulk_out EXCEPT ![p].busy = FALSE]
      BY <1>4, <2>1 DEF submit_transfer
    <3> QED BY <1>4, <1>a, <1>e, <3>1 DEF submit_transfer, Giving
  <2>2. CASE bulk_out[p].xfer # 0
    <3> DEFINE r == [writer[w] EXCEPT !.xfer = bulk_out[p].xfer, !.at = "submit"]
    <3>1. /\ r \in Write /\ r.at = "submit" /\ r.hdl = writer[w].hdl
          /\ r.port = writer[w].port /\ r.xfer # 0
      BY <1>a, <2>2 DEF Write
    <3>2. /\ writer' = [writer EXCEPT ![w] = r]
          /\ bulk_out' = [bulk_out EXCEPT ![p].busy = TRUE]
      BY <1>4, <1>a, <2>2 DEF submit_transfer
    <3> HIDE DEF r
    <3>3. writer'[w] = r /\ writer' = [writer EXCEPT ![w] = writer'[w]]
      BY <1>0, <3>1, <3>2
    <3>4. Keeping(w, p)
      BY <1>4, <1>a, <3>1, <3>2, <3>3 DEF submit_transfer, Keeping
    <3>5. UNCHANGED <<hostside, hist>>
      BY <1>4 DEF submit_transfer
    <3>6. UNCHANGED <<bus, events, NEW_DEV_ADDR, DEV_GONE, CDC_DEV_HDL, CDC_PORT_COUNT,
                      client, ctrl, bulk_in, NEEDS_RESUBMIT, hist>>
      BY <3>5
    <3> QED BY <1>a, <3>1, <3>3, <3>4, <3>6
  <2> QED BY <2>1, <2>2
<1>5. ASSUME Submitted(w)
      PROVE  /\ writer' = [writer EXCEPT ![w] = writer'[w]]
             /\ writer'[w] \in Write
             /\ writer'[w].at \in {"idle", "check"} /\ writer'[w].hdl = 0
  <2> DEFINE r == [Away EXCEPT !.at = "check", !.port = writer[w].port]
  <2>1. r \in Write /\ r.at = "check" /\ r.hdl = 0
    BY <1>a, <1>d DEF Write, Away
  <2>2. Away.at = "idle" /\ Away.hdl = 0
    BY DEF Away
  <2>3. \E n \in {Away, r} : writer' = [writer EXCEPT ![w] = n]
    BY <1>5 DEF Submitted
  <2> HIDE DEF r
  <2> QED BY <1>0, <1>a, <1>d, <2>1, <2>2, <2>3
<1>6. CASE submit_chunk(w)
  <2>1. CASE Submitted(w) /\ bulk_out' = [bulk_out EXCEPT ![p].at = "flying"]
             /\ bus.now = writer[w].hdl /\ bulk_out[p].at = "idle"
    BY <1>5, <1>6, <1>a, <2>1 DEF submit_chunk, Flying
  <2>2. CASE At(w, "again") /\ bulk_out' = bulk_out
    BY <1>f, <1>6, <1>a, <2>2 DEF submit_chunk, Keeping
  <2> QED BY <1>6, <2>1, <2>2 DEF submit_chunk
<1>7. CASE submit_again(w)
  <2>1. CASE Submitted(w) /\ bulk_out' = [bulk_out EXCEPT ![p].at = "flying"]
             /\ bus.now = writer[w].hdl /\ bulk_out[p].at = "idle"
    BY <1>5, <1>7, <1>a, <2>1 DEF submit_again, Flying
  <2>2. CASE Again(w) /\ bulk_out' = [bulk_out EXCEPT ![p].busy = FALSE]
    BY <1>e, <1>7, <1>a, <2>2 DEF submit_again, Giving
  <2> QED BY <1>7, <2>1, <2>2 DEF submit_again
<1>8. CASE submit_freed(w)
  BY <1>e, <1>8, <1>a DEF submit_freed, Giving
<1> QED BY <1>1, <1>2, <1>3, <1>4, <1>6, <1>7, <1>8, <1>9 DEF write

LEMMA TypeWrite ==
  ASSUME TypeOK, NEW w \in Writer, write_begin(w) \/ write(w)
  PROVE  TypeRest'
<1>1. /\ UNCHANGED <<bus, events, NEW_DEV_ADDR, DEV_GONE, ctrl, bulk_in, NEEDS_RESUBMIT, hist>>
      /\ writer' = [writer EXCEPT ![w] = writer'[w]] /\ writer'[w] \in Write
  BY WriteStep
<1>2. writer' \in [Writer -> Write]
  BY <1>1 DEF TypeOK
<1>3. bulk_out' \in [Port -> Out]
  <2> DEFINE p == writer[w].port
  <2>1. p \in Port /\ bulk_out \in [Port -> Out]
    BY WriteStep DEF TypeOK
  <2>2. \/ bulk_out' = bulk_out
        \/ \E busy \in BOOLEAN : bulk_out' = [bulk_out EXCEPT ![p].busy = busy]
        \/ bulk_out' = [bulk_out EXCEPT ![p].at = "flying"]
    BY WriteStep DEF Resting, Taking, Keeping, Giving, Flying
  <2> HIDE DEF p
  <2> QED BY <2>1, <2>2, OutShapes
<1> QED BY <1>1, <1>2, <1>3 DEF TypeRest, TypeOK

LEMMA TypeAndStageStep ==
  ASSUME TypeOK, StageInv, [Next]_vars
  PROVE  TypeOK' /\ StageInv'
<1>1. TypeRest' /\ client' \in Client /\ CDC_DEV_HDL' \in 0 .. MaxPlugs
      /\ CDC_PORT_COUNT' \in 0 .. MAX_USB_PORTS /\ StageInv' => TypeOK' /\ StageInv'
  BY DEF TypeRest, TypeOK
<1>2. CASE client_next
  BY <1>1, <1>2, ClientStep, TypeClient
<1>3. ASSUME UNCHANGED <<client, CDC_DEV_HDL, CDC_PORT_COUNT>>, TypeRest'
      PROVE  TypeOK' /\ StageInv'
  <2>1. StageInv'
    BY <1>3 DEF StageInv, Stage, Asking, eps
  <2> QED BY <1>1, <1>3, <2>1 DEF TypeOK
<1>4. CASE bus_next \/ client_event_cb \/ callbacks
  BY <1>3, <1>4, NotClientKept, TypeBus
<1>5. CASE \E w \in Writer : write_begin(w) \/ write(w)
  BY <1>3, <1>5, NotClientKept, TypeWrite
<1>6. CASE UNCHANGED vars
  BY <1>3, <1>6 DEF vars, hostvars, invars, TypeRest, TypeOK
<1> QED BY <1>2, <1>4, <1>5, <1>6 DEF Next
-------------------------------------------------------------------------------
(* The steps of the client by stage: what the invariants need of them.     *)

SameDevice == client'.dev = client.dev /\ client'.active = client.active

AnswerStep == /\ Asking /\ Stage' = Stage /\ SameDevice /\ client'.port = client.port
              /\ UNCHANGED <<bus, events, NEW_DEV_ADDR, DEV_GONE, CDC_DEV_HDL, invars,
                             bulk_out, writer, hist>>
RestStep == Stage' = "idle" /\ client'.dev = 0
OpenStep == /\ Stage' = "claim" /\ client'.dev = NEW_DEV_ADDR /\ client'.active = 0
            /\ NEW_DEV_ADDR # 0 /\ bus.now = NEW_DEV_ADDR /\ bus.now \notin bus.held
SkipStep == client' = client
PortStep == SameDevice /\ Stage' \in {"alloc", "claim", "publish"}
TakeStep == /\ client'.dev = client.dev /\ client'.active = client.active + 1
            /\ Stage' \in {"claim", "publish"}
            /\ bulk_in' = [bulk_in EXCEPT ![client.port] = "idle"]
            /\ \/ bulk_out' = [bulk_out EXCEPT ![client.port] =
                                 [bulk_out[client.port] EXCEPT !.xfer = client.dev, !.at = "idle"]]
               \/ bulk_out' = bulk_out
ServeStep == SameDevice /\ Stage' = "serve"

LEMMA SentOf ==
  ASSUME NEW c \in Client, NEW plan, NEW then, client' = Sends(c, plan, then)
  PROVE  /\ client'.at = "ctrl" /\ client'.plan = plan /\ client'.then = then
         /\ client'.ok
         /\ client'.dev = c.dev /\ client'.port = c.port /\ client'.active = c.active
         /\ Stage' = then
BY DEF Sends, Client, Stage, Asking

LEMMA StagesOfSetUp ==
  ASSUME TypeOK, StageInv
  PROVE  /\ ctrl_submit \/ ctrl_answered \/ ctrl_timeout => AnswerStep
         /\ scan => Stage = "scan" /\ RestStep
         /\ open_device => Stage = "idle" /\ (OpenStep \/ SkipStep)
         /\ claim => Stage = "claim" /\ PortStep
         /\ alloc => /\ Stage = "alloc"
                     /\ \/ PortStep /\ UNCHANGED <<bulk_in, bulk_out>>
                        \/ TakeStep
         /\ publish => Stage = "publish" /\ ServeStep
         /\ give_up => Stage = "publish" /\ RestStep
<1>a. /\ client \in Client /\ client.active \in 0 .. MAX_USB_PORTS
      /\ client.port \in 0 .. MAX_USB_PORTS /\ client.dev \in 0 .. MaxPlugs
      /\ client.then \in Thens /\ MAX_USB_PORTS \in Nat \ {0}
  BY UsbAssumption DEF TypeOK, Client, Thens
<1> USE DEF SameDevice
<1>1. ASSUME NEW good \in BOOLEAN, Asking, client' = Answered(good)
      PROVE  Stage' = Stage /\ SameDevice /\ client'.port = client.port
  <2>1. /\ client'.dev = client.dev /\ client'.port = client.port
        /\ client'.active = client.active /\ client'.then = client.then
        /\ client'.at = "ctrl" \/ client'.at = client.then
    BY <1>1, AnsweredOf
  <2> QED BY <1>1, <1>a, <2>1 DEF Stage, Asking, Thens
<1>2. ASSUME ctrl_submit PROVE AnswerStep
  <2>1. /\ client.at = "ctrl" /\ Asking
        /\ UNCHANGED <<bus, events, NEW_DEV_ADDR, DEV_GONE, CDC_DEV_HDL, invars, bulk_out,
                       writer, hist>>
    BY <1>2 DEF ctrl_submit, submit_control, Asking
  <2>2. CASE client' = Answered(FALSE)
    BY <1>1, <2>1, <2>2 DEF AnswerStep
  <2>3. CASE client' = [client EXCEPT !.at = "wait"]
    <3>1. /\ client'.dev = client.dev /\ client'.port = client.port
          /\ client'.active = client.active /\ client'.then = client.then
          /\ client'.at = "wait"
      BY <1>a, <2>3 DEF Client
    <3> QED BY <2>1, <3>1 DEF Stage, Asking, AnswerStep
  <2> QED BY <1>2, <2>2, <2>3 DEF ctrl_submit, submit_control
<1>3. ASSUME ctrl_answered \/ ctrl_timeout PROVE AnswerStep
  <2>1. /\ Asking
        /\ UNCHANGED <<bus, events, NEW_DEV_ADDR, DEV_GONE, CDC_DEV_HDL, invars, bulk_out,
                       writer, hist>>
        /\ \E good \in BOOLEAN : client' = Answered(good)
    BY <1>3 DEF ctrl_answered, ctrl_timeout, Asking, hostvars_but_client
  <2> QED BY <1>1, <2>1 DEF AnswerStep
<1>4. ASSUME client' = Idle PROVE RestStep
  BY <1>4 DEF Idle, RestStep, Stage, Asking
<1>5. ASSUME scan PROVE Stage = "scan" /\ RestStep
  BY <1>4, <1>5 DEF scan, Stage, Asking
<1>6. ASSUME open_device PROVE Stage = "idle" /\ (OpenStep \/ SkipStep)
  <2>1. Stage = "idle"
    BY <1>6 DEF open_device, Stage, Asking
  <2>2. CASE client' = [client EXCEPT !.at = "claim", !.dev = NEW_DEV_ADDR, !.port = 0,
                                      !.active = 0]
              /\ bus.now = NEW_DEV_ADDR /\ bus.now \notin bus.held
    <3>1. client'.at = "claim" /\ client'.dev = NEW_DEV_ADDR /\ client'.active = 0
      BY <1>a, <2>2 DEF Client
    <3> QED BY <1>6, <2>1, <2>2, <3>1 DEF open_device, OpenStep, Stage, Asking
  <2> QED BY <1>6, <2>1, <2>2 DEF open_device, SkipStep
<1>7. ASSUME client.at \in {"claim", "alloc"}
      PROVE  Len(eps) \in 1 .. MAX_USB_PORTS /\ client.port < Len(eps)
  <2>1. client.dev \in Plug /\ client.port < Len(eps)
    BY <1>7, <1>a DEF StageInv, Stage, Asking, Plug
  <2>2. Eps[client.dev] # <<>>
    <3>1. Len(<<>>) = 0
      BY EmptySeq
    <3> QED BY <1>a, <2>1, <3>1 DEF eps
  <2> QED BY <2>1, <2>2, EpsOf DEF eps, Plug
<1>8. ASSUME NEW c \in Client, client.at \in {"claim", "alloc"}, c.port = client.port,
             client' = NextPort(c)
      PROVE  /\ client'.dev = c.dev /\ client'.active = c.active
             /\ Stage' \in {"claim", "publish"}
  <2>1. /\ client'.dev = c.dev /\ client'.active = c.active
        /\ client'.at \in {"claim", "publish"}
    BY <1>7, <1>8, NextPortOf
  <2> QED BY <2>1 DEF Stage, Asking
<1>9. ASSUME claim PROVE Stage = "claim" /\ PortStep
  <2>1. Stage = "claim" /\ client.at = "claim"
    BY <1>9 DEF claim, Stage, Asking
  <2>2. CASE client' = Sends([client EXCEPT !.claimed = @ \cup {client.port}],
                             chip_init(Opened.chip), "alloc")
    <3> DEFINE c == [client EXCEPT !.claimed = @ \cup {client.port}]
    <3>1. client.port \in Port
      BY <1>7, <1>a, <2>1 DEF Port
    <3>2. c \in Client /\ c.dev = client.dev /\ c.active = client.active
      BY <1>a, <3>1 DEF Client
    <3>3. client' = Sends(c, chip_init(Opened.chip), "alloc")
      BY <2>2
    <3> HIDE DEF c
    <3>4. Stage' = "alloc" /\ SameDevice
      BY <3>2, <3>3, SentOf
    <3> QED BY <2>1, <3>4 DEF PortStep
  <2>3. CASE client' = NextPort(client)
    BY <1>8, <1>a, <2>1, <2>3 DEF PortStep
  <2> QED BY <1>9, <2>2, <2>3 DEF claim
<1>10. ASSUME alloc
       PROVE  /\ Stage = "alloc"
              /\ (PortStep /\ UNCHANGED <<bulk_in, bulk_out>>) \/ TakeStep
  <2>1. Stage = "alloc" /\ client.at = "alloc"
    BY <1>10 DEF alloc, Stage, Asking
  <2>2. CASE client' = NextPort(client) /\ UNCHANGED <<bulk_in, bulk_out>>
    BY <1>8, <1>a, <2>1, <2>2 DEF PortStep
  <2>3. CASE /\ client' = NextPort([client EXCEPT !.active = @ + 1])
             /\ bulk_in' = [bulk_in EXCEPT ![client.port] = "idle"]
             /\ \/ bulk_out' = [bulk_out EXCEPT ![client.port].xfer = client.dev,
                                                ![client.port].at = "idle"]
                \/ bulk_out' = bulk_out
    <3> DEFINE c == [client EXCEPT !.active = @ + 1]
    <3>1. client.active + 1 \in 0 .. MAX_USB_PORTS
      BY <1>7, <1>a, <2>1 DEF StageInv, SetUp
    <3>2. c \in Client /\ c.dev = client.dev /\ c.port = client.port
          /\ c.active = client.active + 1
      BY <1>a, <3>1 DEF Client
    <3>3. client' = NextPort(c)
      BY <2>3
    <3> HIDE DEF c
    <3>4. /\ client'.dev = client.dev /\ client'.active = client.active + 1
          /\ Stage' \in {"claim", "publish"}
      BY <1>8, <2>1, <3>2, <3>3
    <3>5. client.port \in Port
      BY <1>7, <1>a, <2>1 DEF Port
    <3>6. \/ bulk_out' = [bulk_out EXCEPT ![client.port] =
                            [bulk_out[client.port] EXCEPT !.xfer = client.dev, !.at = "idle"]]
          \/ bulk_out' = bulk_out
      BY <2>3, <3>5 DEF TypeOK
    <3> QED BY <2>1, <2>3, <3>4, <3>6 DEF TakeStep
  <2> QED BY <1>10, <2>2, <2>3 DEF alloc
<1>11. ASSUME publish PROVE Stage = "publish" /\ ServeStep
  <2>1. /\ client.at = "publish" /\ client' = [client EXCEPT !.at = "serve"]
    BY <1>11 DEF publish
  <2>2. client'.at = "serve" /\ SameDevice
    BY <1>a, <2>1 DEF Client
  <2> QED BY <2>1, <2>2 DEF Stage, Asking, ServeStep
<1>12. ASSUME give_up PROVE Stage = "publish" /\ RestStep
  BY <1>4, <1>12 DEF give_up, Stage, Asking
<1> QED BY <1>2, <1>3, <1>5, <1>6, <1>9, <1>10, <1>11, <1>12

LEMMA StagesOfServing ==
  ASSUME TypeOK, StageInv
  PROVE  /\ retry => Stage = "serve" /\ SameDevice /\ Stage' \in {"reinit", "recover"}
         /\ reinit => Stage = "reinit" /\ SameDevice /\ Stage' = "recover"
         /\ recover_in => /\ Stage = "recover" /\ SameDevice
                          /\ IF NEEDS_RESUBMIT[client.port] /\ bulk_in[client.port] # "none"
                               THEN Stage' = "recover_out" /\ client'.port = client.port
                               ELSE Stage' = "recover"
         /\ recover_out => /\ Stage = "recover_out" /\ SameDevice
                           /\ Stage' = "resubmit" /\ client'.port = client.port
         /\ recovered => Stage = "recover" /\ SameDevice /\ Stage' = "serve"
         /\ resubmit => Stage = "resubmit" /\ SameDevice /\ Stage' = "recover"
         /\ unpublish => Stage = "serve" /\ SameDevice /\ Stage' = "invalidate"
         /\ invalidate => Stage = "invalidate" /\ SameDevice /\ Stage' = "free"
         /\ free => Stage = "free" /\ RestStep
<1>a. client \in Client
  BY DEF TypeOK
<1> USE DEF SameDevice, Stage, Asking
<1>1. ASSUME NEW plan, NEW then, client' = Sends(client, plan, then)
      PROVE  SameDevice /\ client'.port = client.port /\ Stage' = then
  <2> HIDE DEF Stage, Asking
  <2> QED BY <1>1, <1>a, SentOf
<1>2. ASSUME retry PROVE Stage = "serve" /\ SameDevice /\ Stage' \in {"reinit", "recover"}
  <2>1. CASE client' = Sends([client EXCEPT !.port = 0], cdc_acm_init, "reinit")
    <3> DEFINE c == [client EXCEPT !.port = 0]
    <3>1. c \in Client /\ c.dev = client.dev /\ c.active = client.active
      BY <1>a, UsbAssumption DEF Client
    <3>2. client' = Sends(c, cdc_acm_init, "reinit")
      BY <2>1
    <3> HIDE DEF c
    <3>3. Stage' = "reinit" /\ SameDevice
      <4> HIDE DEF Stage, Asking
      <4> QED BY <3>1, <3>2, SentOf
    <3> QED BY <1>2, <3>3 DEF retry
  <2>2. CASE client' = [client EXCEPT !.at = "recover", !.port = 0]
    <3>1. client'.at = "recover" /\ SameDevice
      BY <1>a, <2>2 DEF Client
    <3> QED BY <1>2, <3>1 DEF retry
  <2> QED BY <1>2, <2>1, <2>2 DEF retry
<1>3. ASSUME reinit PROVE Stage = "reinit" /\ SameDevice /\ Stage' = "recover"
  <2>1. CASE client' = Sends(client, cdc_acm_init, "recover")
    <3>1. SameDevice /\ Stage' = "recover"
      BY <1>1, <2>1
    <3> QED BY <1>3, <3>1 DEF reinit
  <2>2. CASE client' = [client EXCEPT !.at = "recover"]
    <3>1. client'.at = "recover" /\ SameDevice
      BY <1>a, <2>2 DEF Client
    <3> QED BY <1>3, <3>1 DEF reinit
  <2> QED BY <1>3, <2>1, <2>2 DEF reinit
<1>4. ASSUME recover_in
      PROVE  /\ Stage = "recover" /\ SameDevice
             /\ IF NEEDS_RESUBMIT[client.port] /\ bulk_in[client.port] # "none"
                  THEN Stage' = "recover_out" /\ client'.port = client.port
                  ELSE Stage' = "recover"
  <2>1. client.at = "recover"
    BY <1>4 DEF recover_in
  <2>2. CASE NEEDS_RESUBMIT[client.port] /\ bulk_in[client.port] # "none"
    <3>1. client' = Sends(client, <<"CLEAR_FEATURE">>, "recover_out")
      BY <1>4, <2>2 DEF recover_in
    <3>2. SameDevice /\ client'.port = client.port /\ Stage' = "recover_out"
      BY <1>1, <3>1
    <3> QED BY <2>1, <2>2, <3>2
  <2>3. CASE ~(NEEDS_RESUBMIT[client.port] /\ bulk_in[client.port] # "none")
    <3>1. client' = [client EXCEPT !.port = @ + 1]
      BY <1>4, <2>3 DEF recover_in
    <3>2. client'.at = client.at /\ SameDevice
      BY <1>a, <3>1 DEF Client
    <3> QED BY <2>1, <2>3, <3>2
  <2> QED BY <2>2, <2>3
<1>5. ASSUME recover_out
      PROVE  /\ Stage = "recover_out" /\ SameDevice
             /\ Stage' = "resubmit" /\ client'.port = client.port
  <2>1. /\ client.at = "recover_out"
        /\ client' = Sends(client, <<"CLEAR_FEATURE">>, "resubmit")
    BY <1>5 DEF recover_out
  <2>2. SameDevice /\ client'.port = client.port /\ Stage' = "resubmit"
    BY <1>1, <2>1
  <2> QED BY <2>1, <2>2
<1>6. ASSUME NEW at, NEW at1 \in {"serve", "recover", "invalidate", "free"}, client.at = at, at \notin {"ctrl", "wait"},
             \/ client' = [client EXCEPT !.at = at1]
             \/ client' = [client EXCEPT !.at = at1, !.port = @ + 1]
      PROVE  Stage = at /\ SameDevice /\ Stage' = at1
  <2>1. client'.at = at1 /\ SameDevice
    BY <1>a, <1>6 DEF Client
  <2> QED BY <1>6, <2>1
<1>7. ASSUME recovered PROVE Stage = "recover" /\ SameDevice /\ Stage' = "serve"
  BY <1>6, <1>7 DEF recovered
<1>8. ASSUME resubmit PROVE Stage = "resubmit" /\ SameDevice /\ Stage' = "recover"
  BY <1>6, <1>8 DEF resubmit
<1>9. ASSUME unpublish PROVE Stage = "serve" /\ SameDevice /\ Stage' = "invalidate"
  BY <1>6, <1>9 DEF unpublish
<1>10. ASSUME invalidate PROVE Stage = "invalidate" /\ SameDevice /\ Stage' = "free"
  BY <1>6, <1>10 DEF invalidate
<1>11. ASSUME free PROVE Stage = "free" /\ RestStep
  BY <1>11 DEF free, Idle, RestStep
<1> QED BY <1>2, <1>3, <1>4, <1>5, <1>7, <1>8, <1>9, <1>10, <1>11
-------------------------------------------------------------------------------
(* The bus and its messages.                                               *)

\* What BusInv says of one message and of a later one.
MessageInv(i) == /\ events[i][2] <= bus.plugs
                 /\ events[i][1] = "GONE" =>
                      /\ events[i][2] # bus.now
                      /\ client.dev # 0 => events[i][2] = client.dev
                      /\ client.at # "scan"
                      /\ bus.now # 0 => bus.now \notin {NEW_DEV_ADDR, client.dev}

\* What it says of the devices that were not closed.
HeldInv == \A k \in bus.held : k <= bus.plugs /\ client.at # "scan" /\ (k = bus.now => client.dev = 0)

LEMMA BusInvStep ==
  ASSUME TypeOK, StageInv, BusInv, [Next]_vars
  PROVE  BusInv'
<1>a. /\ bus.now \in 0 .. MaxPlugs /\ bus.plugs \in 0 .. MaxPlugs /\ bus.held \subseteq Plug
      /\ bus.now \in Nat /\ bus.plugs \in Nat /\ NEW_DEV_ADDR \in Nat /\ client.dev \in Nat
      /\ MaxPlugs \in Nat
      /\ events \in Seq({"NEW", "GONE"} \X Plug) /\ Len(events) \in Nat
  BY UsbAssumption DEF TypeOK, Bus, Client
<1>b. \A i \in 1 .. Len(events) : /\ events[i] \in {"NEW", "GONE"} \X Plug
                                  /\ events[i][2] \in Nat \ {0}
  BY <1>a, ElementOfSeq DEF Plug
<1>c. BusInv <=> /\ bus.now \in {0, bus.plugs}
                 /\ client.dev <= bus.plugs /\ NEW_DEV_ADDR <= bus.plugs
                 /\ \A i \in 1 .. Len(events) :
                      MessageInv(i) /\ \A j \in i .. Len(events) : events[i][2] <= events[j][2]
                 /\ HeldInv
  BY DEF BusInv, MessageInv, HeldInv
<1>h. ASSUME UNCHANGED bus, client'.at = "scan" => client.at = "scan",
             client'.dev # 0 => client'.dev = client.dev \/ bus.now \notin bus.held
      PROVE  HeldInv'
  BY <1>c, <1>h DEF HeldInv
<1>1. ASSUME bus'.now = bus.now /\ bus'.plugs = bus.plugs /\ HeldInv' /\ UNCHANGED events,
             client'.at = "scan" => client.at = "scan",
             client'.dev # 0 => client'.dev = client.dev \/ bus.now = client'.dev,
             \/ NEW_DEV_ADDR' \in {0, NEW_DEV_ADDR}
             \/ NEW_DEV_ADDR' = bus.now /\ client.at = "scan",
             client'.dev # 0 /\ client'.dev # client.dev => client'.dev = NEW_DEV_ADDR
      PROVE  BusInv'
  <2>1. bus.now <= bus.plugs /\ NEW_DEV_ADDR' <= bus.plugs /\ client'.dev <= bus.plugs
    BY <1>1, <1>a DEF BusInv
  <2>2. \A i \in 1 .. Len(events) : MessageInv(i)'
    BY <1>1, <1>a, <1>b DEF BusInv, MessageInv
  <2> QED BY <1>1, <2>1, <2>2 DEF BusInv, MessageInv, HeldInv
<1>p. CASE PlugIn
  <2>0. bus' = [bus EXCEPT !.now = bus.plugs + 1, !.plugs = bus.plugs + 1, !.known = FALSE]
    BY <1>p DEF PlugIn
  <2>1. /\ bus'.now = bus.plugs + 1 /\ bus'.plugs = bus.plugs + 1 /\ bus.now = 0
        /\ bus'.held = bus.held /\ UNCHANGED <<events, NEW_DEV_ADDR, client>>
    BY <1>p, <2>0 DEF PlugIn, hostvars, TypeOK, Bus
  <2>2. \A i \in 1 .. Len(events) : MessageInv(i)'
    BY <1>a, <1>b, <2>1 DEF BusInv, MessageInv
  <2>3. HeldInv'
    <3>1. \A k \in bus.held : k \in Nat
      BY <1>a DEF Plug
    <3> QED BY <1>a, <1>c, <2>1, <3>1 DEF HeldInv
  <2> QED BY <1>a, <2>1, <2>2, <2>3 DEF BusInv, MessageInv, HeldInv
<1>2. CASE Enumerate
  <2>0. bus' = [bus EXCEPT !.known = TRUE]
    BY <1>2 DEF Enumerate
  <2>1. /\ bus'.now = bus.now /\ bus'.plugs = bus.plugs /\ bus.now = bus.plugs
        /\ bus.now # 0 /\ bus'.held = bus.held
        /\ events' = Append(events, <<"NEW", bus.now>>)
        /\ UNCHANGED <<NEW_DEV_ADDR, client>>
    BY <1>2, <2>0, <1>c DEF Enumerate, hostvars, TypeOK, Bus
  <2>2. /\ Len(events') = Len(events) + 1
        /\ \A i \in 1 .. Len(events) : events'[i] = events[i]
        /\ events'[Len(events) + 1] = <<"NEW", bus.now>>
    BY <1>a, <2>1, AppendProperties
  <2>3. \A i \in 1 .. Len(events) + 1 : MessageInv(i)'
    BY <1>a, <1>b, <2>1, <2>2 DEF BusInv, MessageInv
  <2>4. \A i \in 1 .. Len(events) + 1, j \in 1 .. Len(events) + 1 :
          j \in i .. Len(events) + 1 => events'[i][2] <= events'[j][2]
    <3> TAKE i \in 1 .. Len(events) + 1, j \in 1 .. Len(events) + 1
    <3> HAVE j \in i .. Len(events) + 1
    <3>1. CASE j \in 1 .. Len(events)
      <4>1. i \in 1 .. Len(events) /\ j \in i .. Len(events)
        BY <1>a, <3>1
      <4> QED BY <1>c, <2>2, <3>1, <4>1
    <3>2. CASE j = Len(events) + 1
      <4>1. events'[j][2] = bus.plugs
        BY <2>1, <2>2, <3>2
      <4>2. CASE i = j
        BY <1>a, <4>1, <4>2
      <4>3. CASE i \in 1 .. Len(events)
        BY <1>a, <1>b, <2>2, <4>1, <4>3 DEF BusInv
      <4> QED BY <1>a, <3>2, <4>2, <4>3
    <3> QED BY <1>a, <3>1, <3>2
  <2>5. HeldInv'
    BY <1>c, <2>1 DEF HeldInv
  <2> QED BY <1>a, <2>1, <2>2, <2>3, <2>4, <2>5 DEF BusInv, MessageInv, HeldInv
<1>3. CASE Unplug
  <2>0. bus' = [bus EXCEPT !.now = 0]
    BY <1>3 DEF Unplug
  <2>1. /\ bus'.now = 0 /\ bus'.plugs = bus.plugs /\ bus.now = bus.plugs /\ bus.now # 0
        /\ bus'.held = bus.held /\ UNCHANGED <<NEW_DEV_ADDR, client>>
    BY <1>3, <2>0, <1>c DEF Unplug, TypeOK, Bus
  <2>h. HeldInv'
    <3>1. \A k \in bus.held : k # 0
      BY <1>a DEF Plug
    <3> QED BY <1>c, <2>1, <3>1 DEF HeldInv
  <2>2. CASE bus.now \in bus.held \cup {client.dev}
    <3>1. /\ events' = Append(events, <<"GONE", bus.now>>)
          /\ client.dev \in {0, bus.now}
      BY <1>3, <1>c, <2>1, <2>2 DEF Unplug, HeldInv
    <3>2. /\ Len(events') = Len(events) + 1
          /\ \A i \in 1 .. Len(events) : events'[i] = events[i]
          /\ events'[Len(events) + 1] = <<"GONE", bus.now>>
      BY <1>a, <3>1, AppendProperties
    <3>3. client.at # "scan"
      BY <1>c, <2>1, <2>2, <3>1 DEF StageInv, Stage, Asking, HeldInv
    <3>4. ASSUME NEW i \in 1 .. Len(events) + 1 PROVE MessageInv(i)'
      <4>1. CASE i \in 1 .. Len(events)
        BY <1>b, <1>c, <2>1, <3>2, <4>1 DEF MessageInv
      <4>2. CASE i = Len(events) + 1
        BY <1>a, <2>1, <3>1, <3>2, <3>3, <4>2 DEF MessageInv
      <4> QED BY <1>a, <4>1, <4>2
    <3>5. \A i \in 1 .. Len(events) + 1, j \in 1 .. Len(events) + 1 :
            j \in i .. Len(events) + 1 => events'[i][2] <= events'[j][2]
      BY <1>a, <1>b, <2>1, <3>2 DEF BusInv
    <3> QED BY <1>a, <2>1, <2>h, <3>2, <3>4, <3>5 DEF BusInv, MessageInv, HeldInv
  <2>3. CASE bus.now \notin bus.held \cup {client.dev}
    <3>1. events' = events
      BY <1>3, <2>3 DEF Unplug
    <3> QED BY <1>a, <1>b, <2>1, <2>h, <3>1 DEF BusInv, MessageInv, HeldInv
  <2> QED BY <2>2, <2>3
<1>4. CASE client_event_cb
  <2>1. /\ UNCHANGED <<bus, client>> /\ events # <<>> /\ events' = Tail(events)
        /\ NEW_DEV_ADDR' \in {NEW_DEV_ADDR, events[1][2]}
    BY <1>4 DEF client_event_cb
  <2>2. /\ Len(events) # 0 /\ Len(events') = Len(events) - 1
        /\ \A i \in 1 .. Len(events') : events'[i] = events[i + 1]
    BY <1>a, <2>1, EmptySeq, HeadTailProperties
  <2>3. 1 \in 1 .. Len(events) /\ events[1][2] <= bus.plugs
    BY <1>a, <2>2 DEF BusInv
  <2>4. \A i \in 2 .. Len(events) : events[1][2] <= events[i][2]
    BY <1>a, <2>3 DEF BusInv
  <2>5. \A i \in 1 .. Len(events') : i + 1 \in 2 .. Len(events)
    BY <1>a, <2>2
  <2>6. ASSUME NEW i \in 1 .. Len(events') PROVE MessageInv(i)'
    <3>1. MessageInv(i + 1) /\ events[1][2] <= events[i + 1][2] /\ events'[i] = events[i + 1]
          /\ i + 1 \in 1 .. Len(events)
      BY <1>a, <1>c, <2>2, <2>4, <2>5
    <3> QED BY <1>a, <1>b, <2>1, <2>3, <3>1 DEF MessageInv, BusInv
  <2>7. \A i \in 1 .. Len(events'), j \in 1 .. Len(events') :
          j \in i .. Len(events') => events'[i][2] <= events'[j][2]
    <3> TAKE i \in 1 .. Len(events'), j \in 1 .. Len(events')
    <3> HAVE j \in i .. Len(events')
    <3>1. i + 1 \in 1 .. Len(events) /\ j + 1 \in i + 1 .. Len(events)
      BY <1>a, <2>2
    <3>2. events[i + 1][2] <= events[j + 1][2]
      BY <3>1 DEF BusInv
    <3> QED BY <2>2, <3>2
  <2>8. NEW_DEV_ADDR' <= bus.plugs /\ HeldInv'
    BY <1>h, <2>1, <2>3 DEF BusInv
  <2> QED BY <1>a, <2>1, <2>2, <2>6, <2>7, <2>8 DEF BusInv, MessageInv, HeldInv
<1>5. CASE AnswerCtrl \/ callbacks \/ \E p \in Port : CompleteIn(p) \/ CompleteOut(p)
  <2>1. UNCHANGED <<bus, events, NEW_DEV_ADDR, client>>
    BY <1>5 DEF AnswerCtrl, callbacks, CompleteIn, CompleteOut, ctrl_xfer_cb, bulk_in_cb,
         bulk_out_cb, hostvars
  <2> QED BY <1>1, <1>h, <2>1
<1>6. CASE \E w \in Writer : write_begin(w) \/ write(w)
  BY <1>1, <1>h, <1>6, WriteStep
<1>7. CASE UNCHANGED vars
  BY <1>1, <1>h, <1>7 DEF vars, hostvars
<1>8. ASSUME Stage' # "scan", UNCHANGED <<bus, events, NEW_DEV_ADDR>>,
             client'.dev \in {0, client.dev}
      PROVE  BusInv'
  <2>1. client'.at # "scan"
    BY <1>8 DEF Stage, Asking
  <2> QED BY <1>1, <1>h, <1>8, <2>1
<1>9. CASE client_next
  <2>1. CASE ctrl_submit \/ ctrl_answered \/ ctrl_timeout
    <3>1. AnswerStep
      BY <2>1, StagesOfSetUp
    <3>2. Stage # "scan"
      BY <3>1, <1>a DEF AnswerStep, Stage, TypeOK, Client, Asking
    <3> QED BY <1>8, <3>1, <3>2 DEF AnswerStep, SameDevice
  <2>2. CASE scan
    <3>1. RestStep
      BY <2>2, StagesOfSetUp
    <3>2. client'.at # "scan"
      BY <3>1 DEF RestStep, Stage, Asking
    <3> QED BY <1>1, <1>h, <2>2, <3>1, <3>2 DEF scan, RestStep, Unchanged_but_client
  <2>3. CASE open_device
    <3>1. OpenStep \/ SkipStep
      BY <2>3, StagesOfSetUp
    <3>2. OpenStep => client'.at # "scan"
      BY DEF OpenStep, Stage, Asking
    <3>3. UNCHANGED <<bus, events>> /\ NEW_DEV_ADDR' = 0
      BY <2>3 DEF open_device, Unchanged_but_client
    <3> QED BY <1>1, <1>h, <3>1, <3>2, <3>3 DEF OpenStep, SkipStep
  <2>4. CASE claim
    <3>1. PortStep
      BY <2>4, StagesOfSetUp
    <3> QED BY <1>8, <2>4, <3>1 DEF claim, PortStep, SameDevice, Unchanged_but_client
  <2>5. CASE alloc
    <3>1. PortStep \/ TakeStep
      BY <2>5, StagesOfSetUp
    <3> QED BY <1>8, <2>5, <3>1 DEF alloc, PortStep, TakeStep, SameDevice, hostvars_but_client
  <2>6. CASE publish
    <3>1. ServeStep
      BY <2>6, StagesOfSetUp
    <3> QED BY <1>8, <2>6, <3>1 DEF publish, ServeStep, SameDevice
  <2>7. CASE give_up \/ free
    <3>1. RestStep
      BY <2>7, StagesOfSetUp, StagesOfServing
    <3>2. /\ UNCHANGED <<events, NEW_DEV_ADDR>> /\ client'.dev = 0 /\ client'.at # "scan"
          /\ \E claimed : close(claimed)
      BY <2>7, <3>1 DEF give_up, free, Idle, RestStep, Unchanged_but_client
    <3>3. /\ bus'.now = bus.now /\ bus'.plugs = bus.plugs
          /\ bus'.held \subseteq bus.held \cup {client.dev}
      BY <3>2 DEF close, TypeOK, Bus
    <3>4. HeldInv'
      BY <1>c, <3>2, <3>3 DEF HeldInv
    <3> QED BY <1>1, <3>2, <3>3, <3>4
  <2>8. CASE \/ retry \/ reinit \/ recover_in \/ recover_out \/ recovered \/ resubmit
             \/ unpublish \/ invalidate
    <3>1. SameDevice /\ Stage' # "scan"
      BY <2>8, StagesOfServing
    <3>2. UNCHANGED <<bus, events, NEW_DEV_ADDR>>
      BY <2>8 DEF retry, reinit, recover_in, recover_out, recovered, resubmit, unpublish,
           invalidate, hostvars_but_client, Unchanged_but_client
    <3> QED BY <1>8, <3>1, <3>2 DEF SameDevice
  <2> QED BY <1>9, <2>1, <2>2, <2>3, <2>4, <2>5, <2>6, <2>7, <2>8 DEF client_next
<1> QED BY <1>p, <1>2, <1>3, <1>4, <1>5, <1>6, <1>7, <1>9 DEF Next, bus_next
-------------------------------------------------------------------------------
(* Transfers in flight, and the device they are for.                       *)

\* No transfer takes off.
Calmer == \A p \in Port : /\ bulk_out'[p].at = "flying" => bulk_out[p].at = "flying"
                          /\ InFlight(p)' => InFlight(p)

LEMMA CalmerOne ==
  ASSUME TypeOK, NEW q \in Port, NEW o, bulk_out' = [bulk_out EXCEPT ![q] = o],
         o.at \in {"idle", "none"} \/ (o.at = "done" /\ InFlight(q)) \/ o.at = bulk_out[q].at
  PROVE  Calmer
<1>1. \A p \in Port : bulk_out'[p] = IF p = q THEN o ELSE bulk_out[p]
  BY DEF TypeOK
<1> QED BY <1>1 DEF Calmer, InFlight

LEMMA CalmerSteps ==
  ASSUME TypeOK, StageInv, bus_next \/ client_event_cb \/ callbacks \/ client_next
  PROVE  Calmer
<1> USE DEF hostvars, hostvars_but_client, invars
<1>1. bulk_out' = bulk_out => Calmer
  BY DEF Calmer, InFlight
<1>2. CASE bus_next
  <2>1. CASE PlugIn \/ Enumerate \/ AnswerCtrl \/ \E p \in Port : CompleteIn(p)
    BY <1>1, <2>1 DEF PlugIn, Enumerate, AnswerCtrl, CompleteIn
  <2>2. CASE Unplug
    <3>1. \/ bulk_out' = bulk_out
          \/ bulk_out' = [p \in Port |-> IF bulk_out[p].at = "flying"
                                           THEN [bulk_out[p] EXCEPT !.at = "done"]
                                           ELSE bulk_out[p]]
      BY <2>2 DEF Unplug
    <3>2. \A p \in Port : [bulk_out[p] EXCEPT !.at = "done"].at = "done"
      BY DEF TypeOK, Out
    <3> QED BY <1>1, <3>1, <3>2 DEF Calmer, InFlight
  <2>3. CASE \E p \in Port : CompleteOut(p)
    <3>1. PICK p \in Port : /\ bulk_out[p].at = "flying"
                            /\ bulk_out' = [bulk_out EXCEPT ![p].at = "done"]
      BY <2>3 DEF CompleteOut
    <3>2. bulk_out' = [bulk_out EXCEPT ![p] = [bulk_out[p] EXCEPT !.at = "done"]]
          /\ [bulk_out[p] EXCEPT !.at = "done"].at = "done"
      BY <3>1 DEF TypeOK, Out
    <3> QED BY <3>1, <3>2, CalmerOne DEF InFlight
  <2> QED BY <1>2, <2>1, <2>2, <2>3 DEF bus_next
<1>3. CASE client_event_cb
  BY <1>1, <1>3 DEF client_event_cb
<1>4. CASE callbacks
  <2>1. CASE ctrl_xfer_cb \/ \E p \in Port : bulk_in_cb(p)
    BY <1>1, <2>1 DEF ctrl_xfer_cb, bulk_in_cb
  <2>2. CASE \E p \in Port : bulk_out_cb(p)
    <3>1. PICK p \in Port : bulk_out_cb(p)
      BY <2>2
    <3>2. [bulk_out[p] EXCEPT !.at = "idle", !.busy = FALSE].at = "idle"
      BY DEF TypeOK, Out
    <3>3. bulk_out' = [bulk_out EXCEPT ![p] = [bulk_out[p] EXCEPT !.at = "idle", !.busy = FALSE]]
      BY <3>1 DEF bulk_out_cb
    <3> QED BY <3>2, <3>3, CalmerOne
  <2> QED BY <1>4, <2>1, <2>2 DEF callbacks
<1>5. CASE client_next
  <2>1. CASE \/ ctrl_submit \/ ctrl_answered \/ ctrl_timeout
             \/ scan \/ open_device \/ claim \/ publish \/ give_up
             \/ retry \/ reinit \/ recover_in \/ recovered \/ resubmit \/ unpublish
    BY <1>1, <2>1
    DEF ctrl_submit, submit_control, ctrl_answered, ctrl_timeout, scan, open_device, claim,
        publish, give_up, retry, reinit, recover_in, recovered, resubmit, unpublish,
        Unchanged_but_client
  <2>2. CASE alloc
    <3> DEFINE p == client.port
               o == [bulk_out[p] EXCEPT !.xfer = client.dev, !.at = "idle"]
    <3>1. bulk_out' = bulk_out \/ bulk_out' = [bulk_out EXCEPT ![p] = o]
      BY <2>2, StagesOfSetUp DEF TakeStep
    <3>2. CASE bulk_out' = [bulk_out EXCEPT ![p] = o] /\ p \in Port
      <4>1. o.at = "idle"
        BY <3>2 DEF TypeOK, Out
      <4> HIDE DEF p, o
      <4> QED BY <3>2, <4>1, CalmerOne
    <3>3. CASE bulk_out' = [bulk_out EXCEPT ![p] = o] /\ p \notin Port
      BY <1>1, <3>3 DEF TypeOK
    <3> QED BY <1>1, <3>1, <3>2, <3>3
  <2>3. CASE recover_out
    <3> DEFINE p == client.port
    <3>1. bulk_out' = [bulk_out EXCEPT ![p].at = IF @ = "flying" THEN "done" ELSE @]
      BY <2>3 DEF recover_out
    <3>2. CASE p \in Port
      <4>1. \A q \in Port : bulk_out'[q].at = IF q = p /\ bulk_out[q].at = "flying"
                                                THEN "done" ELSE bulk_out[q].at
        BY <3>1, <3>2 DEF TypeOK, Out
      <4> QED BY <4>1 DEF Calmer, InFlight
    <3>3. CASE p \notin Port
      BY <1>1, <3>1, <3>3 DEF TypeOK
    <3> QED BY <3>2, <3>3
  <2>4. CASE invalidate
    <3>1. \A q \in Port : bulk_out'[q].at = bulk_out[q].at
      BY <2>4 DEF invalidate, TypeOK, Out
    <3> QED BY <3>1 DEF Calmer, InFlight
  <2>5. CASE free
    <3>1. \A q \in Port : bulk_out'[q].at = "none"
      BY <2>5 DEF free, TypeOK, Out
    <3> QED BY <3>1 DEF Calmer, InFlight
  <2> QED BY <1>5, <2>1, <2>2, <2>3, <2>4, <2>5 DEF client_next
<1> QED BY <1>2, <1>3, <1>4, <1>5

\* A writer submits only to the device that is served.
LEMMA FlyingIsServed ==
  ASSUME TypeOK, StageInv, GoneInv, WriterInv, NEW w \in Writer, NEW p \in Port, Flying(w, p)
  PROVE  Attached /\ Stage \in Serving
<1>1. /\ writer[w].xfer # 0 /\ writer[w].xfer = client.dev /\ writer[w].hdl = client.dev
      /\ bus.now = client.dev
  BY DEF Flying, Holds, WriterInv
<1>2. Attached
  BY <1>1 DEF Attached
<1>3. Stage \notin SetUp \cup {"scan", "idle", "invalidate", "free"}
  BY <1>1, <1>2 DEF WriterInv, StageInv, GoneInv
<1>4. Stage \in SetUp \cup Serving \cup {"scan", "idle", "invalidate", "free"}
  BY DEF TypeOK, Client, Stage, Asking, SetUp, Serving
<1> QED BY <1>2, <1>3, <1>4

LEMMA GoneInvStep ==
  ASSUME TypeOK, StageInv, BusInv, GoneInv, WriterInv, [Next]_vars
  PROVE  GoneInv'
<1>a. /\ bus.now \in Nat /\ bus.plugs \in Nat /\ client.dev \in Nat /\ DEV_GONE \in BOOLEAN
      /\ bus.now \in 0 .. MaxPlugs /\ bus.plugs \in 0 .. MaxPlugs /\ bus.held \subseteq Plug
  BY UsbAssumption DEF TypeOK, Bus, Client
<1>q. Quiet <=> \A p \in Port : ~InFlight(p)
  BY DEF Quiet, InFlight
<1>r. Quiet' <=> \A p \in Port : ~InFlight(p)'
  BY DEF Quiet, InFlight
<1>1. ASSUME Calmer,
             Stage' \in Serving /\ DEV_GONE' => Stage \in Serving /\ DEV_GONE,
             Stage' \in {"invalidate", "free"} =>
               Stage \in {"invalidate", "free"} \/ (Stage \in Serving /\ DEV_GONE),
             Stage' \notin Serving => Stage \notin Serving \/ DEV_GONE,
             \/ Attached' <=> Attached
             \/ Stage \notin Serving /\ Stage' \in SetUp \cup {"idle"}
      PROVE  GoneInv'
  <2>1. Stage' \notin Serving \/ DEV_GONE' => Quiet'
    BY <1>1, <1>q, <1>r DEF Calmer, GoneInv
  <2>2. \A p \in Port : bulk_out'[p].at = "flying" => Attached'
    BY <1>1, <1>q DEF Calmer, InFlight, GoneInv
  <2>3. Stage' \in SetUp \cup {"idle"} => Stage' \notin Serving \cup {"invalidate", "free"}
    BY DEF SetUp, Serving
  <2>4. Stage' \in Serving \/ Stage' \in {"invalidate", "free"}
          => (Stage' \in Serving /\ ~DEV_GONE') \/ ~Attached'
    BY <1>1, <2>3 DEF GoneInv
  <2>5. Stage' \in {"invalidate", "free"} => ~Attached'
    BY <1>1, <2>3 DEF GoneInv
  <2> QED BY <2>1, <2>2, <2>4, <2>5 DEF GoneInv
<1>2. CASE bus_next /\ ~(Unplug /\ Attached)
  <2>1. /\ UNCHANGED <<client, DEV_GONE>>
        /\ \/ bus.now = 0 /\ bus'.now = bus.plugs + 1
           \/ bus'.now = bus.now
           \/ bus'.now = 0 /\ ~Attached
    BY <1>2, <1>a DEF bus_next, PlugIn, Enumerate, Unplug, AnswerCtrl, CompleteIn, CompleteOut,
         hostvars, TypeOK, Bus
  <2>2. Attached' <=> Attached
    BY <1>a, <2>1 DEF Attached, BusInv
  <2>3. Stage' = Stage
    BY <2>1 DEF Stage, Asking
  <2> QED BY <1>1, <1>2, <2>1, <2>2, <2>3, CalmerSteps
<1>3. CASE Unplug /\ Attached
  <2>1. UNCHANGED <<client, DEV_GONE>> /\ bus'.now = 0 /\ client.dev # 0 /\ Calmer
    BY <1>3, <1>a, CalmerSteps DEF Unplug, Attached, bus_next, TypeOK, Bus
  <2>2. ~Attached' /\ Stage' = Stage
    BY <2>1 DEF Attached, Stage, Asking
  <2>3. \A p \in Port : bulk_out'[p].at # "flying"
    <3>1. bulk_out' = [p \in Port |-> IF bulk_out[p].at = "flying"
                                        THEN [bulk_out[p] EXCEPT !.at = "done"]
                                        ELSE bulk_out[p]]
      BY <1>3 DEF Unplug
    <3>2. \A p \in Port : [bulk_out[p] EXCEPT !.at = "done"].at = "done"
      BY DEF TypeOK, Out
    <3> QED BY <3>1, <3>2
  <2>4. Stage' \notin Serving \/ DEV_GONE' => Quiet'
    BY <1>3, <1>q, <1>r, <2>1, <2>2 DEF Calmer, GoneInv
  <2> QED BY <2>2, <2>3, <2>4 DEF GoneInv
<1>4. CASE client_event_cb
  <2>1. /\ UNCHANGED <<client, bus, bulk_out>> /\ events # <<>>
        /\ \/ DEV_GONE' <=> DEV_GONE
           \/ /\ events[1][1] = "GONE"
              /\ \A p \in Port : bulk_out[p].at # "done"
    <3>1. CASE events[1][1] = "GONE"
      BY <1>4, <3>1 DEF client_event_cb
    <3>2. CASE events[1][1] # "GONE"
      BY <1>4, <1>a, <3>2 DEF client_event_cb
    <3> QED BY <3>1, <3>2
  <2>2. Stage' = Stage /\ (Attached' <=> Attached)
    BY <2>1 DEF Stage, Asking, Attached
  <2>3. CASE events[1][1] = "GONE" /\ \A p \in Port : bulk_out[p].at # "done"
    <3>1. 1 \in 1 .. Len(events)
      BY <2>1, EmptySeq DEF TypeOK
    <3>2. ~Attached
      BY <2>3, <3>1 DEF BusInv, Attached
    <3>3. Quiet
      BY <2>3, <3>2 DEF Quiet, GoneInv
    <3> QED BY <2>1, <2>2, <3>2, <3>3 DEF GoneInv, Quiet
  <2>4. CASE DEV_GONE' <=> DEV_GONE
    BY <2>1, <2>2, <2>4 DEF GoneInv, Quiet
  <2> QED BY <2>1, <2>3, <2>4
<1>5. CASE callbacks
  <2>1. UNCHANGED <<client, bus, DEV_GONE>>
    BY <1>5 DEF callbacks, ctrl_xfer_cb, bulk_in_cb, bulk_out_cb, hostvars
  <2>2. Stage' = Stage /\ (Attached' <=> Attached)
    BY <2>1 DEF Stage, Asking, Attached
  <2> QED BY <1>1, <1>5, <2>1, <2>2, CalmerSteps
<1>6. CASE client_next
  <2> USE DEF hostvars, hostvars_but_client, invars, Unchanged_but_client
  <2>a. Calmer
    BY <1>6, CalmerSteps
  <2>1. CASE ctrl_submit \/ ctrl_answered \/ ctrl_timeout
    <3>1. AnswerStep
      BY <2>1, StagesOfSetUp
    <3> QED BY <1>1, <2>a, <3>1 DEF AnswerStep, SameDevice, Attached
  <2>2. CASE scan \/ give_up \/ free
    <3>1. RestStep /\ Stage \notin Serving
      BY <2>2, StagesOfSetUp, StagesOfServing DEF Serving
    <3>2. Stage' \notin Serving /\ Stage' \notin {"invalidate", "free"}
      BY <3>1 DEF Serving, RestStep
    <3> QED BY <1>1, <2>a, <3>1, <3>2 DEF RestStep
  <2>3. CASE open_device
    <3>1. Stage = "idle" /\ (OpenStep \/ SkipStep)
      BY <2>3, StagesOfSetUp
    <3>2. CASE OpenStep
      BY <1>1, <2>a, <3>1, <3>2 DEF OpenStep, SetUp, Serving
    <3>3. CASE SkipStep
      <4>1. Stage' = Stage
        BY <3>3 DEF SkipStep, Stage, Asking
      <4>2. Attached' <=> Attached
        BY <2>3, <3>3 DEF SkipStep, Attached, open_device
      <4> QED BY <1>1, <2>a, <3>1, <4>1, <4>2 DEF Serving
    <3> QED BY <3>1, <3>2, <3>3
  <2>4. CASE claim \/ alloc
    <3>1. Stage \in {"claim", "alloc"} /\ (PortStep \/ TakeStep)
      BY <2>4, StagesOfSetUp
    <3>2. Stage' \in {"alloc", "claim", "publish"}
      BY <3>1 DEF PortStep, TakeStep
    <3> QED BY <1>1, <2>a, <3>1, <3>2 DEF SetUp, Serving
  <2>5. CASE publish
    <3>1. Stage = "publish" /\ ServeStep
      BY <2>5, StagesOfSetUp
    <3>2. Attached' <=> Attached
      BY <2>5, <3>1 DEF Attached, ServeStep, SameDevice, publish
    <3> QED BY <1>1, <2>5, <2>a, <3>1, <3>2 DEF ServeStep, Serving, publish
  <2>6. CASE \/ retry \/ reinit \/ recover_in \/ recover_out \/ recovered \/ resubmit
    <3>1. SameDevice /\ Stage \in Serving /\ Stage' \in Serving
      BY <2>6, StagesOfServing DEF Serving
    <3>2. UNCHANGED <<bus, DEV_GONE>>
      BY <2>6 DEF retry, reinit, recover_in, recover_out, recovered, resubmit
    <3>3. Attached' <=> Attached
      BY <3>1, <3>2 DEF Attached, SameDevice
    <3>4. Stage' \notin {"invalidate", "free"}
      BY <3>1 DEF Serving
    <3> QED BY <1>1, <2>a, <3>1, <3>2, <3>3, <3>4
  <2>7. CASE unpublish
    <3>1. Stage = "serve" /\ SameDevice /\ Stage' = "invalidate" /\ DEV_GONE
          /\ UNCHANGED bus
      BY <2>7, StagesOfServing DEF unpublish
    <3>2. Attached' <=> Attached
      BY <3>1 DEF Attached, SameDevice
    <3> QED BY <1>1, <2>a, <3>1, <3>2 DEF Serving
  <2>8. CASE invalidate
    <3>1. Stage = "invalidate" /\ SameDevice /\ Stage' = "free" /\ UNCHANGED bus
      BY <2>8, StagesOfServing DEF invalidate
    <3>2. Attached' <=> Attached
      BY <3>1 DEF Attached, SameDevice
    <3> QED BY <1>1, <2>a, <3>1, <3>2 DEF Serving
  <2> QED BY <1>6, <2>1, <2>2, <2>3, <2>4, <2>5, <2>6, <2>7, <2>8 DEF client_next
<1>7. CASE \E w \in Writer : write_begin(w) \/ write(w)
  <2>1. PICK w \in Writer : write_begin(w) \/ write(w)
    BY <1>7
  <2> DEFINE p == writer[w].port
  <2>2. /\ UNCHANGED <<client, bus, DEV_GONE>> /\ p \in Port
        /\ Resting(w) \/ Taking(w, p) \/ Keeping(w, p) \/ Giving(w, p) \/ Flying(w, p)
    BY <2>1, WriteStep
  <2>3. Stage' = Stage /\ (Attached' <=> Attached)
    BY <2>2 DEF Stage, Asking, Attached
  <2> HIDE DEF p
  <2>4. CASE Resting(w) \/ Taking(w, p) \/ Keeping(w, p) \/ Giving(w, p)
    <3>1. \/ bulk_out' = bulk_out
          \/ \E busy \in BOOLEAN : bulk_out' = [bulk_out EXCEPT ![p].busy = busy]
      BY <2>4 DEF Resting, Taking, Keeping, Giving
    <3>2. ASSUME NEW q \in Port PROVE bulk_out'[q].at = bulk_out[q].at
      <4>1. bulk_out \in [Port -> Out]
        BY DEF TypeOK
      <4>2. \A busy : [bulk_out[p] EXCEPT !.busy = busy].at = bulk_out[p].at
        BY <2>2, <4>1 DEF Out
      <4>3. CASE \E busy \in BOOLEAN : bulk_out' = [bulk_out EXCEPT ![p].busy = busy]
        <5>1. PICK busy : bulk_out' = [bulk_out EXCEPT ![p] = [bulk_out[p] EXCEPT !.busy = busy]]
          BY <2>2, <4>1, <4>3
        <5> QED BY <4>1, <4>2, <5>1
      <4> QED BY <3>1, <4>3
    <3>3. Calmer
      BY <3>2 DEF Calmer, InFlight
    <3> QED BY <1>1, <2>2, <2>3, <3>3
  <2>5. CASE Flying(w, p)
    <3>1. Attached /\ Stage \in Serving
      BY <2>2, <2>5, FlyingIsServed
    <3> QED BY <2>2, <2>3, <3>1 DEF GoneInv, Serving
  <2> QED BY <2>2, <2>4, <2>5
<1>8. CASE UNCHANGED vars
  <2>1. UNCHANGED <<client, bus, DEV_GONE, bulk_out>>
    BY <1>8 DEF vars, hostvars
  <2> QED BY <2>1 DEF GoneInv, Stage, Asking, Attached, Quiet
<1> QED BY <1>2, <1>3, <1>4, <1>5, <1>6, <1>7, <1>8 DEF Next, bus_next
-------------------------------------------------------------------------------
(* The writers: the handles they keep, and who owns a port.                *)

LEMMA WriterInvStep ==
  ASSUME TypeOK, StageInv, BusInv, GoneInv, WriterInv, [Next]_vars
  PROVE  WriterInv'
<1>a. /\ bus.now \in Nat /\ bus.plugs \in Nat /\ client.dev \in Nat /\ CDC_DEV_HDL \in Nat
      /\ bus.now \in 0 .. MaxPlugs /\ bus.plugs \in 0 .. MaxPlugs /\ bus.held \subseteq Plug /\ MaxPlugs \in Nat
  BY UsbAssumption DEF TypeOK, Bus, Client
<1>b. \A w \in Writer : writer[w].hdl \in Nat /\ writer[w].hdl \in 0 .. MaxPlugs
  BY <1>a DEF TypeOK, Write
<1>1. ASSUME UNCHANGED <<writer, CDC_DEV_HDL>>, bus'.now = bus.now, bus'.plugs = bus.plugs,
             Stage' \in SetUp => Stage \in SetUp /\ client'.dev = client.dev
      PROVE  WriterInv'
  BY <1>1 DEF WriterInv
<1>2. CASE bus_next
  <2>1. /\ UNCHANGED <<writer, client, CDC_DEV_HDL>>
        /\ \/ bus'.now \in {0, bus.now} /\ bus'.plugs = bus.plugs
           \/ bus'.now = bus.plugs + 1 /\ bus'.plugs = bus.plugs + 1
    <3>1. CASE PlugIn
      <4>1. bus' = [bus EXCEPT !.now = bus.plugs + 1, !.plugs = bus.plugs + 1, !.known = FALSE]
        BY <3>1 DEF PlugIn
      <4> QED BY <3>1, <4>1 DEF PlugIn, hostvars, TypeOK, Bus
    <3>2. CASE Enumerate
      <4>1. bus' = [bus EXCEPT !.known = TRUE]
        BY <3>2 DEF Enumerate
      <4> QED BY <3>2, <4>1 DEF Enumerate, hostvars, TypeOK, Bus
    <3>3. CASE Unplug
      <4>1. bus' = [bus EXCEPT !.now = 0]
        BY <3>3 DEF Unplug
      <4> QED BY <3>3, <4>1 DEF Unplug, TypeOK, Bus
    <3>4. CASE AnswerCtrl \/ \E p \in Port : CompleteIn(p) \/ CompleteOut(p)
      BY <3>4 DEF AnswerCtrl, CompleteIn, CompleteOut, hostvars
    <3> QED BY <1>2, <3>1, <3>2, <3>3, <3>4 DEF bus_next
  <2>2. Stage' = Stage
    BY <2>1 DEF Stage, Asking
  <2>3. ASSUME NEW w \in Writer, writer[w].hdl # 0
        PROVE  /\ writer[w].hdl <= bus'.plugs
               /\ writer[w].hdl = CDC_DEV_HDL \/ writer[w].hdl # bus'.now
    BY <1>a, <1>b, <2>1, <2>3 DEF WriterInv
  <2> QED BY <2>1, <2>2, <2>3 DEF WriterInv
<1>3. CASE client_event_cb \/ callbacks
  <2>1. UNCHANGED <<writer, bus, client, CDC_DEV_HDL>>
    BY <1>3 DEF client_event_cb, callbacks, ctrl_xfer_cb, bulk_in_cb, bulk_out_cb, hostvars
  <2> QED BY <1>1, <2>1 DEF Stage, Asking
<1>4. CASE client_next
  <2> USE DEF hostvars, hostvars_but_client, invars, Unchanged_but_client
  <2>1. CASE ctrl_submit \/ ctrl_answered \/ ctrl_timeout
    BY <1>1, <2>1, StagesOfSetUp DEF AnswerStep, SameDevice
  <2>2. CASE scan \/ give_up \/ free
    <3>1. RestStep /\ UNCHANGED <<writer, CDC_DEV_HDL>>
      BY <2>2, StagesOfSetUp, StagesOfServing DEF scan, give_up, free
    <3>2. bus'.now = bus.now /\ bus'.plugs = bus.plugs
      BY <2>2 DEF scan, give_up, free, close, TypeOK, Bus
    <3> QED BY <1>1, <3>1, <3>2 DEF RestStep, SetUp
  <2>3. CASE open_device
    <3>1. Stage = "idle" /\ (OpenStep \/ SkipStep) /\ UNCHANGED <<writer, bus, CDC_DEV_HDL>>
      BY <2>3, StagesOfSetUp DEF open_device
    <3>2. CASE OpenStep
      <4>1. CDC_DEV_HDL = 0
        BY <3>1 DEF StageInv, Serving
      <4>2. \A w \in Writer : writer[w].hdl # client'.dev
        BY <1>b, <3>2, <4>1 DEF WriterInv, OpenStep
      <4> QED BY <3>1, <4>2 DEF WriterInv
    <3>3. CASE SkipStep
      BY <1>1, <3>1, <3>3 DEF SkipStep, Stage, Asking
    <3> QED BY <3>1, <3>2, <3>3
  <2>4. CASE claim \/ alloc
    <3>1. Stage \in SetUp /\ client'.dev = client.dev
      BY <2>4, StagesOfSetUp DEF PortStep, TakeStep, SameDevice, SetUp
    <3> QED BY <1>1, <2>4, <3>1 DEF claim, alloc
  <2>5. CASE publish
    <3>1. /\ Stage = "publish" /\ Stage' = "serve" /\ CDC_DEV_HDL' = client.dev
          /\ UNCHANGED <<writer, bus>>
      BY <2>5, StagesOfSetUp DEF publish, ServeStep
    <3>2. CDC_DEV_HDL = 0
      BY <3>1 DEF StageInv, Serving
    <3> QED BY <1>b, <3>1, <3>2 DEF WriterInv, SetUp
  <2>6. CASE \/ retry \/ reinit \/ recover_in \/ recover_out \/ recovered \/ resubmit
             \/ invalidate
    <3>1. Stage' \notin SetUp
      BY <2>6, StagesOfServing DEF SetUp
    <3>2. UNCHANGED <<writer, bus, CDC_DEV_HDL>>
      BY <2>6 DEF retry, reinit, recover_in, recover_out, recovered, resubmit, invalidate
    <3> QED BY <1>1, <3>1, <3>2
  <2>7. CASE unpublish
    <3>1. /\ Stage = "serve" /\ Stage' = "invalidate" /\ DEV_GONE /\ CDC_DEV_HDL' = 0
          /\ UNCHANGED <<writer, bus>>
      BY <2>7, StagesOfServing DEF unpublish
    <3>2. CDC_DEV_HDL = client.dev /\ ~Attached /\ client.dev # 0
      BY <3>1 DEF StageInv, GoneInv, Serving
    <3>3. ASSUME NEW w \in Writer, writer[w].hdl # 0
          PROVE  writer[w].hdl # bus.now
      BY <3>2, <3>3 DEF WriterInv, Attached
    <3> QED BY <3>1, <3>3 DEF WriterInv, SetUp
  <2> QED BY <1>4, <2>1, <2>2, <2>3, <2>4, <2>5, <2>6, <2>7 DEF client_next
<1>5. CASE \E w \in Writer : write_begin(w) \/ write(w)
  <2>1. PICK w \in Writer : write_begin(w) \/ write(w)
    BY <1>5
  <2>2. /\ UNCHANGED <<client, bus, CDC_DEV_HDL>>
        /\ writer' = [writer EXCEPT ![w] = writer'[w]]
        /\ writer'[w].hdl \in {0, CDC_DEV_HDL, writer[w].hdl}
        /\ writer'[w].at \in {"submit", "again"} =>
             \/ writer'[w].xfer # 0
             \/ writer'[w].xfer = writer[w].xfer /\ writer[w].at = "submit"
    BY <2>1, WriteStep
  <2>3. Stage' = Stage
    BY <2>2 DEF Stage, Asking
  <2>4. /\ CDC_DEV_HDL <= bus.plugs
        /\ Stage \in SetUp => CDC_DEV_HDL = 0 /\ client.dev # 0
    BY <1>a DEF StageInv, BusInv, SetUp, Serving
  <2>5. /\ writer'[w].at \in {"submit", "again"} => writer'[w].xfer # 0
        /\ writer'[w].hdl # 0 =>
             /\ writer'[w].hdl <= bus.plugs
             /\ writer'[w].hdl = CDC_DEV_HDL \/ writer'[w].hdl # bus.now
        /\ Stage \in SetUp => writer'[w].hdl # client.dev
    BY <2>2, <2>4 DEF WriterInv
  <2>6. \A v \in Writer : v # w => writer'[v] = writer[v]
    BY <2>2 DEF TypeOK
  <2> QED BY <2>2, <2>3, <2>5, <2>6 DEF WriterInv
<1>6. CASE UNCHANGED vars
  BY <1>1, <1>6 DEF vars, hostvars, Stage, Asking
<1> QED BY <1>2, <1>3, <1>4, <1>5, <1>6 DEF Next

\* Of OwnerInv, what is said of one port.
PortInv(p) == /\ \A v, w \in Writer : Owns(v, p) /\ Owns(w, p) => v = w
              /\ InFlight(p) => \A w \in Writer : ~Owns(w, p)
              /\ bulk_out[p].busy <=> InFlight(p) \/ \E w \in Writer : Owns(w, p)

LEMMA OwnerInvStep ==
  ASSUME TypeOK, StageInv, GoneInv, OwnerInv, [Next]_vars
  PROVE  OwnerInv'
<1>a. /\ bulk_out \in [Port -> Out] /\ hist \in Hist
      /\ \A p \in Port : bulk_out[p] \in Out /\ bulk_out[p].busy \in BOOLEAN
  BY DEF TypeOK, Out
<1>b. (~hist.stale => \A p \in Port : PortInv(p)) /\ (OwnerInv' <=> (~hist.stale => \A p \in Port : PortInv(p))')
  BY DEF OwnerInv, PortInv
<1>q. Stage \notin Serving => \A p \in Port : ~InFlight(p)
  BY DEF GoneInv, Quiet, InFlight
<1>1. ASSUME UNCHANGED writer, hist.stale => hist'.stale,
             \A p \in Port : /\ InFlight(p)' <=> InFlight(p)
                             /\ bulk_out'[p].busy <=> bulk_out[p].busy
      PROVE  OwnerInv'
  <2>1. \A p \in Port, w \in Writer : Owns(w, p)' <=> Owns(w, p)
    BY <1>1 DEF Owns, Claims
  <2> QED BY <1>1, <1>b, <2>1 DEF PortInv
<1>2. ASSUME UNCHANGED <<writer, bulk_out>>, hist.stale => hist'.stale PROVE OwnerInv'
  BY <1>1, <1>2 DEF InFlight
<1>3. CASE bus_next
  <2>1. UNCHANGED writer /\ (hist.stale => hist'.stale)
    <3>1. CASE Unplug
      <4>1. hist' = [hist EXCEPT !.dropped = {}, !.unserved = 0]
        BY <3>1 DEF Unplug
      <4> QED BY <1>a, <3>1, <4>1 DEF Unplug, Hist
    <3>2. CASE ~Unplug
      BY <1>3, <1>a, <3>2
      DEF bus_next, PlugIn, Enumerate, AnswerCtrl, CompleteIn, CompleteOut, Hist
    <3> QED BY <3>1, <3>2
  <2>2. CASE PlugIn \/ Enumerate \/ AnswerCtrl \/ \E p \in Port : CompleteIn(p)
    BY <1>2, <2>1, <2>2 DEF PlugIn, Enumerate, AnswerCtrl, CompleteIn, hostvars, invars
  <2>3. CASE Unplug
    <3>1. \/ bulk_out' = bulk_out
          \/ bulk_out' = [p \in Port |-> IF bulk_out[p].at = "flying"
                                           THEN [bulk_out[p] EXCEPT !.at = "done"]
                                           ELSE bulk_out[p]]
      BY <2>3 DEF Unplug
    <3>2. \A p \in Port : LET o == [bulk_out[p] EXCEPT !.at = "done"]
                          IN  o.at = "done" /\ (o.busy <=> bulk_out[p].busy)
      BY <1>a DEF Out
    <3> QED BY <1>1, <2>1, <3>1, <3>2 DEF InFlight
  <2>4. CASE \E p \in Port : CompleteOut(p)
    <3>1. PICK p \in Port : CompleteOut(p)
      BY <2>4
    <3>2. \A q \in Port : bulk_out'[q] = IF q = p THEN [bulk_out[q] EXCEPT !.at = "done"]
                                                  ELSE bulk_out[q]
      BY <1>a, <3>1 DEF CompleteOut
    <3>3. \A q \in Port : LET o == [bulk_out[q] EXCEPT !.at = "done"]
                          IN  o.at = "done" /\ (o.busy <=> bulk_out[q].busy)
      BY <1>a DEF Out
    <3> QED BY <1>1, <2>1, <3>1, <3>2, <3>3 DEF InFlight, CompleteOut
  <2> QED BY <1>3, <2>2, <2>3, <2>4 DEF bus_next
<1>4. CASE client_event_cb \/ ctrl_xfer_cb \/ \E p \in Port : bulk_in_cb(p)
  <2>1. CASE client_event_cb \/ ctrl_xfer_cb
    BY <1>2, <2>1 DEF client_event_cb, ctrl_xfer_cb, hostvars, invars
  <2>2. ASSUME NEW p \in Port, bulk_in_cb(p) PROVE OwnerInv'
    <3>1. UNCHANGED <<writer, bulk_out>> /\ Resubmits(p)
      BY <2>2 DEF bulk_in_cb
    <3>2. PICK dropped : hist' = [hist EXCEPT !.dropped = dropped]
      BY <3>1 DEF Resubmits
    <3> QED BY <1>2, <1>a, <3>1, <3>2 DEF Hist
  <2> QED BY <1>4, <2>1, <2>2
<1>5. ASSUME NEW p \in Port, bulk_out_cb(p) PROVE OwnerInv'
  <2> DEFINE o == [bulk_out[p] EXCEPT !.at = "idle", !.busy = FALSE]
  <2>1. bulk_out[p].at = "done" /\ UNCHANGED <<writer, hist>> /\ bulk_out' = [bulk_out EXCEPT ![p] = o]
    BY <1>5 DEF bulk_out_cb
  <2>2. o.at = "idle" /\ ~o.busy
    BY <1>a DEF Out
  <2> HIDE DEF o
  <2>3. \A q \in Port : bulk_out'[q] = IF q = p THEN o ELSE bulk_out[q]
    BY <1>a, <2>1
  <2>4. \A q \in Port, w \in Writer : Owns(w, q)' <=> Owns(w, q)
    BY <2>1 DEF Owns, Claims
  <2>5. ~hist.stale => \A w \in Writer : ~Owns(w, p)
    BY <1>b, <2>1 DEF PortInv, InFlight
  <2> QED BY <1>b, <2>1, <2>2, <2>3, <2>4, <2>5 DEF PortInv, InFlight
<1>6. CASE client_next
  <2> USE DEF hostvars, hostvars_but_client, invars, Unchanged_but_client
  <2>1. CASE ctrl_submit \/ ctrl_answered \/ ctrl_timeout
    BY <1>2, <2>1, StagesOfSetUp DEF AnswerStep
  <2>p. CASE publish
    <3>1. UNCHANGED <<writer, bulk_out>>
      BY <2>p DEF publish
    <3>2. PICK dropped : hist' = [hist EXCEPT !.dropped = dropped]
      BY <2>p DEF publish
    <3> QED BY <1>2, <1>a, <3>1, <3>2 DEF Hist
  <2>2. CASE \/ scan \/ open_device \/ claim \/ give_up \/ retry \/ reinit
             \/ recover_in \/ recovered \/ resubmit \/ unpublish
    <3>1. UNCHANGED <<writer, bulk_out>>
      BY <2>2 DEF scan, open_device, claim, give_up, retry, reinit, recover_in,
           recovered, resubmit, unpublish
    <3>2. hist.stale => hist'.stale
      BY <2>2, <1>a DEF scan, open_device, claim, give_up, retry, reinit, recover_in,
           recovered, resubmit, unpublish, Hist
    <3> QED BY <1>2, <3>1, <3>2
  <2>3. CASE alloc
    <3> DEFINE p == client.port
               o == [bulk_out[p] EXCEPT !.xfer = client.dev, !.at = "idle"]
    <3>1. /\ bulk_out' = bulk_out \/ bulk_out' = [bulk_out EXCEPT ![p] = o]
          /\ Stage = "alloc" /\ UNCHANGED writer /\ (hist.stale => hist'.stale)
      BY <2>3, <1>a, StagesOfSetUp DEF TakeStep, alloc, Hist
    <3>2. p \in Port => o.at = "idle" /\ (o.busy <=> bulk_out[p].busy)
      BY <1>a DEF Out
    <3>3. p \in Port => ~InFlight(p)
      BY <1>q, <3>1 DEF Serving
    <3> HIDE DEF o, p
    <3>4. \A q \in Port : bulk_out'[q] = bulk_out[q] \/ (q = p /\ bulk_out'[q] = o)
      BY <1>a, <3>1
    <3> QED BY <1>1, <3>1, <3>2, <3>3, <3>4 DEF InFlight
  <2>4. CASE recover_out
    <3> DEFINE p == client.port
    <3>1. bulk_out' = [bulk_out EXCEPT ![p].at = IF @ = "flying" THEN "done" ELSE @]
          /\ UNCHANGED <<writer, hist>>
      BY <2>4 DEF recover_out
    <3>2. \A q \in Port : /\ bulk_out'[q].at = IF q = p /\ bulk_out[q].at = "flying"
                                                 THEN "done" ELSE bulk_out[q].at
                          /\ bulk_out'[q].busy <=> bulk_out[q].busy
      BY <1>a, <3>1 DEF Out
    <3> QED BY <1>1, <3>1, <3>2 DEF InFlight
  <2>5. CASE invalidate
    <3>1. /\ \A q \in Port : bulk_out'[q].at = bulk_out[q].at /\ ~bulk_out'[q].busy
          /\ UNCHANGED writer /\ Stage = "invalidate"
      BY <2>5, <1>a, StagesOfServing DEF invalidate, Out
    <3>2. ~hist'.stale => \A w \in Writer : ~Claims(w)
      BY <2>5, <1>a DEF invalidate, Hist
    <3>3. \A q \in Port : ~InFlight(q)'
      BY <1>q, <3>1 DEF InFlight, Serving
    <3>4. ~hist'.stale => \A q \in Port, w \in Writer : ~Owns(w, q)'
      BY <3>1, <3>2 DEF Owns, Claims
    <3> QED BY <1>b, <3>1, <3>3, <3>4 DEF PortInv
  <2>6. CASE free
    <3>1. /\ \A q \in Port : bulk_out'[q].at = "none" /\ (bulk_out'[q].busy <=> bulk_out[q].busy)
          /\ UNCHANGED <<writer, hist>> /\ Stage = "free"
      BY <2>6, <1>a, StagesOfServing DEF free, Out
    <3> QED BY <1>1, <1>q, <3>1 DEF InFlight, Serving
  <2> QED BY <1>6, <2>p, <2>1, <2>2, <2>3, <2>4, <2>5, <2>6 DEF client_next
<1>7. ASSUME NEW w \in Writer, write_begin(w) \/ write(w) PROVE OwnerInv'
  <2> DEFINE p == writer[w].port
  <2>1. /\ UNCHANGED hist /\ p \in Port
        /\ writer' = [writer EXCEPT ![w] = writer'[w]]
        /\ Claims(w)' => writer'[w].port = p
        /\ Resting(w) \/ Taking(w, p) \/ Keeping(w, p) \/ Giving(w, p) \/ Flying(w, p)
    BY <1>7, WriteStep
  <2> HIDE DEF p
  <2>2. \A v \in Writer : v # w => writer'[v] = writer[v]
    BY <2>1 DEF TypeOK
  <2>3. \A v \in Writer, q \in Port : v # w => (Owns(v, q)' <=> Owns(v, q))
    BY <2>2 DEF Owns, Claims
  <2>4. \A q \in Port : /\ Owns(w, q) <=> Claims(w) /\ q = p
                        /\ Owns(w, q)' <=> Claims(w)' /\ q = p
    BY <2>1 DEF Owns, p
  <2>5. CASE Resting(w)
    BY <1>b, <2>1, <2>3, <2>4, <2>5 DEF PortInv, Resting, InFlight
  <2>6. ASSUME NEW busy \in BOOLEAN, bulk_out' = [bulk_out EXCEPT ![p].busy = busy]
        PROVE  \A q \in Port : /\ InFlight(q)' <=> InFlight(q)
                               /\ bulk_out'[q].busy <=> IF q = p THEN busy ELSE bulk_out[q].busy
    BY <1>a, <2>1, <2>6 DEF InFlight, Out
  <2>7. CASE Taking(w, p)
    <3>1. Claims(w)' /\ ~Claims(w) /\ ~bulk_out[p].busy
      BY <2>7 DEF Taking, Claims
    <3>2. \A q \in Port : /\ InFlight(q)' <=> InFlight(q)
                          /\ bulk_out'[q].busy <=> q = p \/ bulk_out[q].busy
      BY <2>6, <2>7 DEF Taking
    <3> QED BY <1>b, <2>1, <2>3, <2>4, <3>1, <3>2 DEF PortInv
  <2>8. CASE Keeping(w, p)
    <3>1. Claims(w)' /\ Claims(w)
      BY <2>8 DEF Keeping
    <3>2. \A q \in Port : /\ InFlight(q)' <=> InFlight(q)
                          /\ \/ bulk_out'[q].busy <=> bulk_out[q].busy
                             \/ q = p /\ bulk_out'[q].busy
      BY <2>6, <2>8 DEF Keeping, InFlight
    <3> QED BY <1>b, <2>1, <2>3, <2>4, <3>1, <3>2 DEF PortInv
  <2>9. CASE Giving(w, p)
    <3>1. ~Claims(w)' /\ Claims(w)
      BY <2>9 DEF Giving
    <3>2. \A q \in Port : /\ InFlight(q)' <=> InFlight(q)
                          /\ bulk_out'[q].busy <=> q # p /\ bulk_out[q].busy
      BY <2>6, <2>9 DEF Giving
    <3> QED BY <1>b, <2>1, <2>3, <2>4, <3>1, <3>2 DEF PortInv
  <2>10. CASE Flying(w, p)
    <3>1. ~Claims(w)' /\ Claims(w)
      BY <2>10 DEF Flying
    <3>2. \A q \in Port : /\ InFlight(q)' <=> q = p \/ InFlight(q)
                          /\ bulk_out'[q].busy <=> bulk_out[q].busy
      BY <2>1, <2>10, <1>a DEF Flying, InFlight, Out
    <3> QED BY <1>b, <2>1, <2>3, <2>4, <3>1, <3>2 DEF PortInv
  <2> QED BY <2>1, <2>5, <2>7, <2>8, <2>9, <2>10
<1>8. CASE UNCHANGED vars
  BY <1>2, <1>8 DEF vars
<1> QED BY <1>3, <1>4, <1>5, <1>6, <1>7, <1>8 DEF Next, callbacks
-------------------------------------------------------------------------------
(* The bulk-IN transfers.                                                  *)

LEMMA InInvStep ==
  ASSUME TypeOK, StageInv, BusInv, GoneInv, InInv, [Next]_vars
  PROVE  InInv'
<1>a. /\ bus.now \in Nat /\ bus.plugs \in Nat /\ client.dev \in Nat
      /\ bus.now \in 0 .. MaxPlugs /\ bus.plugs \in 0 .. MaxPlugs /\ bus.held \subseteq Plug
      /\ bulk_in \in [Port -> {"none", "idle", "flying", "data", "error", "canceled"}]
      /\ NEEDS_RESUBMIT \in [Port -> BOOLEAN]
      /\ client.active \in 0 .. MAX_USB_PORTS /\ MAX_USB_PORTS \in Nat
      /\ client.port \in 0 .. MAX_USB_PORTS
      /\ hist \in Hist /\ hist.dropped \subseteq Port
  BY UsbAssumption DEF TypeOK, Bus, Client, Hist
<1>b. Active \subseteq Port
  BY <1>a DEF Active, Port
<1>s. Stage' \in SetUp \cup Serving => Stage' \notin {"scan", "idle"}
  BY DEF SetUp, Serving
<1>t. Stage' \in Serving => Stage' \notin SetUp
  BY DEF SetUp, Serving
<1>1. ASSUME UNCHANGED <<bulk_in, NEEDS_RESUBMIT>>, SameDevice, Stage' = Stage,
             client'.port = client.port, Attached' => Attached /\ hist'.dropped = hist.dropped
      PROVE  InInv'
  <2>1. Attached' => \A p \in Port : Watched(p)' <=> Watched(p)
    BY <1>1 DEF Watched, Recovering
  <2> QED BY <1>1, <1>b, <2>1 DEF InInv, SameDevice, Active
<1>2. ASSUME UNCHANGED <<bulk_in, NEEDS_RESUBMIT, client>>,
             Attached' => Attached /\ hist'.dropped = hist.dropped
      PROVE  InInv'
  BY <1>1, <1>2 DEF SameDevice, Stage, Asking
<1>3. CASE \/ PlugIn \/ Enumerate \/ AnswerCtrl
           \/ (\E p \in Port : CompleteOut(p)) \/ (Unplug /\ ~Attached)
  <2>1. /\ UNCHANGED <<bulk_in, NEEDS_RESUBMIT, client>>
        /\ \/ bus.now = 0 /\ bus'.now = bus.plugs + 1
           \/ bus'.now = bus.now /\ hist'.dropped = hist.dropped
           \/ bus'.now = 0 /\ ~Attached
    <3>1. CASE PlugIn
      <4>1. bus' = [bus EXCEPT !.now = bus.plugs + 1, !.plugs = bus.plugs + 1, !.known = FALSE]
        BY <3>1 DEF PlugIn
      <4> QED BY <3>1, <4>1 DEF PlugIn, hostvars, invars, TypeOK, Bus
    <3>2. CASE Enumerate
      <4>1. bus' = [bus EXCEPT !.known = TRUE]
        BY <3>2 DEF Enumerate
      <4> QED BY <3>2, <4>1 DEF Enumerate, hostvars, invars, TypeOK, Bus
    <3>3. CASE Unplug /\ ~Attached
      <4>1. bus' = [bus EXCEPT !.now = 0]
        BY <3>3 DEF Unplug
      <4> QED BY <3>3, <4>1 DEF Unplug, TypeOK, Bus
    <3>4. CASE AnswerCtrl \/ \E p \in Port : CompleteOut(p)
      BY <1>a, <3>4 DEF AnswerCtrl, CompleteOut, hostvars, invars, Hist
    <3> QED BY <1>3, <3>1, <3>2, <3>3, <3>4
  <2>2. Attached' => Attached /\ hist'.dropped = hist.dropped
    BY <1>a, <2>1 DEF Attached, BusInv
  <2> QED BY <1>2, <2>1, <2>2
<1>4. CASE Unplug /\ Attached
  <2>0. bus' = [bus EXCEPT !.now = 0]
    BY <1>4 DEF Unplug
  <2>1. /\ UNCHANGED client /\ bus'.now = 0 /\ client.dev # 0
        /\ \E status \in {"error", "canceled"} :
             bulk_in' = [p \in Port |-> IF bulk_in[p] = "flying" THEN status ELSE bulk_in[p]]
    BY <1>4, <2>0 DEF Unplug, Attached, TypeOK, Bus
  <2>2. ~Attached' /\ Stage' = Stage
    BY <2>1 DEF Attached, Stage, Asking
  <2>3. \A p \in Port : bulk_in[p] \in {"none", "idle"} => bulk_in'[p] = bulk_in[p]
    BY <2>1
  <2> QED BY <2>1, <2>2, <2>3 DEF InInv
<1>5. CASE \E p \in Port : CompleteIn(p)
  <2>1. PICK p \in Port : /\ bulk_in[p] = "flying"
                          /\ UNCHANGED <<client, bus, NEEDS_RESUBMIT, hist>>
                          /\ bulk_in' \in {[bulk_in EXCEPT ![p] = "data"],
                                           [bulk_in EXCEPT ![p] = "error"]}
    BY <1>5 DEF CompleteIn, hostvars
  <2>2. /\ Stage' = Stage /\ (Attached' <=> Attached) /\ Active' = Active
    BY <2>1 DEF Attached, Stage, Asking, Active
  <2>3. \A q \in Port : \/ bulk_in'[q] = bulk_in[q]
                        \/ bulk_in'[q] \in {"data", "error"} /\ bulk_in[q] = "flying"
    BY <1>a, <2>1
  <2>4. \A q \in Port : Watched(q)' <=> Watched(q)
    BY <2>1, <2>2, <2>3 DEF Watched, Recovering
  <2> QED BY <1>b, <2>1, <2>2, <2>3, <2>4 DEF InInv
<1>6. CASE \E p \in Port : bulk_in_cb(p)
  <2>1. PICK p \in Port : bulk_in_cb(p)
    BY <1>6
  <2> DEFINE again == bulk_in[p] = "data" /\ ~DEV_GONE
  <2>2. PICK sent \in BOOLEAN :
          /\ sent => again /\ Attached
          /\ bulk_in' = [bulk_in EXCEPT ![p] = IF sent THEN "flying" ELSE "idle"]
          /\ hist' = [hist EXCEPT !.dropped = IF again /\ Attached /\ ~sent THEN @ \cup {p} ELSE @]
    BY <2>1 DEF bulk_in_cb, Resubmits
  <2>3. /\ UNCHANGED <<client, bus>> /\ bulk_in[p] \in {"data", "error", "canceled"}
        /\ NEEDS_RESUBMIT' = [NEEDS_RESUBMIT EXCEPT ![p] = @ \/ bulk_in[p] = "error"]
        /\ hist'.dropped = IF again /\ Attached /\ ~sent THEN hist.dropped \cup {p} ELSE hist.dropped
    BY <1>a, <2>1, <2>2 DEF bulk_in_cb, hostvars, Hist
  <2>4. Stage' = Stage /\ (Attached' <=> Attached) /\ Active' = Active
    BY <2>3 DEF Attached, Stage, Asking, Active
  <2>5. \A q \in Port : q # p => /\ bulk_in'[q] = bulk_in[q]
                                 /\ NEEDS_RESUBMIT'[q] <=> NEEDS_RESUBMIT[q]
                                 /\ q \in hist'.dropped <=> q \in hist.dropped
    BY <1>a, <2>2, <2>3
  <2>6. /\ bulk_in'[p] = IF sent THEN "flying" ELSE "idle"
        /\ NEEDS_RESUBMIT'[p] <=> NEEDS_RESUBMIT[p] \/ bulk_in[p] = "error"
    BY <1>a, <2>2, <2>3
  <2>7. Stage \notin SetUp \cup {"scan", "idle"}
    BY <2>3 DEF InInv
  <2>8. \A q \in Port : q # p => (Watched(q)' <=> Watched(q))
    BY <2>3, <2>4, <2>5 DEF Watched, Recovering
  <2>9. ASSUME Stage \in Serving, Attached, Watched(p) PROVE Watched(p)'
    <3>1. ~DEV_GONE /\ bulk_in[p] # "canceled"
      BY <2>9 DEF GoneInv, InInv
    <3>2. ~NEEDS_RESUBMIT[p] /\ ~Recovering(p) /\ p \notin hist.dropped
      BY <2>3, <2>9 DEF Watched
    <3>3. ~Recovering(p)'
      BY <2>3, <2>4, <3>2 DEF Recovering
    <3>4. CASE bulk_in[p] = "error"
      BY <2>2, <2>3, <2>6, <3>2, <3>3, <3>4 DEF Watched
    <3>5. CASE bulk_in[p] = "data"
      BY <2>2, <2>3, <2>6, <2>9, <3>1, <3>2, <3>3, <3>5 DEF Watched
    <3> QED BY <2>3, <3>1, <3>4, <3>5
  <2>10. \A q \in Port : bulk_in'[q] = "canceled" => bulk_in[q] = "canceled"
    BY <2>5, <2>6
  <2> QED BY <1>b, <2>4, <2>7, <2>8, <2>9, <2>10 DEF InInv
<1>7. CASE client_event_cb \/ ctrl_xfer_cb \/ \E p \in Port : bulk_out_cb(p)
  <2>1. UNCHANGED <<bulk_in, NEEDS_RESUBMIT, client, bus, hist>>
    BY <1>7 DEF client_event_cb, ctrl_xfer_cb, bulk_out_cb, hostvars, invars
  <2> QED BY <1>2, <2>1 DEF Attached
<1>8. CASE client_next
  <2> USE DEF hostvars, hostvars_but_client, invars, Unchanged_but_client
  <2>1. CASE ctrl_submit \/ ctrl_answered \/ ctrl_timeout
    <3>1. AnswerStep
      BY <2>1, StagesOfSetUp
    <3> QED BY <1>1, <3>1 DEF AnswerStep, Attached, SameDevice
  <2>2. CASE scan \/ give_up \/ free
    <3>1. RestStep
      BY <2>2, StagesOfSetUp, StagesOfServing
    <3>2. \A p \in Port : bulk_in'[p] = "none"
      <4>1. CASE scan
        BY <4>1, StagesOfSetUp DEF scan, InInv
      <4>2. CASE give_up
        BY <4>2, StagesOfSetUp DEF give_up, InInv, SetUp
      <4>3. CASE free
        BY <4>3 DEF free
      <4> QED BY <2>2, <4>1, <4>2, <4>3
    <3> QED BY <3>1, <3>2 DEF InInv, RestStep, SetUp, Serving
  <2>3. CASE open_device
    <3>1. /\ Stage = "idle" /\ (OpenStep \/ SkipStep) /\ UNCHANGED <<bulk_in, NEEDS_RESUBMIT, bus>>
          /\ hist'.dropped = hist.dropped
      BY <2>3, <1>a, StagesOfSetUp DEF open_device, Hist
    <3>2. CASE OpenStep
      <4>1. \A p \in Port : bulk_in'[p] = "none"
        BY <3>1 DEF InInv
      <4> QED BY <3>2, <4>1 DEF InInv, OpenStep, Serving
    <3>3. CASE SkipStep
      BY <1>2, <3>1, <3>3 DEF SkipStep, Attached
    <3> QED BY <3>1, <3>2, <3>3
  <2>4. CASE claim \/ alloc
    <3>1. /\ Stage \in {"claim", "alloc"} /\ UNCHANGED bus
          /\ \A p \in Port : bulk_in[p] \in {"none", "idle"}
          /\ client.active = 0 => \A p \in Port : bulk_in[p] = "none"
      BY <2>4, StagesOfSetUp DEF claim, alloc, InInv, SetUp
    <3>2. CASE PortStep /\ UNCHANGED bulk_in
      BY <3>1, <3>2 DEF InInv, PortStep, SameDevice, Serving
    <3>3. CASE TakeStep
      <4>1. client'.active # 0
        BY <1>a, <3>3 DEF TakeStep
      <4>2. \A p \in Port : bulk_in'[p] \in {"none", "idle"}
        BY <1>a, <3>1, <3>3 DEF TakeStep
      <4> QED BY <3>3, <4>1, <4>2 DEF InInv, TakeStep, Serving
    <3> QED BY <2>4, <3>2, <3>3, StagesOfSetUp DEF claim
  <2>5. CASE publish
    <3> DEFINE ready == {p \in Active : bulk_in[p] = "idle"}
    <3>1. /\ Stage = "publish" /\ ServeStep /\ UNCHANGED bus
          /\ \A p \in Port : bulk_in[p] \in {"none", "idle"}
          /\ NEEDS_RESUBMIT' = [p \in Port |-> FALSE]
      BY <2>5, StagesOfSetUp DEF publish, InInv, SetUp
    <3>2. PICK sent \in SUBSET ready :
            /\ bulk_in' = [p \in Port |-> IF p \in sent THEN "flying" ELSE bulk_in[p]]
            /\ hist' = [hist EXCEPT !.dropped = IF Attached THEN ready \ sent ELSE {}]
      BY <2>5 DEF publish
    <3>3. (Attached' <=> Attached) /\ Active' = Active
      BY <3>1 DEF ServeStep, SameDevice, Attached, Active
    <3>4. \A p \in Port : bulk_in'[p] # "canceled"
      BY <3>1, <3>2
    <3>5. Attached => hist'.dropped = ready \ sent
      BY <1>a, <3>2 DEF Hist
    <3>6. ASSUME Attached, NEW p \in Active PROVE Watched(p)'
      <4>1. p \in Port /\ ~Recovering(p)' /\ ~NEEDS_RESUBMIT'[p]
        BY <1>b, <3>1 DEF Recovering, ServeStep
      <4>2. bulk_in'[p] = "idle" <=> p \in ready \ sent
        BY <3>2, <4>1
      <4> QED BY <3>5, <3>6, <4>1, <4>2 DEF Watched
    <3> QED BY <1>s, <1>t, <3>1, <3>3, <3>4, <3>6 DEF InInv, ServeStep, SetUp
  <2>6. ASSUME SameDevice, UNCHANGED bus, Stage \in Serving, Stage' \in Serving,
               \A p \in Port : bulk_in'[p] # "canceled" \/ bulk_in'[p] = bulk_in[p],
               Attached => \A p \in Active : Watched(p)'
        PROVE  InInv'
    <3>1. (Attached' <=> Attached) /\ Active' = Active
      BY <2>6 DEF SameDevice, Attached, Active
    <3> QED BY <1>s, <1>t, <2>6, <3>1 DEF InInv
  <2>7. ASSUME Stage \in Serving, Attached, NEW p \in Active PROVE Watched(p)
    BY <2>7 DEF InInv
  <2>8. CASE retry \/ reinit \/ recovered
    <3>1. /\ SameDevice /\ UNCHANGED <<bus, bulk_in, NEEDS_RESUBMIT>>
          /\ hist'.dropped = hist.dropped
          /\ Stage \in Serving \ {"recover_out", "resubmit"}
          /\ Stage' \in Serving \ {"recover_out", "resubmit"}
      BY <2>8, <1>a, StagesOfServing DEF retry, reinit, recovered, Serving, Hist
    <3>2. \A p \in Port : Watched(p)' <=> Watched(p)
      BY <3>1 DEF Watched, Recovering
    <3> QED BY <1>b, <2>6, <2>7, <3>1, <3>2
  <2>9. CASE recover_in
    <3> DEFINE p == client.port
    <3>1. /\ SameDevice /\ UNCHANGED <<bus, bulk_in, hist>> /\ p \in Active
          /\ NEEDS_RESUBMIT' = [NEEDS_RESUBMIT EXCEPT ![p] = FALSE]
          /\ Stage = "recover" /\ Stage' \in {"recover", "recover_out"}
      BY <2>9, StagesOfServing DEF recover_in
    <3>2. ASSUME Attached, NEW q \in Active PROVE Watched(q)'
      <4>1. Watched(q) /\ ~Recovering(q)
        BY <2>7, <3>1, <3>2 DEF Serving, Recovering
      <4>2. CASE q # p
        <5>1. ~Recovering(q)'
          <6>1. Stage' = "recover_out" => client'.port = p
            BY <2>9, StagesOfServing
          <6> QED BY <3>1, <4>2, <6>1 DEF Recovering
        <5>2. NEEDS_RESUBMIT'[q] <=> NEEDS_RESUBMIT[q]
          BY <1>a, <1>b, <3>1, <4>2
        <5> QED BY <3>1, <4>1, <5>1, <5>2 DEF Watched
      <4>3. CASE q = p
        <5>1. ~NEEDS_RESUBMIT'[p]
          BY <1>a, <1>b, <3>1
        <5>2. CASE NEEDS_RESUBMIT[p]
          <6>1. bulk_in[p] = "idle" /\ p \notin hist.dropped
            BY <4>1, <4>3, <5>2 DEF Watched
          <6>2. Stage' = "recover_out" /\ client'.port = p
            BY <2>9, <5>2, <6>1, StagesOfServing
          <6> QED BY <3>1, <4>3, <5>1, <6>1, <6>2 DEF Watched, Recovering
        <5>3. CASE ~NEEDS_RESUBMIT[p]
          <6>1. Stage' = "recover"
            BY <2>9, <5>3, StagesOfServing
          <6> QED BY <3>1, <4>1, <4>3, <5>1, <5>3, <6>1 DEF Watched, Recovering
        <5> QED BY <5>2, <5>3
      <4> QED BY <4>2, <4>3
    <3> QED BY <2>6, <3>1, <3>2 DEF Serving
  <2>10. CASE recover_out
    <3>1. /\ SameDevice /\ UNCHANGED <<bus, bulk_in, NEEDS_RESUBMIT, hist>>
          /\ Stage = "recover_out" /\ Stage' = "resubmit" /\ client'.port = client.port
      BY <2>10, StagesOfServing DEF recover_out
    <3>2. Stage \in Serving /\ Stage' \in Serving
      BY <3>1 DEF Serving
    <3>3. \A q \in Port : Watched(q)' <=> Watched(q)
      BY <3>1 DEF Watched, Recovering
    <3> QED BY <1>b, <2>6, <2>7, <3>1, <3>2, <3>3
  <2>11. CASE resubmit
    <3> DEFINE p == client.port
    <3>1. /\ SameDevice /\ UNCHANGED <<bus, hist>> /\ Stage = "resubmit" /\ Stage' = "recover"
          /\ \/ /\ bulk_in' = [bulk_in EXCEPT ![p] = "flying"] /\ UNCHANGED NEEDS_RESUBMIT
             \/ /\ NEEDS_RESUBMIT' = [NEEDS_RESUBMIT EXCEPT ![p] = TRUE] /\ UNCHANGED bulk_in
      BY <2>11, StagesOfServing DEF resubmit
    <3>2. Stage \in Serving /\ Stage' \in Serving
      BY <3>1 DEF Serving
    <3>3. ASSUME Attached, NEW q \in Active PROVE Watched(q)'
      <4>1. Watched(q) /\ q \in Port
        BY <1>b, <2>7, <3>2, <3>3
      <4>2. ~Recovering(q)' /\ (Recovering(q) <=> q = p)
        BY <3>1 DEF Recovering
      <4>3. CASE q = p
        <5>1. bulk_in[q] = "idle" /\ ~NEEDS_RESUBMIT[q] /\ q \notin hist.dropped
          BY <4>1, <4>2, <4>3 DEF Watched
        <5>2. \/ bulk_in'[q] = "flying" /\ ~NEEDS_RESUBMIT'[q]
              \/ bulk_in'[q] = "idle" /\ NEEDS_RESUBMIT'[q]
          BY <1>a, <3>1, <4>1, <4>3, <5>1
        <5> QED BY <3>1, <4>2, <5>1, <5>2 DEF Watched
      <4>4. CASE q # p
        <5>1. bulk_in'[q] = bulk_in[q] /\ (NEEDS_RESUBMIT'[q] <=> NEEDS_RESUBMIT[q])
          BY <1>a, <3>1, <4>1, <4>4
        <5> QED BY <3>1, <4>1, <4>2, <4>4, <5>1 DEF Watched
      <4> QED BY <4>3, <4>4
    <3>4. \A q \in Port : bulk_in'[q] # "canceled" \/ bulk_in'[q] = bulk_in[q]
      BY <1>a, <3>1
    <3> QED BY <2>6, <3>1, <3>2, <3>3, <3>4
  <2>12. CASE unpublish \/ invalidate
    <3>1. SameDevice /\ UNCHANGED <<bus, bulk_in>> /\ Stage' \in {"invalidate", "free"}
      BY <2>12, StagesOfServing DEF unpublish, invalidate
    <3>2. Attached' <=> Attached
      BY <3>1 DEF SameDevice, Attached
    <3> QED BY <3>1, <3>2 DEF InInv, SetUp, Serving
  <2> QED BY <1>8, <2>1, <2>2, <2>3, <2>4, <2>5, <2>8, <2>9, <2>10, <2>11, <2>12 DEF client_next
<1>9. CASE \E w \in Writer : write_begin(w) \/ write(w)
  <2>1. UNCHANGED <<bulk_in, NEEDS_RESUBMIT, client, bus, hist>>
    BY <1>9, WriteStep
  <2> QED BY <1>2, <2>1 DEF Attached
<1>10. CASE UNCHANGED vars
  <2>1. UNCHANGED <<bulk_in, NEEDS_RESUBMIT, client, bus, hist>>
    BY <1>10 DEF vars, hostvars, invars
  <2> QED BY <1>2, <2>1 DEF Attached
<1> QED BY <1>3, <1>4, <1>5, <1>6, <1>7, <1>8, <1>9, <1>10 DEF Next, bus_next, callbacks
-------------------------------------------------------------------------------
(* The set-up of a CDC device.                                             *)

WaitInv == client.at = "wait" =>
  /\ ctrl.at = "idle" => ctrl.DONE # "no"
  /\ ctrl.at # "idle" => ctrl.DONE = "no" /\ ctrl.req = client.plan[1]
  /\ ctrl.at = "done" \/ ctrl.DONE = "ok" =>
       client.plan[1] \in hist.accepted \/ client.plan[1] \notin ClassRequests

PlanInv == Asking /\ client.then \in {"alloc", "reinit"} /\ Opened.chip = "CDC" =>
  \/ \E req \in LineCoding : client.plan = <<req, "SetControlLineState">>
  \/ /\ \E req \in ControlLines : client.plan = <<req>>
     /\ client.ok => hist.accepted \cap LineCoding # {}

SetUpInv == client.at \in {"alloc", "reinit"} /\ Opened.chip = "CDC" /\ client.ok =>
  hist.accepted \cap LineCoding # {} /\ hist.accepted \cap ControlLines # {}

LEMMA ReadyParts == ReadyInv <=> WaitInv /\ PlanInv /\ SetUpInv
BY DEF ReadyInv, WaitInv, PlanInv, SetUpInv

LEMMA ConcatOfTwo ==
  ASSUME NEW S, NEW a \in S, NEW b \in S
  PROVE  <<a>> \o <<b>> = <<a, b>> /\ <<a>> \o <<>> = <<a>>
<1> DEFINE t == <<a>> \o <<b>>
           u == <<a, b>>
<1>1. <<a>> \in Seq(S) /\ <<b>> \in Seq(S) /\ u \in Seq(S)
  OBVIOUS
<1>2. t \in Seq(S) /\ Len(t) = 2 /\ Len(u) = 2
  BY <1>1, ConcatProperties
<1>3. t[1] = a /\ t[2] = b /\ u[1] = a /\ u[2] = b
  BY <1>1, ConcatProperties
<1> HIDE DEF t, u
<1>4. \A i \in 1 .. Len(t) : t[i] = u[i]
  BY <1>2, <1>3
<1>5. t = u
  BY <1>1, <1>2, <1>4, SeqEqual
<1>6. <<a>> \o <<>> = <<a>>
  BY <1>1, ConcatEmptySeq
<1> QED BY <1>5, <1>6 DEF t, u

LEMMA AnsweredReady ==
  ASSUME TypeOK, StageInv, ReadyInv, Asking, NEW good \in BOOLEAN, client' = Answered(good),
         hist' = hist,
         good => client.plan[1] \in hist.accepted \/ client.plan[1] \notin ClassRequests
  PROVE  ReadyInv'
<1> DEFINE repeat == /\ ~good /\ client.plan[1] \in {"SetLineCoding", "SetControlLineState"}
                     /\ Opened.chip = "CDC"
           plan == IF repeat THEN <<OnData(client.plan[1])>> \o Tail(client.plan)
                             ELSE Tail(client.plan)
           ok == client.ok /\ (good \/ Len(plan) = Len(client.plan) \/ Opened.chip # "CDC")
<1>1. /\ client'.dev = client.dev /\ client'.then = client.then
      /\ client'.at = IF plan = <<>> THEN client.then ELSE "ctrl"
      /\ client'.plan = plan
      /\ client.then \in Thens
      /\ client'.ok <=> ok
  <2>1. client' = [client EXCEPT !.plan = plan, !.ok = ok,
                                 !.at = IF plan = <<>> THEN client.then ELSE "ctrl"]
    BY DEF Answered
  <2>2. client \in Client
    BY DEF TypeOK
  <2> HIDE DEF plan, ok
  <2> QED BY <2>1, <2>2 DEF Client, Thens
<1>2. Opened' = Opened
  BY <1>1 DEF Opened
<1>3. client'.at # "wait"
  BY <1>1 DEF Thens
<1>4. CASE ~(client.then \in {"alloc", "reinit"} /\ Opened.chip = "CDC")
  <2>1. ~(client'.then \in {"alloc", "reinit"} /\ Opened'.chip = "CDC")
    BY <1>1, <1>2, <1>4
  <2>2. ~(client'.at \in {"alloc", "reinit"} /\ Opened'.chip = "CDC")
    BY <1>1, <1>2, <1>4
  <2> QED BY <1>3, <2>1, <2>2, ReadyParts DEF WaitInv, PlanInv, SetUpInv, ReadyInv
<1>5. CASE client.then \in {"alloc", "reinit"} /\ Opened.chip = "CDC"
  <2>1. ok => client.ok /\ (good \/ Len(plan) = Len(client.plan))
    BY <1>5
  <2>2. CASE \E req \in LineCoding : client.plan = <<req, "SetControlLineState">>
    <3>1. PICK req \in LineCoding : client.plan = <<req, "SetControlLineState">>
      BY <2>2
    <3>2. /\ client.plan[1] = req /\ Len(client.plan) = 2
          /\ Tail(client.plan) = <<"SetControlLineState">>
      BY <3>1
    <3>3. CASE repeat
      <4>1. req = "SetLineCoding" /\ OnData(client.plan[1]) = "SetLineCoding on data"
        BY <3>2, <3>3 DEF LineCoding, OnData
      <4>2. plan = <<"SetLineCoding on data">> \o <<"SetControlLineState">>
        BY <3>2, <3>3, <4>1
      <4> HIDE DEF plan, ok
      <4>3. plan = <<"SetLineCoding on data", "SetControlLineState">> /\ plan # <<>>
        <5>1. plan = <<"SetLineCoding on data", "SetControlLineState">>
          <6>1. "SetLineCoding on data" \in Request /\ "SetControlLineState" \in Request
            BY DEF Request, ClassRequests
          <6> QED BY <4>2, <6>1, ConcatOfTwo
        <5>2. Len(plan) \in {1, 2}
          BY <5>1
        <5>3. Len(<<>>) = 0
          BY EmptySeq
        <5> QED BY <5>1, <5>2, <5>3
      <4>4. client'.at = "ctrl" /\ client'.plan = <<"SetLineCoding on data", "SetControlLineState">>
        BY <1>1, <4>3
      <4>5. \E r \in LineCoding : client'.plan = <<r, "SetControlLineState">>
        BY <4>4 DEF LineCoding
      <4> QED BY <1>3, <4>4, <4>5 DEF ReadyInv
    <3>4. CASE ~repeat
      <4>1. plan = <<"SetControlLineState">>
        BY <3>2, <3>4
      <4>2. Len(plan) = 1
        BY <4>1
      <4>4. good => hist.accepted \cap LineCoding # {}
        BY <3>2 DEF LineCoding, ClassRequests
      <4> HIDE DEF plan, ok
      <4>3. ok => good
        BY <2>1, <3>2, <4>2
      <4>5. /\ client'.at = "ctrl" /\ \E r \in ControlLines : client'.plan = <<r>>
            /\ client'.ok => hist'.accepted \cap LineCoding # {}
        BY <1>1, <4>1, <4>3, <4>4 DEF ControlLines
      <4> QED BY <1>3, <4>5 DEF ReadyInv
    <3> QED BY <3>3, <3>4
  <2>3. CASE /\ \E req \in ControlLines : client.plan = <<req>>
             /\ client.ok => hist.accepted \cap LineCoding # {}
    <3>1. PICK req \in ControlLines : client.plan = <<req>>
      BY <2>3
    <3>2. client.plan[1] = req /\ Len(client.plan) = 1 /\ Tail(client.plan) = <<>>
      BY <3>1
    <3>3. CASE repeat
      <4>1. req = "SetControlLineState"
            /\ OnData(client.plan[1]) = "SetControlLineState on data"
        BY <3>2, <3>3 DEF ControlLines, OnData
      <4>2. plan = <<"SetControlLineState on data">> \o <<>>
        BY <3>2, <3>3, <4>1
      <4>3. ok => client.ok
        BY <2>1
      <4> HIDE DEF plan, ok
      <4>4. plan = <<"SetControlLineState on data">> /\ plan # <<>>
        <5>1. plan = <<"SetControlLineState on data">>
          <6>1. "SetControlLineState on data" \in Request
            BY DEF Request, ClassRequests
          <6> QED BY <4>2, <6>1, ConcatOfTwo
        <5>2. Len(plan) \in {1, 2}
          BY <5>1
        <5>3. Len(<<>>) = 0
          BY EmptySeq
        <5> QED BY <5>1, <5>2, <5>3
      <4>5. /\ client'.at = "ctrl" /\ client'.plan = <<"SetControlLineState on data">>
            /\ client'.ok => hist'.accepted \cap LineCoding # {}
        BY <1>1, <2>3, <4>3, <4>4
      <4>6. \E r \in ControlLines : client'.plan = <<r>>
        BY <4>5 DEF ControlLines
      <4> QED BY <1>3, <4>5, <4>6 DEF ReadyInv
    <3>4. CASE ~repeat
      <4>1. plan = <<>>
        BY <3>2, <3>4
      <4>2. Len(plan) = 0
        BY <4>1
      <4>4. good => hist.accepted \cap ControlLines # {}
        BY <3>2 DEF ControlLines, ClassRequests
      <4> HIDE DEF plan, ok
      <4>3. ok => client.ok /\ good
        BY <2>1, <3>2, <4>2
      <4>5. /\ client'.at = client.then
            /\ client'.ok => hist'.accepted \cap LineCoding # {} /\ hist'.accepted \cap ControlLines # {}
        BY <1>1, <2>3, <4>1, <4>3, <4>4
      <4>6. ~Asking'
        BY <1>5, <4>5 DEF Asking
      <4> QED BY <1>3, <4>5, <4>6 DEF ReadyInv
    <3> QED BY <3>3, <3>4
  <2> QED BY <1>5, <2>2, <2>3 DEF ReadyInv
<1> QED BY <1>4, <1>5

LEMMA ReadyInvStep ==
  ASSUME TypeOK, StageInv, ReadyInv, [Next]_vars
  PROVE  ReadyInv'
<1>a. client \in Client /\ ctrl \in Ctrl /\ hist \in Hist /\ client.then \in Thens
  BY DEF TypeOK, Client, Thens
<1>1. ASSUME UNCHANGED <<client, ctrl>>, hist.accepted = hist'.accepted PROVE ReadyInv'
  BY <1>1 DEF ReadyInv, Asking, Opened
<1>2. ASSUME UNCHANGED client, hist.accepted \subseteq hist'.accepted, WaitInv'
      PROVE  ReadyInv'
  <2>1. Asking' = Asking /\ Opened' = Opened
    BY <1>2 DEF Asking, Opened
  <2>2. ASSUME NEW S, hist.accepted \cap S # {} PROVE hist'.accepted \cap S # {}
    BY <1>2, <2>2
  <2> QED BY <1>2, <2>1, <2>2, ReadyParts DEF PlanInv, SetUpInv, ReadyInv, WaitInv
<1>3. CASE bus_next
  <2>1. CASE PlugIn \/ Enumerate \/ \E p \in Port : CompleteIn(p) \/ CompleteOut(p)
    BY <1>1, <2>1 DEF PlugIn, Enumerate, CompleteIn, CompleteOut, hostvars
  <2>2. CASE Unplug
    <3>1. /\ UNCHANGED client
          /\ ctrl' = [ctrl EXCEPT !.at = IF ctrl.at = "flying" THEN "failed" ELSE ctrl.at]
          /\ hist' = [hist EXCEPT !.dropped = {}, !.unserved = 0]
      BY <2>2 DEF Unplug
    <3>h. hist'.accepted = hist.accepted
      BY <1>a, <3>1 DEF Hist
    <3>2. /\ ctrl'.req = ctrl.req /\ ctrl'.DONE = ctrl.DONE
          /\ ctrl'.at = ctrl.at \/ (ctrl.at = "flying" /\ ctrl'.at = "failed")
      BY <1>a, <3>1 DEF Ctrl
    <3>3. WaitInv'
      BY <3>1, <3>h, <3>2 DEF ReadyInv, WaitInv
    <3> QED BY <1>2, <3>1, <3>h, <3>3
  <2>3. CASE AnswerCtrl
    <3>1. UNCHANGED client /\ ctrl.at = "flying" /\ ctrl'.req = ctrl.req /\ ctrl'.DONE = ctrl.DONE
      BY <2>3, <1>a DEF AnswerCtrl, Ctrl
    <3>2. CASE /\ ctrl' = [ctrl EXCEPT !.at = "done"]
               /\ hist' = [hist EXCEPT !.accepted = @ \cup ({ctrl.req} \cap ClassRequests)]
      <4>1. /\ ctrl'.at = "done"
            /\ hist'.accepted = hist.accepted \cup ({ctrl.req} \cap ClassRequests)
        BY <1>a, <3>2 DEF Ctrl, Hist
      <4>2. WaitInv'
        BY <3>1, <4>1 DEF ReadyInv, WaitInv
      <4> QED BY <1>2, <3>1, <4>1, <4>2
    <3>3. CASE ctrl' = [ctrl EXCEPT !.at = "failed"] /\ hist' = hist
      <4>1. ctrl'.at = "failed"
        BY <1>a, <3>3 DEF Ctrl
      <4>2. WaitInv'
        BY <3>1, <3>3, <4>1 DEF ReadyInv, WaitInv
      <4> QED BY <1>2, <3>1, <3>3, <4>2
    <3> QED BY <2>3, <3>2, <3>3 DEF AnswerCtrl
  <2> QED BY <1>3, <2>1, <2>2, <2>3 DEF bus_next
<1>4. CASE client_event_cb \/ \E p \in Port : bulk_in_cb(p) \/ bulk_out_cb(p)
  <2>1. CASE client_event_cb \/ \E p \in Port : bulk_out_cb(p)
    BY <1>1, <2>1 DEF client_event_cb, bulk_out_cb, hostvars
  <2>2. ASSUME NEW p \in Port, bulk_in_cb(p) PROVE ReadyInv'
    <3>1. UNCHANGED <<client, ctrl>> /\ Resubmits(p)
      BY <2>2 DEF bulk_in_cb, hostvars
    <3>2. PICK dropped : hist' = [hist EXCEPT !.dropped = dropped]
      BY <3>1 DEF Resubmits
    <3> QED BY <1>1, <1>a, <3>1, <3>2 DEF Hist
  <2> QED BY <1>4, <2>1, <2>2
<1>5. CASE ctrl_xfer_cb
  <2>1. /\ UNCHANGED <<client, hist>> /\ ctrl.at \in {"done", "failed"}
        /\ ctrl'.at = "idle" /\ ctrl'.DONE = IF ctrl.at = "done" THEN "ok" ELSE "error"
    BY <1>5, <1>a DEF ctrl_xfer_cb, Ctrl
  <2>2. WaitInv'
    BY <2>1 DEF ReadyInv, WaitInv
  <2> QED BY <1>2, <2>1, <2>2
<1>6. CASE client_next
  <2> USE DEF hostvars, hostvars_but_client, invars, Unchanged_but_client
  <2>1. ASSUME client'.at \notin {"ctrl", "wait", "alloc", "reinit"} PROVE ReadyInv'
    BY <2>1 DEF ReadyInv, Asking
  <2>2. ASSUME client'.at = "ctrl", client'.then \notin {"alloc", "reinit"} PROVE ReadyInv'
    BY <2>2 DEF ReadyInv
  <2>3. ASSUME client'.at = "ctrl", Opened'.chip = "CDC" => client'.plan = cdc_acm_init
        PROVE  ReadyInv'
    BY <2>3 DEF ReadyInv, cdc_acm_init, LineCoding
  <2>4. CASE ctrl_submit
    <3>1. /\ client.at = "ctrl" /\ UNCHANGED hist
          /\ \/ /\ ctrl' = [ctrl EXCEPT !.at = "flying", !.req = client.plan[1], !.DONE = "no"]
                /\ client' = [client EXCEPT !.at = "wait"]
             \/ client' = Answered(FALSE)
      BY <2>4 DEF ctrl_submit, submit_control
    <3>2. CASE client' = Answered(FALSE)
      BY <3>1, <3>2, AnsweredReady DEF Asking
    <3>3. CASE /\ ctrl' = [ctrl EXCEPT !.at = "flying", !.req = client.plan[1], !.DONE = "no"]
               /\ client' = [client EXCEPT !.at = "wait"]
      <4>1. /\ ctrl'.at = "flying" /\ ctrl'.req = client.plan[1] /\ ctrl'.DONE = "no"
            /\ client'.at = "wait" /\ client'.plan = client.plan /\ client'.then = client.then
            /\ client'.dev = client.dev /\ (client'.ok <=> client.ok)
        BY <1>a, <3>3 DEF Ctrl, Client
      <4>2. Opened' = Opened /\ Asking
        BY <3>1, <4>1 DEF Opened, Asking
      <4> QED BY <3>1, <4>1, <4>2 DEF ReadyInv
    <3> QED BY <3>1, <3>2, <3>3
  <2>5. CASE ctrl_answered
    <3>1. /\ client.at = "wait" /\ ctrl.DONE # "no" /\ UNCHANGED hist
          /\ client' = Answered(ctrl.DONE = "ok")
      BY <2>5 DEF ctrl_answered
    <3>2. ctrl.DONE = "ok" => client.plan[1] \in hist.accepted \/ client.plan[1] \notin ClassRequests
      BY <3>1 DEF ReadyInv
    <3> DEFINE good == ctrl.DONE = "ok"
    <3>3. good \in BOOLEAN /\ Asking /\ client' = Answered(good)
      BY <3>1 DEF Asking
    <3>4. good => client.plan[1] \in hist.accepted \/ client.plan[1] \notin ClassRequests
      BY <3>2
    <3> HIDE DEF good
    <3> QED BY <3>1, <3>3, <3>4, AnsweredReady
  <2>6. CASE ctrl_timeout
    <3>1. client.at = "wait" /\ UNCHANGED hist /\ client' = Answered(FALSE)
      BY <2>6 DEF ctrl_timeout
    <3> QED BY <3>1, AnsweredReady DEF Asking
  <2>7. CASE scan \/ give_up \/ free
    <3>1. client'.at = "idle"
      BY <2>7 DEF scan, give_up, free, Idle
    <3> QED BY <2>1, <3>1
  <2>8. CASE open_device
    <3>1. CASE client' = client
      <4>1. UNCHANGED ctrl /\ hist'.accepted = hist.accepted
        BY <2>8, <1>a DEF open_device, Hist
      <4> QED BY <1>1, <3>1, <4>1
    <3>2. CASE client' # client
      <4>1. client'.at = "claim"
        BY <2>8, <1>a, <3>2 DEF open_device, Client
      <4> QED BY <2>1, <4>1
    <3> QED BY <3>1, <3>2
  <2>9. ASSUME NEW c, client' = NextPort(c), c \in Client PROVE ReadyInv'
    <3>1. client'.at \in {"claim", "publish"}
      BY <2>9 DEF NextPort, Client
    <3> QED BY <2>1, <3>1
  <2>10. CASE claim
    <3>1. CASE client' = Sends([client EXCEPT !.claimed = @ \cup {client.port}],
                               chip_init(Opened.chip), "alloc")
      <4> DEFINE c == [client EXCEPT !.claimed = @ \cup {client.port}]
      <4>p. client.port \in Port
        <5>1. client.port < Len(eps) /\ client.dev \in Plug
          BY <2>10, <1>a DEF claim, StageInv, Stage, Asking, Client, Plug
        <5>2. Len(eps) \in 1 .. MAX_USB_PORTS
          <6>1. Eps[client.dev] # <<>>
            <7>1. Len(<<>>) = 0
              BY EmptySeq
            <7> QED BY <1>a, <5>1, <7>1 DEF eps, Client
          <6> QED BY <5>1, <6>1, EpsOf DEF eps
        <5> QED BY <1>a, <5>1, <5>2, UsbAssumption DEF Client, Port
      <4>c. c \in Client /\ c.dev = client.dev
        BY <1>a, <4>p DEF Client
      <4>s. client' = Sends(c, chip_init(Opened.chip), "alloc")
        BY <3>1
      <4> HIDE DEF c
      <4>1. /\ client'.at = "ctrl" /\ client'.plan = chip_init(Opened.chip)
            /\ client'.dev = client.dev
        BY <4>c, <4>s, SentOf
      <4>2. Opened' = Opened
        BY <4>1 DEF Opened
      <4>3. Opened'.chip = "CDC" => client'.plan = cdc_acm_init
        BY <4>1, <4>2, ChipPlans
      <4> QED BY <2>3, <4>1, <4>3
    <3>2. CASE client' = NextPort(client)
      BY <1>a, <2>9, <3>2
    <3> QED BY <2>10, <3>1, <3>2 DEF claim
  <2>11. CASE alloc
    <3>1. client.at = "alloc" /\ StageInv
      BY <2>11 DEF alloc
    <3>2. Stage' \in {"claim", "publish", "alloc"} /\ client'.at \in {"claim", "publish"}
      <4>1. client' = NextPort(client) \/ client' = NextPort([client EXCEPT !.active = @ + 1])
        BY <2>11 DEF alloc
      <4> QED BY <1>a, <4>1 DEF NextPort, Client, Stage, Asking
    <3> QED BY <2>1, <3>2
  <2>12. CASE publish \/ recovered \/ resubmit \/ unpublish \/ invalidate
    <3>1. client'.at \in {"serve", "recover", "invalidate", "free"}
      BY <2>12, <1>a DEF publish, recovered, resubmit, unpublish, invalidate, Client
    <3> QED BY <2>1, <3>1
  <2>13. CASE retry
    <3>1. CASE client' = Sends([client EXCEPT !.port = 0], cdc_acm_init, "reinit")
      <4> DEFINE c == [client EXCEPT !.port = 0]
      <4>1. c \in Client /\ client' = Sends(c, cdc_acm_init, "reinit")
        BY <1>a, <3>1, UsbAssumption DEF Client
      <4> HIDE DEF c
      <4>2. client'.at = "ctrl" /\ client'.plan = cdc_acm_init
        BY <4>1, SentOf
      <4> QED BY <2>3, <4>2
    <3>2. CASE client' = [client EXCEPT !.at = "recover", !.port = 0]
      <4>1. client'.at = "recover"
        BY <1>a, <3>2 DEF Client
      <4> QED BY <2>1, <4>1
    <3> QED BY <2>13, <3>1, <3>2 DEF retry
  <2>14. ASSUME NEW plan, NEW then \in {"recover", "recover_out", "resubmit"},
                client' = Sends(client, plan, then)
         PROVE  ReadyInv'
    <3>1. client'.at = "ctrl" /\ client'.then = then
      BY <1>a, <2>14, SentOf
    <3> QED BY <2>2, <3>1
  <2>15. CASE reinit
    <3>1. CASE client' = Sends(client, cdc_acm_init, "recover")
      BY <2>14, <3>1
    <3>2. CASE client' = [client EXCEPT !.at = "recover"]
      <4>1. client'.at = "recover"
        BY <1>a, <3>2 DEF Client
      <4> QED BY <2>1, <4>1
    <3> QED BY <2>15, <3>1, <3>2 DEF reinit
  <2>16. CASE recover_in
    <3>1. CASE client' = Sends(client, <<"CLEAR_FEATURE">>, "recover_out")
      BY <2>14, <3>1
    <3>2. CASE client' = [client EXCEPT !.port = @ + 1] /\ client.at = "recover"
      <4>1. client'.at = "recover"
        BY <1>a, <3>2 DEF Client
      <4> QED BY <2>1, <4>1
    <3> QED BY <2>16, <3>1, <3>2 DEF recover_in
  <2>17. CASE recover_out
    BY <2>14, <2>17 DEF recover_out
  <2> QED BY <1>6, <2>4, <2>5, <2>6, <2>7, <2>8, <2>10, <2>11, <2>12, <2>13, <2>15, <2>16,
             <2>17 DEF client_next
<1>7. CASE \E w \in Writer : write_begin(w) \/ write(w)
  BY <1>1, <1>7, WriteStep
<1>8. CASE UNCHANGED vars
  BY <1>1, <1>8 DEF vars, hostvars
<1> QED BY <1>3, <1>4, <1>5, <1>6, <1>7, <1>8 DEF Next, callbacks
-------------------------------------------------------------------------------
(* The interfaces that are claimed, and the closing of a device.           *)

ClaimedInv == /\ client.dev = 0 => client.claimed = {}
              /\ client.dev # 0 => /\ client.claimed \subseteq 0 .. Len(eps) - 1
                                   /\ client.dev \notin bus.held

\* The step closes no device, or one without an interface claimed.
ClosesClean == client.dev # 0 /\ client'.dev = 0 /\ client.active = Len(eps)
                 => client.dev \notin bus'.held

LEMMA ClaimedStep ==
  ASSUME TypeOK, StageInv, ClaimedInv, [Next]_vars
  PROVE  ClaimedInv' /\ ClosesClean
<1>a. /\ client \in Client /\ client.dev \in 0 .. MaxPlugs /\ client.port \in 0 .. MAX_USB_PORTS
      /\ bus \in Bus /\ MaxPlugs \in Nat /\ NEW_DEV_ADDR \in 0 .. MaxPlugs
  BY UsbAssumption DEF TypeOK, Client
<1>1. ASSUME client'.dev = client.dev, client'.claimed = client.claimed, bus'.held = bus.held
      PROVE  ClaimedInv' /\ ClosesClean
  BY <1>1 DEF ClaimedInv, ClosesClean, eps
<1>2. ASSUME UNCHANGED client, bus'.held = bus.held PROVE ClaimedInv' /\ ClosesClean
  BY <1>1, <1>2
<1>3. CASE bus_next
  <2>1. CASE PlugIn
    <3>1. bus' = [bus EXCEPT !.now = bus.plugs + 1, !.plugs = bus.plugs + 1, !.known = FALSE]
      BY <2>1 DEF PlugIn
    <3> QED BY <1>2, <1>a, <2>1, <3>1 DEF PlugIn, hostvars, Bus
  <2>2. CASE Enumerate
    <3>1. bus' = [bus EXCEPT !.known = TRUE]
      BY <2>2 DEF Enumerate
    <3> QED BY <1>2, <1>a, <2>2, <3>1 DEF Enumerate, hostvars, Bus
  <2>3. CASE Unplug
    <3>1. bus' = [bus EXCEPT !.now = 0]
      BY <2>3 DEF Unplug
    <3> QED BY <1>2, <1>a, <2>3, <3>1 DEF Unplug, Bus
  <2>4. CASE AnswerCtrl \/ \E p \in Port : CompleteIn(p) \/ CompleteOut(p)
    BY <1>2, <2>4 DEF AnswerCtrl, CompleteIn, CompleteOut, hostvars
  <2> QED BY <1>3, <2>1, <2>2, <2>3, <2>4 DEF bus_next
<1>4. CASE client_event_cb \/ callbacks
  BY <1>2, <1>4 DEF client_event_cb, callbacks, ctrl_xfer_cb, bulk_in_cb, bulk_out_cb, hostvars
<1>5. CASE client_next
  <2> USE DEF hostvars, hostvars_but_client, invars, Unchanged_but_client
  <2>1. ASSUME NEW c \in Client, NEW plan, NEW then, client' = Sends(c, plan, then)
        PROVE  client'.dev = c.dev /\ client'.claimed = c.claimed
    BY <2>1 DEF Sends, Client
  <2>2. ASSUME NEW c \in Client, client' = NextPort(c)
        PROVE  client'.dev = c.dev /\ client'.claimed = c.claimed
    BY <2>2 DEF NextPort, Client
  <2>3. ASSUME NEW good, client' = Answered(good)
        PROVE  client'.dev = client.dev /\ client'.claimed = client.claimed
    BY <1>a, <2>3 DEF Answered, Client
  <2>4. CASE ctrl_submit \/ ctrl_answered \/ ctrl_timeout
    <3>1. /\ UNCHANGED bus
          /\ \/ \E good : client' = Answered(good)
             \/ client' = [client EXCEPT !.at = "wait"]
      BY <2>4 DEF ctrl_submit, submit_control, ctrl_answered, ctrl_timeout
    <3>2. client'.dev = client.dev /\ client'.claimed = client.claimed
      BY <1>a, <2>3, <3>1 DEF Client
    <3> QED BY <1>1, <3>1, <3>2
  <2>5. CASE scan
    <3>1. client.dev = 0 /\ client' = Idle
      BY <2>5 DEF scan, StageInv, Stage, Asking
    <3> QED BY <3>1 DEF ClaimedInv, ClosesClean, Idle
  <2>6. CASE open_device
    <3>1. client.dev = 0 /\ UNCHANGED bus
      BY <2>6 DEF open_device, StageInv, Stage, Asking
    <3>2. CASE /\ client' = [client EXCEPT !.at = "claim", !.dev = NEW_DEV_ADDR, !.port = 0, !.active = 0]
               /\ bus.now = NEW_DEV_ADDR /\ bus.now \notin bus.held /\ NEW_DEV_ADDR # 0
      <4>1. client'.dev = NEW_DEV_ADDR /\ client'.claimed = client.claimed
        BY <1>a, <3>2 DEF Client
      <4> QED BY <3>1, <3>2, <4>1 DEF ClaimedInv, ClosesClean
    <3> QED BY <1>2, <2>6, <3>1, <3>2 DEF open_device
  <2>7. CASE claim
    <3> DEFINE c == [client EXCEPT !.claimed = @ \cup {client.port}]
    <3>1. client.dev \in Plug /\ client.port < Len(eps) /\ UNCHANGED bus
      BY <1>a, <2>7 DEF claim, StageInv, Stage, Asking, Plug
    <3>2. Len(eps) \in 1 .. MAX_USB_PORTS
      <4>1. Eps[client.dev] # <<>>
        <5>1. Len(<<>>) = 0
          BY EmptySeq
        <5> QED BY <1>a, <3>1, <5>1 DEF eps
      <4> QED BY <3>1, <4>1, EpsOf DEF eps
    <3>3. client.port \in Port /\ client.port \in 0 .. Len(eps) - 1
      BY <1>a, <3>1, <3>2, UsbAssumption DEF Port
    <3>4. c \in Client /\ c.dev = client.dev /\ c.claimed = client.claimed \cup {client.port}
      BY <1>a, <3>3 DEF Client
    <3>5. CASE client' = Sends(c, chip_init(Opened.chip), "alloc")
      <4>1. client'.dev = client.dev /\ client'.claimed = client.claimed \cup {client.port}
        <5> HIDE DEF c
        <5> QED BY <2>1, <3>4, <3>5
      <4> QED BY <3>1, <3>3, <4>1 DEF ClaimedInv, ClosesClean, eps, Plug
    <3>6. CASE client' = NextPort(client)
      BY <1>1, <1>a, <2>2, <3>1, <3>6
    <3> QED BY <2>7, <3>5, <3>6 DEF claim
  <2>8. CASE alloc
    <3> DEFINE c == [client EXCEPT !.active = @ + 1]
    <3>1. UNCHANGED bus /\ (client' = NextPort(client) \/ client' = NextPort(c))
      BY <2>8 DEF alloc
    <3>2. c.dev = client.dev /\ c.claimed = client.claimed
      BY <1>a DEF Client
    <3>3. client' = NextPort(c) => client'.dev = c.dev /\ client'.claimed = c.claimed
      BY <1>a DEF NextPort, Client
    <3> HIDE DEF c
    <3> QED BY <1>1, <1>a, <2>2, <3>1, <3>2, <3>3
  <2>9. CASE give_up \/ free
    <3>1. client.dev # 0 /\ client'.dev = 0 /\ client'.claimed = {}
      BY <2>9 DEF give_up, free, StageInv, Stage, Asking, Idle
    <3>2. close(client.claimed \ Active)
      BY <2>9 DEF give_up, free, Active
    <3>3. client.active = Len(eps) => client.claimed \ Active = {}
      BY <3>1 DEF ClaimedInv, Active
    <3>4. client.claimed \ Active = {} => client.dev \notin bus'.held
      BY <1>a, <3>1, <3>2 DEF ClaimedInv, close, Bus
    <3> QED BY <3>1, <3>3, <3>4 DEF ClaimedInv, ClosesClean
  <2>10. CASE retry \/ reinit \/ recover_in \/ recover_out
    <3> DEFINE c == [client EXCEPT !.port = 0]
    <3>1. c \in Client /\ c.dev = client.dev /\ c.claimed = client.claimed
      BY <1>a, UsbAssumption DEF Client
    <3>2. \/ \E plan, then : client' = Sends(client, plan, then) \/ client' = Sends(c, plan, then)
          \/ client' = [client EXCEPT !.at = "recover"]
          \/ client' = [client EXCEPT !.at = "recover", !.port = 0]
          \/ client' = [client EXCEPT !.port = @ + 1]
      BY <2>10 DEF retry, reinit, recover_in, recover_out
    <3> HIDE DEF c
    <3>3. client'.dev = client.dev /\ client'.claimed = client.claimed
      BY <1>a, <2>1, <3>1, <3>2 DEF Client
    <3>4. UNCHANGED bus
      BY <2>10 DEF retry, reinit, recover_in, recover_out
    <3> QED BY <1>1, <3>3, <3>4
  <2>11. CASE publish \/ recovered \/ resubmit \/ unpublish \/ invalidate
    <3>1. UNCHANGED bus
          /\ \E at : \/ client' = [client EXCEPT !.at = at]
                     \/ client' = [client EXCEPT !.at = at, !.port = @ + 1]
      BY <2>11 DEF publish, recovered, resubmit, unpublish, invalidate
    <3>2. client'.dev = client.dev /\ client'.claimed = client.claimed
      BY <1>a, <3>1 DEF Client
    <3> QED BY <1>1, <3>1, <3>2
  <2> QED BY <1>5, <2>4, <2>5, <2>6, <2>7, <2>8, <2>9, <2>10, <2>11 DEF client_next
<1>6. CASE \E w \in Writer : write_begin(w) \/ write(w)
  BY <1>2, <1>6, WriteStep
<1>7. CASE UNCHANGED vars
  BY <1>2, <1>7 DEF vars, hostvars
<1> QED BY <1>3, <1>4, <1>5, <1>6, <1>7 DEF Next
-------------------------------------------------------------------------------
(* The invariant, and what follows from it.                                *)

LEMMA UsbInit == Init => UsbInv
<1> SUFFICES ASSUME Init PROVE UsbInv
  OBVIOUS
<1>1. TypeOK
  BY TypeInit
<1>2. /\ client.at = "scan" /\ client.dev = 0 /\ bus.now = 0 /\ bus.plugs = 0 /\ events = <<>>
      /\ Stage = "scan" /\ ~Asking
  BY UsbAssumption DEF Init, Idle, Stage, Asking
<1>3. StageInv
  BY <1>2 DEF Init, StageInv, SetUp, Serving
<1>4. BusInv
  <2>1. Len(events) = 0
    BY <1>2, EmptySeq
  <2>2. 1 .. Len(events) = {}
    BY <2>1
  <2>3. NEW_DEV_ADDR = 0
    BY DEF Init
  <2>4. bus.held = {}
    BY DEF Init
  <2> HIDE DEF Init
  <2> QED BY <1>2, <2>2, <2>3, <2>4 DEF BusInv
<1>5. GoneInv
  BY <1>2 DEF Init, NoOut, GoneInv, Quiet, Serving
<1>6. WriterInv
  BY <1>2 DEF Init, Away, WriterInv, SetUp
<1>7. OwnerInv
  BY DEF Init, Away, NoOut, OwnerInv, Owns, Claims, InFlight
<1>8. InInv
  BY <1>2 DEF Init, InInv, SetUp, Serving
<1>9. ReadyInv
  BY <1>2 DEF ReadyInv
<1> QED BY <1>1, <1>3, <1>4, <1>5, <1>6, <1>7, <1>8, <1>9 DEF UsbInv

LEMMA UsbStep == UsbInv /\ [Next]_vars => UsbInv'
<1> SUFFICES ASSUME UsbInv, [Next]_vars PROVE UsbInv'
  OBVIOUS
<1>1. TypeOK /\ StageInv /\ BusInv /\ GoneInv /\ WriterInv /\ OwnerInv /\ InInv /\ ReadyInv
  BY DEF UsbInv
<1>2. TypeOK' /\ StageInv'
  BY <1>1, TypeAndStageStep
<1>3. BusInv' /\ GoneInv' /\ WriterInv'
  BY <1>1, BusInvStep, GoneInvStep, WriterInvStep
<1>4. OwnerInv' /\ InInv' /\ ReadyInv'
  BY <1>1, OwnerInvStep, InInvStep, ReadyInvStep
<1> QED BY <1>2, <1>3, <1>4 DEF UsbInv

\* The USB host keeps its inductive invariant: the types, the stage the client
\* is at, what the messages of the bus may still say, where transfers may be in
\* flight, and whom the busy flags belong to.
THEOREM UsbInvariant == Spec => []UsbInv
<1>1. Init => UsbInv
  BY UsbInit
<1>2. UsbInv /\ [Next]_vars => UsbInv'
  BY UsbStep
<1> QED BY <1>1, <1>2, PTL DEF Spec

\* The busy flag of usb_cdc_submit_chunk works for any number of tasks: one
\* writer or the transfer itself has a port, and the flag is set exactly then,
\* until a device goes away under a writer that has claimed a port.
THEOREM OneOwnerEver == Spec => []OneOwner
<1>1. UsbInv => OneOwner
  <2> SUFFICES ASSUME OwnerInv, TypeOK, ~hist.stale, NEW p \in Port
               PROVE  LET owners == {w \in Writer : Claims(w) /\ writer[w].port = p}
                          taken  == Cardinality(owners)
                                    + (IF bulk_out[p].at \in {"flying", "done"} THEN 1 ELSE 0)
                      IN  taken <= 1 /\ (bulk_out[p].busy <=> taken = 1)
    BY DEF UsbInv, OneOwner
  <2> DEFINE owners == {w \in Writer : Claims(w) /\ writer[w].port = p}
  <2>1. /\ \A v, w \in owners : v = w
        /\ InFlight(p) => owners = {}
        /\ bulk_out[p].busy <=> InFlight(p) \/ owners # {}
    BY DEF OwnerInv, Owns
  <2>2. CASE owners = {}
    <3>1. Cardinality(owners) = 0
      BY <2>2, FS_EmptySet
    <3> HIDE DEF owners
    <3>2. Cardinality(owners) + (IF bulk_out[p].at \in {"flying", "done"} THEN 1 ELSE 0) = 1
            <=> InFlight(p)
      BY <3>1 DEF InFlight
    <3>3. bulk_out[p].busy <=> InFlight(p)
      BY <2>1, <2>2
    <3> QED BY <3>1, <3>2, <3>3 DEF owners
  <2>3. CASE owners # {}
    <3>1. PICK w \in owners : owners = {w}
      BY <2>1, <2>3
    <3>2. Cardinality(owners) = 1
      BY <3>1, FS_Singleton
    <3>3. ~InFlight(p) /\ bulk_out[p].busy
      BY <2>1, <2>3
    <3> QED BY <3>2, <3>3 DEF InFlight
  <2> QED BY <2>2, <2>3
<1> QED BY <1>1, UsbInvariant, PTL

\* While a device is attached and served, the bulk-IN transfers that rest and
\* that the serving loop of handle_new_device will not submit are those, and
\* only those, whose submit was refused where its result is ignored: at the
\* publishing and in bulk_in_cb.  Errors and the recovery lose none.
THEOREM AlwaysPolled == Spec => []Polled
<1>1. UsbInv => Polled
  <2> SUFFICES ASSUME InInv, client.at \in {"serve", "reinit"}, Attached, NEW p \in Active
               PROVE  bulk_in[p] = "idle" /\ ~NEEDS_RESUBMIT[p] <=> p \in hist.dropped
    BY DEF UsbInv, Polled
  <2>1. Stage = client.at
    BY DEF Stage, Asking
  <2>2. Watched(p) /\ ~Recovering(p)
    BY <2>1 DEF InInv, Serving, Recovering
  <2> QED BY <2>2 DEF Watched
<1> QED BY <1>1, UsbInvariant, PTL

\* cdc_acm_init reports success only when the device accepted both requests of
\* this very set-up, though answers may come late, requests time out and each
\* may be repeated for the data interface.
THEOREM ReadyEver == Spec => []ReadyIsTrue
<1>1. UsbInv => ReadyIsTrue
  BY DEF UsbInv, ReadyInv, ReadyIsTrue, LineCoding, ControlLines
<1> QED BY <1>1, UsbInvariant, PTL

\* Whatever the descriptor of a device (find_all_bulk_eps and the selection in
\* handle_new_device), the ports set up have the endpoints of one interface
\* each, no two the same, and a composite device whose last CDC data interface
\* is serial is served there.
THEOREM PortsPairedEver == Spec => []PortsPaired
<1>1. UsbInv => PortsPaired
  <2> SUFFICES ASSUME TypeOK, StageInv, client.at = "claim"
               PROVE  eps # <<>> /\ Paired(Opened, eps)
    BY DEF UsbInv, PortsPaired
  <2>1. client.dev \in 0 .. MaxPlugs /\ client.port \in 0 .. MAX_USB_PORTS
    BY DEF TypeOK, Client
  <2>2. client.dev \in Plug /\ client.port < Len(eps)
    BY <2>1, UsbAssumption DEF StageInv, Stage, Asking, Plug
  <2>3. Descriptor(Opened.items) /\ Opened.ports \in Nat \ {0}
    BY <2>2, UsbAssumption DEF Opened
  <2>4. eps = eps_to_use(Opened)
    BY <2>2, UsbAssumption DEF eps, Eps, Opened
  <2>5. Paired(Opened, eps)
    BY <2>3, <2>4, EpsPaired, UsbAssumption
  <2>6. eps # <<>>
    <3>1. Len(<<>>) = 0
      BY EmptySeq
    <3> QED BY <2>1, <2>2, <3>1, UsbAssumption
  <2> QED BY <2>5, <2>6
<1> QED BY <1>1, UsbInvariant, PTL

\* A device of which handle_new_device set up every port is closed for good
\* when it is taken down: each interface that was claimed is released before.
THEOREM ClosedCleanEver == Spec => ClosedClean
<1>1. Init => ClaimedInv
  BY DEF Init, Idle, ClaimedInv
<1>2. UsbInv /\ ClaimedInv /\ [Next]_vars => ClaimedInv' /\ ClosesClean
  BY ClaimedStep DEF UsbInv
<1>3. ClosesClean => (client.dev # 0 /\ client'.dev = 0 /\ client.active = Len(eps)
                        => client.dev \notin bus'.held)
  BY DEF ClosesClean
<1> QED BY <1>1, <1>2, <1>3, UsbInvariant, PTL DEF Spec, ClosedClean
===============================================================================
