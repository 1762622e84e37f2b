-------------------------- MODULE PolymarketProofs --------------------------
(* Proofs about the Polymarket client, for any number of calls and URLs and *)
(* any TTLs, cache size, timeout, retries and rate: how old a body can be   *)
(* that a caller gets, and how many requests leave in how many ticks.       *)
EXTENDS PolymarketClient, SequenceTheorems, NatFacts

(* The two uses of Max and Min.                                             *)
LEMMA MinOfTwo ==
  ASSUME NEW a \in Int, NEW b \in Int
  PROVE  Min({a, b}) = IF a <= b THEN a ELSE b
BY DEF Min

(* The larger of two numbers.                                               *)
LEMMA MaxOfTwo ==
  ASSUME NEW a \in Int, NEW b \in Int
  PROVE  Max({a, b}) = IF a >= b THEN a ELSE b
BY DEF Max

(* A function on an initial interval is a sequence.                         *)
LEMMA FunctionIsSeq ==
  ASSUME NEW S, NEW n \in Nat, NEW f \in [1..n -> S]
  PROVE  f \in Seq(S)
OBVIOUS

(* A sequence without its element number k.                                 *)
LEMMA RemoveAtProps ==
  ASSUME NEW S, NEW s \in Seq(S), NEW k \in 1..Len(s)
  PROVE  /\ RemoveAt(s, k) \in Seq(S)
         /\ Len(RemoveAt(s, k)) = Len(s) - 1
         /\ \A i \in 1..Len(s) - 1 : RemoveAt(s, k)[i] = s[IF i < k THEN i ELSE i + 1]
<1> DEFINE a == SubSeq(s, 1, k - 1)
           b == SubSeq(s, k + 1, Len(s))
<1>1. Len(s) \in Nat /\ \A i \in 1..Len(s) : s[i] \in S
  BY LenProperties, ElementOfSeq
<1>2. k \in 1..Len(s) /\ k \in Int
  OBVIOUS
<1>3. /\ a \in Seq(S) /\ Len(a) = IF 1 <= k - 1 THEN k - 1 - 1 + 1 ELSE 0
      /\ \A i \in 1..k - 1 - 1 + 1 : a[i] = s[1 + i - 1]
  <2>1. \A i \in 1..k - 1 : s[i] \in S
    BY <1>1, <1>2
  <2> QED
    BY <1>2, <2>1, SubSeqProperties, 1 \in Int, k - 1 \in Int
<1>4. /\ b \in Seq(S) /\ Len(b) = IF k + 1 <= Len(s) THEN Len(s) - (k + 1) + 1 ELSE 0
      /\ \A i \in 1..Len(s) - (k + 1) + 1 : b[i] = s[k + 1 + i - 1]
  <2>1. \A i \in k + 1..Len(s) : s[i] \in S
    BY <1>1, <1>2
  <2> QED
    BY <1>1, <1>2, <2>1, SubSeqProperties, k + 1 \in Int, Len(s) \in Int
<1>5. Len(a) = k - 1 /\ Len(b) = Len(s) - k
  BY <1>1, <1>2, <1>3, <1>4
<1> HIDE DEF a, b
<1>6. /\ a \o b \in Seq(S) /\ Len(a \o b) = Len(a) + Len(b)
      /\ \A i \in 1..Len(a) + Len(b) : (a \o b)[i] = IF i <= Len(a) THEN a[i] ELSE b[i - Len(a)]
  BY <1>3, <1>4, ConcatProperties
<1>7. \A i \in 1..Len(s) - 1 : (a \o b)[i] = s[IF i < k THEN i ELSE i + 1]
  <2> SUFFICES ASSUME NEW i \in 1..Len(s) - 1
               PROVE  (a \o b)[i] = s[IF i < k THEN i ELSE i + 1]
    OBVIOUS
  <2>1. CASE i < k
    <3>1. (a \o b)[i] = a[i] /\ i \in 1..k - 1 - 1 + 1 /\ 1 + i - 1 = i
      BY <1>1, <1>2, <1>5, <1>6, <2>1
    <3> QED
      BY <1>3, <2>1, <3>1
  <2>2. CASE ~ (i < k)
    <3>1. /\ (a \o b)[i] = b[i - (k - 1)] /\ i - (k - 1) \in 1..Len(s) - (k + 1) + 1
          /\ k + 1 + (i - (k - 1)) - 1 = i + 1
      BY <1>1, <1>2, <1>5, <1>6, <2>2
    <3> QED
      BY <1>4, <2>2, <3>1
  <2> QED
    BY <2>1, <2>2
<1>8. Len(a \o b) = Len(s) - 1
  BY <1>1, <1>2, <1>5, <1>6
<1>9. RemoveAt(s, k) = a \o b
  BY DEF RemoveAt, a, b
<1> QED
  BY <1>6, <1>7, <1>8, <1>9

(* A sequence with an element put before it.                                *)
LEMMA ConsProps ==
  ASSUME NEW S, NEW s \in Seq(S), NEW e \in S
  PROVE  /\ <<e>> \o s \in Seq(S) /\ Len(<<e>> \o s) = Len(s) + 1
         /\ (<<e>> \o s)[1] = e
         /\ \A i \in 2..Len(s) + 1 : (<<e>> \o s)[i] = s[i - 1]
<1>1. Len(s) \in Nat /\ <<e>> \in Seq(S) /\ Len(<<e>>) = 1 /\ <<e>>[1] = e
  BY LenProperties
<1>2. /\ <<e>> \o s \in Seq(S) /\ Len(<<e>> \o s) = Len(<<e>>) + Len(s)
      /\ \A i \in 1..Len(<<e>>) + Len(s) :
           (<<e>> \o s)[i] = IF i <= Len(<<e>>) THEN <<e>>[i] ELSE s[i - Len(<<e>>)]
  BY <1>1, ConcatProperties
<1> QED
  BY <1>1, <1>2

(* A prefix of a sequence.                                                  *)
LEMMA PrefixProps ==
  ASSUME NEW S, NEW s \in Seq(S), NEW m \in 0..Len(s)
  PROVE  /\ SubSeq(s, 1, m) \in Seq(S) /\ Len(SubSeq(s, 1, m)) = m
         /\ \A i \in 1..m : SubSeq(s, 1, m)[i] = s[i]
<1>1. Len(s) \in Nat /\ \A i \in 1..Len(s) : s[i] \in S
  BY LenProperties, ElementOfSeq
<1>2. m \in Nat /\ \A i \in 1..m : s[i] \in S
  BY <1>1
<1>3. /\ SubSeq(s, 1, m) \in Seq(S)
      /\ Len(SubSeq(s, 1, m)) = IF 1 <= m THEN m - 1 + 1 ELSE 0
      /\ \A i \in 1..m - 1 + 1 : SubSeq(s, 1, m)[i] = s[1 + i - 1]
  BY <1>2, SubSeqProperties, 1 \in Int, m \in Int
<1>4. \A i \in 1..m : i \in 1..m - 1 + 1 /\ 1 + i - 1 = i
  BY <1>2
<1>5. \A i \in 1..m : SubSeq(s, 1, m)[i] = s[i]
  BY <1>3, <1>4
<1> QED
  BY <1>2, <1>3, <1>5

(* TTLs are naturals, and MaxTtl is the longest.                            *)
LEMMA Ttls ==
  /\ MaxTtl \in Nat /\ Timeout \in Nat \ {0} /\ Old \in Nat
  /\ \A u \in Url : Ttl(u) \in Nat /\ Ttl(u) <= MaxTtl
<1> DEFINE T == {TTLMetadata, TTLPrice, TTLOrderbook}
<1>1. \E t \in T : \A s \in T : s <= t
  BY TimeAssumption
<1>2. MaxTtl \in T /\ \A s \in T : s <= MaxTtl
  BY <1>1 DEF MaxTtl
<1> QED
  BY <1>2, TimeAssumption DEF Ttl, Old

UniqueUrls(s) == \A i, j \in DOMAIN s : s[i].url = s[j].url => i = j

(* The cache without the entry of a URL.                                    *)
LEMMA WithoutProps ==
  ASSUME cache \in Seq(Entry), UniqueUrls(cache), NEW u
  PROVE  /\ Without(u) \in Seq(Entry) /\ UniqueUrls(Without(u))
         /\ \A e \in Range(Without(u)) : e \in Range(cache) /\ e.url # u
<1>1. Len(cache) \in Nat /\ DOMAIN cache = 1..Len(cache)
  BY LenProperties
<1>2. Range(cache) = {cache[i] : i \in 1..Len(cache)}
  BY <1>1 DEF Range
<1>3. CASE Cached(u) = {}
  BY <1>3 DEF Without, Cached
<1>4. CASE Cached(u) # {}
  <2> DEFINE k == Place(u)
             w == RemoveAt(cache, k)
  <2>1. k \in 1..Len(cache) /\ cache[k].url = u
    <3>1. \E i \in DOMAIN cache : cache[i].url = u
      BY <1>1, <1>2, <1>4 DEF Cached
    <3> QED
      BY <1>1, <3>1 DEF Place
  <2> HIDE DEF k
  <2>2. /\ w \in Seq(Entry) /\ Len(w) = Len(cache) - 1
        /\ \A i \in 1..Len(cache) - 1 : w[i] = cache[IF i < k THEN i ELSE i + 1]
    BY <2>1, RemoveAtProps
  <2>3. DOMAIN w = 1..Len(cache) - 1
    BY <2>2, LenProperties
  <2>4. Without(u) = w
    BY <1>4 DEF Without, k
  <2> HIDE DEF w
  <2> DEFINE at(i) == IF i < k THEN i ELSE i + 1
  <2>5. \A i \in 1..Len(cache) - 1 : at(i) \in 1..Len(cache) /\ at(i) # k
    BY <1>1, <2>1
  <2>6. \A i, j \in 1..Len(cache) - 1 : at(i) = at(j) => i = j
    BY <1>1, <2>1
  <2>7. \A i \in DOMAIN w : w[i] = cache[at(i)] /\ at(i) \in DOMAIN cache /\ at(i) # k
    BY <1>1, <2>2, <2>3, <2>5
  <2> HIDE DEF at
  <2>8. UniqueUrls(w)
    BY <2>3, <2>6, <2>7 DEF UniqueUrls
  <2>9. \A i \in DOMAIN w : w[i] \in Range(cache) /\ w[i].url # u
    BY <1>1, <1>2, <2>1, <2>7 DEF UniqueUrls
  <2>10. \A e \in Range(w) : e \in Range(cache) /\ e.url # u
    BY <2>9 DEF Range
  <2> QED
    BY <2>2, <2>4, <2>8, <2>10
<1> QED
  BY <1>3, <1>4

(* The cache with one entry before the others.                              *)
LEMMA FilledProps ==
  ASSUME cache \in Seq(Entry), UniqueUrls(cache), NEW e \in Entry
  PROVE  /\ <<e>> \o Without(e.url) \in Seq(Entry) /\ UniqueUrls(<<e>> \o Without(e.url))
         /\ \A x \in Range(<<e>> \o Without(e.url)) :
              x = e \/ (x \in Range(cache) /\ x.url # e.url)
<1> DEFINE w == Without(e.url)
           t == <<e>> \o w
<1>1. /\ w \in Seq(Entry) /\ UniqueUrls(w)
      /\ \A x \in Range(w) : x \in Range(cache) /\ x.url # e.url
  BY WithoutProps
<1> HIDE DEF w
<1>2. Len(w) \in Nat /\ DOMAIN w = 1..Len(w) /\ \A i \in 1..Len(w) : w[i] \in Range(w)
  BY <1>1, LenProperties DEF Range
<1>3. /\ t \in Seq(Entry) /\ Len(t) = Len(w) + 1 /\ t[1] = e
      /\ \A i \in 2..Len(w) + 1 : t[i] = w[i - 1]
  BY <1>1, ConsProps
<1>4. DOMAIN t = 1..Len(w) + 1
  BY <1>3, LenProperties
<1> HIDE DEF t
<1>5. \A i \in DOMAIN t : i = 1 \/ (i \in 2..Len(w) + 1 /\ i - 1 \in DOMAIN w)
  BY <1>2, <1>4
<1>6. \A i \in DOMAIN t :
        \/ i = 1 /\ t[i] = e
        \/ i - 1 \in DOMAIN w /\ t[i] = w[i - 1] /\ t[i] \in Range(cache) /\ t[i].url # e.url
  BY <1>1, <1>2, <1>3, <1>5
<1>7. UniqueUrls(t)
  <2> SUFFICES ASSUME NEW i \in DOMAIN t, NEW j \in DOMAIN t, t[i].url = t[j].url
               PROVE  i = j
    BY DEF UniqueUrls
  <2>1. CASE i = 1
    <3>1. t[j].url = e.url
      BY <1>3, <2>1
    <3> QED
      BY <1>6, <2>1, <3>1
  <2>2. CASE j = 1
    <3>1. t[i].url = e.url
      BY <1>3, <2>2
    <3> QED
      BY <1>6, <2>2, <3>1
  <2>3. CASE i # 1 /\ j # 1
    <3>1. i - 1 = j - 1
      BY <1>1, <1>6, <2>3 DEF UniqueUrls
    <3> QED
      BY <1>2, <1>4, <3>1
  <2> QED
    BY <2>1, <2>2, <2>3
<1>8. \A x \in Range(t) : x = e \/ (x \in Range(cache) /\ x.url # e.url)
  BY <1>6 DEF Range
<1> QED
  BY <1>3, <1>7, <1>8 DEF t, w

Added(u, a) == [url |-> u, age |-> a, left |-> Ttl(u)]

(* What put makes of the cache.                                             *)
LEMMA PutProps ==
  ASSUME cache \in Seq(Entry), UniqueUrls(cache), NEW u \in Url, NEW a \in Age
  PROVE  /\ Put(u, a) \in Seq(Entry) /\ UniqueUrls(Put(u, a))
         /\ \A x \in Range(Put(u, a)) :
              \/ Ttl(u) > 0 /\ x = Added(u, a)
              \/ x \in Range(cache) /\ (Ttl(u) <= 0 \/ x.url # u)
<1>1. CASE Ttl(u) <= 0
  BY <1>1 DEF Put
<1>2. CASE ~ (Ttl(u) <= 0)
  <2> DEFINE t == <<Added(u, a)>> \o Without(u)
             m == Min({CacheSize, Len(t)})
  <2>1. Ttl(u) > 0 /\ Ttl(u) \in 0..MaxTtl /\ MaxTtl \in Nat
    BY <1>2, Ttls
  <2>2. Added(u, a) \in Entry /\ Added(u, a).url = u
    BY <2>1 DEF Added, Entry
  <2>3. /\ t \in Seq(Entry) /\ UniqueUrls(t)
        /\ \A x \in Range(t) : x = Added(u, a) \/ (x \in Range(cache) /\ x.url # u)
    BY <2>2, FilledProps
  <2> HIDE DEF t
  <2>4. Len(t) \in Nat /\ DOMAIN t = 1..Len(t)
    BY <2>3, LenProperties
  <2>5. m \in 0..Len(t)
    BY <2>4, MinOfTwo, SizeAssumption
  <2> HIDE DEF m
  <2> DEFINE c == SubSeq(t, 1, m)
  <2>6. c \in Seq(Entry) /\ Len(c) = m /\ \A i \in 1..m : c[i] = t[i]
    BY <2>3, <2>5, PrefixProps
  <2>7. DOMAIN c = 1..m
    BY <2>6, LenProperties
  <2>8. Put(u, a) = c
    BY <1>2 DEF Put, Added, t, m
  <2> HIDE DEF c
  <2>9. \A i \in DOMAIN c : i \in DOMAIN t /\ c[i] = t[i]
    BY <2>4, <2>5, <2>6, <2>7
  <2>10. UniqueUrls(c)
    BY <2>3, <2>9 DEF UniqueUrls
  <2>11. \A x \in Range(c) : x \in Range(t)
    BY <2>9 DEF Range
  <2> QED
    BY <2>1, <2>3, <2>6, <2>8, <2>10, <2>11
<1> QED
  BY <1>1, <1>2

(* What a caller is served, and what that makes of the history.             *)
LEMMA ServeProps ==
  ASSUME TypeOK, NEW u \in Url, NEW a \in Age, Serve(u, a)
  PROVE  /\ served' = [url |-> u, age |-> a, newest |-> newest[u]] /\ served' \in Served
         /\ newest' \in [Url -> Age]
         /\ newest'[u] = IF newest[u] <= a THEN newest[u] ELSE a
         /\ \A v \in Url \ {u} : newest'[v] = newest[v]
<1>1. newest[u] \in Age /\ Age \subseteq Int
  BY Ttls DEF TypeOK, Age
<1>2. Min({newest[u], a}) = IF newest[u] <= a THEN newest[u] ELSE a
  BY <1>1, MinOfTwo
<1> QED
  BY <1>1, <1>2 DEF Serve, Served, TypeOK

(* The entry a hit returns.                                                 *)
LEMMA HitProps ==
  ASSUME TypeOK, NEW u \in Url, NEW e \in Hits(u)
  PROVE  e \in Range(cache) /\ e \in Entry /\ e.url = u /\ e.age \in Age /\ ~Expired(e)
<1>1. e \in Range(cache) /\ e.url = u /\ ~Expired(e)
  BY DEF Hits, Cached
<1>2. e \in Entry
  BY <1>1, ElementOfSeq, LenProperties DEF TypeOK, Range
<1> QED
  BY <1>1, <1>2 DEF Entry

(* A tick makes every entry, and every body on its way, one tick older.     *)
LEMMA OlderProps ==
  ASSUME NEW a \in Age
  PROVE  Older(a) \in Age /\ Older(a) = IF a + 1 <= Old THEN a + 1 ELSE Old
BY Ttls, MinOfTwo DEF Older, Age

(* A clock after a tick.                                                    *)
LEMMA LessProps ==
  ASSUME NEW k \in Nat
  PROVE  Max({0, k - 1}) \in Nat /\ Max({0, k - 1}) = IF k = 0 THEN 0 ELSE k - 1
BY MaxOfTwo

(* What a tick leaves of an entry is in range.                              *)
LEMMA LeftProps ==
  ASSUME NEW l \in -1..MaxTtl
  PROVE  Max({-1, l - 1}) \in -1..MaxTtl /\ Max({-1, l - 1}) = IF l = -1 THEN -1 ELSE l - 1
BY MaxOfTwo, Ttls

(* The cache after a tick: the same entries, each a tick older.             *)
LEMMA TickCache ==
  ASSUME TypeOK, Tick
  PROVE  /\ cache' \in Seq(Entry) /\ DOMAIN cache' = DOMAIN cache
         /\ \A i \in DOMAIN cache :
              /\ cache[i] \in Entry /\ cache'[i].url = cache[i].url
              /\ cache'[i].age = Older(cache[i].age)
              /\ cache'[i].left = IF cache[i].left = -1 THEN -1 ELSE cache[i].left - 1
<1>1. Len(cache) \in Nat /\ DOMAIN cache = 1..Len(cache)
  BY LenProperties DEF TypeOK
<1>2. cache' = [i \in 1..Len(cache) |->
                  [cache[i] EXCEPT !.age = Older(@), !.left = Max({-1, @ - 1})]]
  BY <1>1 DEF Tick
<1>3. ASSUME NEW i \in 1..Len(cache)
      PROVE  /\ cache[i] \in Entry /\ cache'[i] \in Entry
             /\ cache'[i].url = cache[i].url
             /\ cache'[i].age = Older(cache[i].age)
             /\ cache'[i].left = IF cache[i].left = -1 THEN -1 ELSE cache[i].left - 1
  <2>1. cache[i] \in Entry
    BY ElementOfSeq DEF TypeOK
  <2>2. Older(cache[i].age) \in Age
    BY <2>1, OlderProps DEF Entry
  <2>3. /\ Max({-1, cache[i].left - 1}) \in -1..MaxTtl
        /\ Max({-1, cache[i].left - 1}) = IF cache[i].left = -1 THEN -1 ELSE cache[i].left - 1
    BY <2>1, LeftProps DEF Entry
  <2>4. cache'[i] = [cache[i] EXCEPT !.age = Older(@), !.left = Max({-1, @ - 1})]
    BY <1>2
  <2>5. cache'[i] = [url |-> cache[i].url, age |-> Older(cache[i].age),
                     left |-> Max({-1, cache[i].left - 1})]
    BY <2>1, <2>4 DEF Entry
  <2>6. cache'[i] \in Entry
    BY <2>1, <2>2, <2>3, <2>5 DEF Entry
  <2>7. /\ cache'[i].url = cache[i].url /\ cache'[i].age = Older(cache[i].age)
        /\ cache'[i].left = Max({-1, cache[i].left - 1})
    BY <2>5
  <2> QED
    BY <2>1, <2>3, <2>6, <2>7
<1>4. cache' \in [1..Len(cache) -> Entry]
  <2>1. DOMAIN cache' = 1..Len(cache)
    BY <1>2
  <2>2. cache' = [i \in DOMAIN cache' |-> cache'[i]]
    BY <1>2
  <2> QED
    BY <1>3, <2>1, <2>2
<1>5. cache' \in Seq(Entry)
  BY <1>1, <1>4, FunctionIsSeq
<1>6. DOMAIN cache' = DOMAIN cache
  BY <1>1, <1>4
<1> QED
  BY <1>1, <1>3, <1>5, <1>6

(* Numbers of the limiter and of the clocks.                                *)
LEMMA TokenTypes ==
  ASSUME TypeOK
  PROVE  /\ Max({0, tokens}) \in Nat
         /\ Max({0, tokens}) = IF tokens < 0 THEN 0 ELSE tokens
         /\ Max({0, 1 - tokens}) \in Nat
         /\ Max({0, 1 - tokens}) = IF tokens > 0 THEN 0 ELSE 1 - tokens
         /\ Min({tokens + 1, RateBurst}) = IF tokens < RateBurst THEN tokens + 1 ELSE RateBurst
<1>1. tokens \in Int /\ tokens + 1 \in Int /\ 1 - tokens \in Int /\ RateBurst \in Int
  BY SizeAssumption DEF TypeOK
<1>2. Max({0, tokens}) = IF 0 >= tokens THEN 0 ELSE tokens
  BY <1>1, MaxOfTwo
<1>3. Max({0, 1 - tokens}) = IF 0 >= 1 - tokens THEN 0 ELSE 1 - tokens
  BY <1>1, MaxOfTwo
<1>4. Min({tokens + 1, RateBurst}) = IF tokens + 1 <= RateBurst THEN tokens + 1 ELSE RateBurst
  BY <1>1, MinOfTwo
<1>5. Max({0, tokens}) \in Nat /\ Max({0, tokens}) = IF tokens < 0 THEN 0 ELSE tokens
  BY <1>1, <1>2
<1>6. Max({0, 1 - tokens}) \in Nat /\ Max({0, 1 - tokens}) = IF tokens > 0 THEN 0 ELSE 1 - tokens
  BY <1>1, <1>3
<1>7. Min({tokens + 1, RateBurst}) = IF tokens < RateBurst THEN tokens + 1 ELSE RateBurst
  BY <1>1, <1>4
<1> QED
  BY <1>5, <1>6, <1>7

(* The initial state has its types.                                         *)
LEMMA InitType == Init => TypeOK
<1> SUFFICES ASSUME Init PROVE TypeOK
  OBVIOUS
<1>1. (CHOOSE u \in Url : TRUE) \in Url
  BY SizeAssumption
<1>2. 0 \in 0..Retries /\ 0 \in Nat /\ 0 \in Age /\ Old \in Age /\ 0 \in 0..MaxCancels
  BY TimeAssumption, Ttls DEF Age
<1>3. << >> \in Seq(Entry)
  BY EmptySeq
<1> QED
  BY <1>1, <1>2, <1>3, SizeAssumption DEF Init, TypeOK, PC

(* The calls' variables keep their types.                                   *)
CallTypes ==
  /\ pc \in [Caller -> PC] /\ url \in [Caller -> Url]
  /\ attempt \in [Caller -> 0..Retries]
  /\ clock \in [Caller -> Nat] /\ answer \in [Caller -> Age]

(* A call that fails keeps them.                                            *)
LEMMA FailTypes ==
  ASSUME TypeOK, NEW c \in Caller, Fail(c)
  PROVE  CallTypes' /\ newest' \in [Url -> Age] /\ served' \in Served \cup {Nothing}
<1>1. 0 \in 0..Retries /\ 0 \in Nat /\ 0 \in Age
  BY TimeAssumption, Ttls DEF Age
<1> QED
  BY <1>1 DEF Fail, Goto, Quiet, TypeOK, CallTypes, PC

(* A call that goes to sleep has an attempt left, and keeps them.           *)
LEMMA SleepTypes ==
  ASSUME TypeOK, NEW c \in Caller, attempt[c] < Retries,
         NEW pauses \in SUBSET Nat, Sleep(c, pauses)
  PROVE  CallTypes' /\ newest' \in [Url -> Age] /\ served' \in Served \cup {Nothing}
<1>1. attempt[c] + 1 \in 0..Retries
  BY TimeAssumption DEF TypeOK
<1> QED
  BY <1>1 DEF Sleep, Goto, Quiet, TypeOK, CallTypes, PC

(* Every step keeps the types.                                              *)
LEMMA TypeStep ==
  ASSUME TypeOK, UniqueUrls(cache), [Next]_vars
  PROVE  TypeOK'
<1>1. ASSUME NEW c \in Caller, Get(c) PROVE TypeOK'
  <2>1. PICK u \in Url : getJSON(c, u)
    BY <1>1 DEF Get
  <2>2. CASE \E e \in Hits(u) :
               cache' = <<e>> \o Without(u) /\ Serve(u, e.age) /\ UNCHANGED call
    <3>1. PICK e \in Hits(u) :
            cache' = <<e>> \o Without(u) /\ Serve(u, e.age) /\ UNCHANGED call
      BY <2>2
    <3>2. e \in Entry /\ e.url = u /\ e.age \in Age
      BY HitProps
    <3>3. cache' \in Seq(Entry)
      BY <3>1, <3>2, FilledProps DEF TypeOK
    <3>4. newest' \in [Url -> Age] /\ served' \in Served
      BY <3>1, <3>2, ServeProps
    <3> QED
      BY <2>1, <3>1, <3>3, <3>4 DEF getJSON, call, TypeOK
  <2>3. CASE Hits(u) = {} /\ cache' = Without(u) /\ Goto(c, "reserve")
             /\ url' = [url EXCEPT ![c] = u] /\ Quiet /\ UNCHANGED <<attempt, clock, answer>>
    <3>1. cache' \in Seq(Entry)
      BY <2>3, WithoutProps DEF TypeOK
    <3> QED
      BY <2>1, <2>3, <3>1 DEF getJSON, Goto, Quiet, TypeOK, PC
  <2> QED
    BY <2>1, <2>2, <2>3 DEF getJSON
<1>2. ASSUME NEW c \in Caller, Wait(c) PROVE TypeOK'
  <2>1. clock' \in [Caller -> Nat] /\ pc' \in [Caller -> PC]
    BY <1>2, TokenTypes DEF Wait, Goto, TypeOK, PC
  <2>2. tokens' \in Int /\ tokens' <= RateBurst
    BY <1>2, SizeAssumption DEF Wait, TypeOK
  <2> QED
    BY <1>2, <2>1, <2>2 DEF Wait, Quiet, TypeOK
<1>3. ASSUME NEW c \in Caller, Do(c) PROVE TypeOK'
  <2>1. recent' \in [1..Window -> Nat]
    BY <1>3, TimeAssumption DEF Do, TypeOK
  <2>2. clock' \in [Caller -> Nat] /\ pc' \in [Caller -> PC]
    BY <1>3, TimeAssumption DEF Do, Goto, TypeOK, PC
  <2>3. UNCHANGED <<url, attempt, answer, cache, tokens, cancels, newest>> /\ served' = Nothing
    BY <1>3 DEF Do, Quiet
  <2> QED
    BY <2>1, <2>2, <2>3 DEF TypeOK
<1>4. ASSUME NEW c \in Caller, Respond(c) \/ ReadAll(c) \/ Wake(c) PROVE TypeOK'
  <2>1. CASE Respond(c)
    BY <2>1 DEF Respond, Goto, Quiet, TypeOK, PC
  <2>2. CASE ReadAll(c)
    BY <2>2 DEF ReadAll, Goto, Quiet, TypeOK, PC
  <2>3. CASE Wake(c)
    BY <2>3 DEF Wake, Goto, Quiet, TypeOK, PC
  <2> QED
    BY <1>4, <2>1, <2>2, <2>3
<1>5. ASSUME NEW c \in Caller, Return(c) PROVE TypeOK'
  <2>1. url[c] \in Url /\ answer[c] \in Age /\ 0 \in Age /\ 0 \in 0..Retries
    BY TimeAssumption, Ttls DEF TypeOK, Age
  <2>2. cache' \in Seq(Entry)
    BY <1>5, <2>1, PutProps DEF Return, TypeOK
  <2>3. newest' \in [Url -> Age] /\ served' \in Served
    BY <1>5, <2>1, ServeProps DEF Return
  <2> QED
    BY <1>5, <2>1, <2>2, <2>3 DEF Return, Goto, TypeOK, PC
<1>6. ASSUME NEW c \in Caller, Throttled(c) \/ Broken(c) PROVE TypeOK'
  <2>1. CASE attempt[c] < Retries
    <3>1. Backoff[attempt[c]] \in SUBSET Nat /\ Backoff[attempt[c]] \cup RetryAfter \in SUBSET Nat
      <4>1. attempt[c] \in 0..Retries - 1
        BY <2>1, TimeAssumption DEF TypeOK
      <4>2. Backoff[attempt[c]] \in SUBSET (Nat \ {0})
        BY <4>1, TimeAssumption
      <4> QED
        BY <4>2, TimeAssumption
    <3>2. \E pauses \in SUBSET Nat : Sleep(c, pauses)
      BY <1>6, <2>1, <3>1, TimeAssumption DEF Throttled, Broken, TypeOK
    <3>3. CallTypes' /\ newest' \in [Url -> Age] /\ served' \in Served \cup {Nothing}
      BY <2>1, <3>2, SleepTypes
    <3> QED
      BY <1>6, <3>3 DEF Throttled, Broken, CallTypes, TypeOK
  <2>2. CASE ~ (attempt[c] < Retries)
    <3>1. Fail(c)
      BY <1>6, <2>2 DEF Throttled, Broken
    <3> QED
      BY <1>6, <3>1, FailTypes DEF Throttled, Broken, CallTypes, TypeOK
  <2> QED
    BY <2>1, <2>2
<1>7. ASSUME NEW c \in Caller, Refused(c) \/ Overdue(c) PROVE TypeOK'
  BY <1>7, FailTypes DEF Refused, Overdue, CallTypes, TypeOK
<1>8. ASSUME NEW c \in Caller, Cancelled(c) PROVE TypeOK'
  <2>1. tokens' \in Int /\ tokens' <= RateBurst /\ cancels' \in 0..MaxCancels
    BY <1>8, SizeAssumption, TimeAssumption DEF Cancelled, TypeOK
  <2> QED
    BY <1>8, <2>1, FailTypes DEF Cancelled, CallTypes, TypeOK
<1>9. CASE Tick
  <2>1. cache' \in Seq(Entry)
    BY <1>9, TickCache
  <2>2. clock' \in [Caller -> Nat] /\ answer' \in [Caller -> Age] /\ newest' \in [Url -> Age]
    BY <1>9, LessProps, OlderProps DEF Tick, TypeOK
  <2>3. tokens' \in Int /\ tokens' <= RateBurst
    <3>1. tokens' = Min({tokens + 1, RateBurst})
      BY <1>9 DEF Tick
    <3>2. tokens \in Int /\ RateBurst \in Int
      BY SizeAssumption DEF TypeOK
    <3> QED
      BY <3>1, <3>2, TokenTypes
  <2>4. recent' \in [1..Window -> Nat]
    <3>1. recent' = [i \in 1..Window |-> IF i = 1 THEN 0 ELSE recent[i - 1]]
      BY <1>9 DEF Tick
    <3>2. \A i \in 1..Window : i # 1 => i - 1 \in 1..Window
      BY TimeAssumption
    <3> QED
      BY <3>1, <3>2 DEF TypeOK
  <2> QED
    BY <1>9, <2>1, <2>2, <2>3, <2>4 DEF Tick, TypeOK
<1>10. CASE UNCHANGED vars
  BY <1>10 DEF vars, call, TypeOK
<1> QED
  BY <1>1, <1>2, <1>3, <1>4, <1>5, <1>6, <1>7, <1>8, <1>9, <1>10 DEF Next, Step

(* Every step keeps what a body's age and its request's time add up to.     *)
LEMMA BodyStep ==
  ASSUME TypeOK, BodyInv, [Next]_vars
  PROVE  BodyInv'
<1> USE Ttls
<1>1. ASSUME NEW c \in Caller, Get(c) PROVE BodyInv'
  <2>1. PICK u \in Url : getJSON(c, u)
    BY <1>1 DEF Get
  <2>2. CASE UNCHANGED call
    BY <2>2 DEF call, BodyInv
  <2>3. CASE pc[c] = "idle" /\ Goto(c, "reserve") /\ UNCHANGED <<clock, answer>>
    BY <2>3 DEF Goto, BodyInv, TypeOK
  <2> QED
    BY <2>1, <2>2, <2>3 DEF getJSON, At
<1>2. ASSUME NEW c \in Caller, Wait(c) PROVE BodyInv'
  BY <1>2 DEF Wait, At, Goto, BodyInv, TypeOK
<1>3. ASSUME NEW c \in Caller, Do(c) PROVE BodyInv'
  BY <1>3 DEF Do, At, Goto, BodyInv, TypeOK
<1>4. ASSUME NEW c \in Caller, Respond(c) PROVE BodyInv'
  BY <1>4 DEF Respond, At, Goto, BodyInv, TypeOK
<1>5. ASSUME NEW c \in Caller, ReadAll(c) PROVE BodyInv'
  <2>1. answer[c] \in Nat /\ clock[c] \in Nat /\ answer[c] + clock[c] <= Timeout
    BY <1>5 DEF ReadAll, At, BodyInv, TypeOK, Age
  <2>2. answer[c] + 0 <= Timeout
    BY <2>1
  <2> QED
    BY <1>5, <2>2 DEF ReadAll, At, Goto, BodyInv, TypeOK
<1>6. ASSUME NEW c \in Caller, Wake(c) PROVE BodyInv'
  BY <1>6 DEF Wake, At, Goto, BodyInv, TypeOK
<1>7. ASSUME NEW c \in Caller, Return(c) PROVE BodyInv'
  BY <1>7 DEF Return, At, Goto, BodyInv, TypeOK
<1>8. ASSUME NEW c \in Caller, Fail(c) PROVE BodyInv'
  BY <1>8 DEF Fail, Goto, BodyInv, TypeOK
<1>9. ASSUME NEW c \in Caller, At(c, "sent"), NEW pauses, Sleep(c, pauses) PROVE BodyInv'
  BY <1>9 DEF Sleep, At, Goto, BodyInv, TypeOK
<1>10. CASE Tick
  <2> SUFFICES ASSUME NEW c \in Caller
               PROVE  /\ pc[c] \in {"sent", "answered", "got"} => answer'[c] + clock'[c] <= Timeout
                      /\ pc[c] \notin {"answered", "got"} => answer'[c] = 0
    BY <1>10 DEF Tick, BodyInv
  <2>1. clock[c] \in Nat /\ answer[c] \in Age /\ answer[c] \in Nat
    BY DEF TypeOK, Age
  <2>2. clock'[c] = IF clock[c] = 0 THEN 0 ELSE clock[c] - 1
    BY <1>10, <2>1, LessProps DEF Tick
  <2>3. answer'[c] = IF At(c, "answered") THEN Older(answer[c]) ELSE answer[c]
    BY <1>10 DEF Tick
  <2>4. Older(answer[c]) \in Nat /\ Older(answer[c]) <= answer[c] + 1
    BY <2>1, OlderProps DEF Age
  <2>5. pc[c] # "got" /\ (pc[c] \in {"sent", "answered"} => clock[c] # 0)
    BY <1>10 DEF Tick, Due
  <2>6. pc[c] \in {"sent", "answered"} => answer[c] + clock[c] <= Timeout
    BY DEF BodyInv
  <2>7. pc[c] # "answered" => answer'[c] = answer[c]
    BY <2>3 DEF At
  <2>8. CASE pc[c] = "answered"
    BY <2>1, <2>2, <2>3, <2>4, <2>5, <2>6, <2>8 DEF At
  <2>9. CASE pc[c] = "sent"
    BY <2>1, <2>2, <2>5, <2>6, <2>7, <2>9 DEF BodyInv
  <2>10. CASE pc[c] \notin {"sent", "answered"}
    BY <2>5, <2>7, <2>10 DEF BodyInv
  <2> QED
    BY <2>8, <2>9, <2>10
<1>11. CASE UNCHANGED vars
  BY <1>11 DEF vars, call, BodyInv
<1> QED
  BY <1>1, <1>2, <1>3, <1>4, <1>5, <1>6, <1>7, <1>8, <1>9, <1>10, <1>11
     DEF Next, Step, Throttled, Broken, Refused, Overdue, Cancelled

(* An entry of a hit, and a body that came back, are both within the bounds *)
(* of what may be served.                                                   *)
Fresh(u, a) == a <= Ttl(u) + Timeout /\ a <= newest[u] + Timeout

(* A live entry may be served.                                              *)
LEMMA HitIsFresh ==
  ASSUME TypeOK, CacheInv, NEW u \in Url, NEW e \in Hits(u)
  PROVE  Fresh(u, e.age) /\ Ttl(u) > 0 /\ e.age + e.left <= Ttl(u) + Timeout
<1>1. e \in Range(cache) /\ e \in Entry /\ e.url = u /\ ~Expired(e)
  BY HitProps
<1>2. Ttl(u) > 0 /\ e.age <= newest[u] + Timeout /\ e.age + e.left <= Ttl(u) + Timeout
  BY <1>1 DEF CacheInv
<1>3. e.age \in Nat /\ e.left \in Nat
  BY <1>1, Ttls DEF Entry, Age, Expired
<1>4. Ttl(u) \in Nat /\ Timeout \in Nat
  BY Ttls
<1> QED
  BY <1>2, <1>3, <1>4 DEF Fresh

(* A body that was read to its end may be served.                           *)
LEMMA BodyIsFresh ==
  ASSUME TypeOK, BodyInv, NEW c \in Caller, At(c, "got")
  PROVE  Fresh(url[c], answer[c]) /\ answer[c] <= Timeout
<1>1. answer[c] \in Nat /\ clock[c] \in Nat /\ url[c] \in Url /\ newest[url[c]] \in Nat
  BY Ttls DEF TypeOK, Age
<1>2. answer[c] + clock[c] <= Timeout
  BY DEF BodyInv, At
<1> QED
  BY <1>1, <1>2, Ttls DEF Fresh

(* Serving a body whose age is in bounds: what is served is, and so are the *)
(* ages of the entries that were.                                           *)
LEMMA ServeFresh ==
  ASSUME TypeOK, NEW u \in Url, NEW a \in Age, Serve(u, a), Fresh(u, a)
  PROVE  FreshEnough' /\ GoesBackLittle'
<1>1. served' = [url |-> u, age |-> a, newest |-> newest[u]]
  BY ServeProps
<1> QED
  BY <1>1 DEF FreshEnough, GoesBackLittle, Fresh, Ttl

(* A step that returns nothing serves nothing stale.                        *)
LEMMA QuietFresh ==
  ASSUME served' = Nothing
  PROVE  FreshEnough' /\ GoesBackLittle'
BY DEF FreshEnough, GoesBackLittle

(* Every step keeps what is in the cache in bounds, and serves nothing      *)
(* beyond them.                                                             *)
EntryOK(e, n) ==
  /\ Ttl(e.url) > 0 /\ e.age <= n[e.url] + Timeout
  /\ ~Expired(e) => e.age + e.left <= Ttl(e.url) + Timeout

(* The step of the cache part of the invariant, one case per action.        *)
LEMMA CacheStep ==
  ASSUME TypeOK, BodyInv, CacheInv, FreshEnough, GoesBackLittle, [Next]_vars
  PROVE  CacheInv' /\ FreshEnough' /\ GoesBackLittle'
<1>1. /\ cache \in Seq(Entry) /\ UniqueUrls(cache) /\ \A x \in Range(cache) : EntryOK(x, newest)
      /\ \A x \in Range(cache) : x \in Entry
  <2>1. cache \in Seq(Entry) /\ UniqueUrls(cache) /\ \A x \in Range(cache) : EntryOK(x, newest)
    BY DEF TypeOK, CacheInv, UniqueUrls, EntryOK
  <2>2. \A x \in Range(cache) : x \in Entry
    BY <2>1, ElementOfSeq, LenProperties DEF Range
  <2> QED
    BY <2>1, <2>2
<1>2. CacheInv' <=> UniqueUrls(cache') /\ \A x \in Range(cache') : EntryOK(x, newest')
  BY DEF CacheInv, UniqueUrls, EntryOK, Range, Ttl, Expired
<1>3. ASSUME UNCHANGED newest PROVE \A x \in Range(cache) : EntryOK(x, newest')
  BY <1>1, <1>3 DEF EntryOK, Ttl, Expired
<1>4. ASSUME UNCHANGED <<cache, newest>> PROVE CacheInv'
  BY <1>1, <1>2, <1>3, <1>4
<1>5. ASSUME NEW u \in Url, NEW a \in Age, Serve(u, a)
      PROVE  \A x \in Range(cache) : x.url # u => EntryOK(x, newest')
  <2> SUFFICES ASSUME NEW x \in Range(cache), x.url # u PROVE EntryOK(x, newest')
    OBVIOUS
  <2>1. x.url \in Url /\ newest'[x.url] = newest[x.url]
    BY <1>1, <1>5, ServeProps DEF Entry
  <2> QED
    BY <1>1, <2>1 DEF EntryOK, Ttl, Expired
<1>6. ASSUME NEW c \in Caller, Get(c) PROVE CacheInv' /\ FreshEnough' /\ GoesBackLittle'
  <2>1. PICK u \in Url : getJSON(c, u)
    BY <1>6 DEF Get
  <2>2. CASE \E e \in Hits(u) : cache' = <<e>> \o Without(u) /\ Serve(u, e.age)
    <3>1. PICK e \in Hits(u) : cache' = <<e>> \o Without(u) /\ Serve(u, e.age)
      BY <2>2
    <3>2. e \in Range(cache) /\ e \in Entry /\ e.url = u /\ e.age \in Age
      BY HitProps
    <3>3. Fresh(u, e.age) /\ Ttl(u) > 0 /\ e.age + e.left <= Ttl(u) + Timeout
      BY HitIsFresh
    <3>4. /\ UniqueUrls(cache')
          /\ \A x \in Range(cache') : x = e \/ (x \in Range(cache) /\ x.url # u)
      BY <1>1, <3>1, <3>2, FilledProps
    <3>5. EntryOK(e, newest')
      <4>1. newest'[u] = IF newest[u] <= e.age THEN newest[u] ELSE e.age
        BY <3>1, <3>2, ServeProps
      <4>2. newest[u] \in Nat /\ e.age \in Nat /\ Timeout \in Nat
        BY <3>2, Ttls DEF TypeOK, Age
      <4>3. e.age <= newest'[u] + Timeout
        BY <3>3, <4>1, <4>2 DEF Fresh
      <4> QED
        BY <3>2, <3>3, <4>3 DEF EntryOK, Ttl, Expired
    <3>6. CacheInv'
      BY <1>2, <1>5, <3>1, <3>2, <3>4, <3>5
    <3> QED
      BY <3>1, <3>2, <3>3, <3>6, ServeFresh
  <2>3. CASE cache' = Without(u) /\ Quiet
    <3>1. UniqueUrls(cache') /\ \A x \in Range(cache') : x \in Range(cache)
      BY <1>1, <2>3, WithoutProps
    <3> QED
      BY <1>2, <1>3, <2>3, <3>1, QuietFresh DEF Quiet
  <2> QED
    BY <2>1, <2>2, <2>3 DEF getJSON
<1>7. ASSUME NEW c \in Caller, Return(c) PROVE CacheInv' /\ FreshEnough' /\ GoesBackLittle'
  <2>10. PICK u, a : u = url[c] /\ a = answer[c]
    OBVIOUS
  <2>1. u \in Url /\ a \in Age /\ a \in Nat /\ newest[u] \in Nat /\ Timeout \in Nat /\ Ttl(u) \in Nat
    BY <2>10, Ttls DEF TypeOK, Age
  <2>2. Serve(u, a) /\ cache' = Put(u, a) /\ At(c, "got")
    BY <1>7, <2>10 DEF Return
  <2>3. Fresh(u, a) /\ a <= Timeout
    BY <2>10, <2>2, BodyIsFresh
  <2>4. /\ UniqueUrls(cache')
        /\ \A x \in Range(cache') :
             \/ Ttl(u) > 0 /\ x = Added(u, a)
             \/ x \in Range(cache) /\ (Ttl(u) <= 0 \/ x.url # u)
    BY <1>1, <2>1, <2>2, PutProps
  <2>5. ASSUME Ttl(u) > 0 PROVE EntryOK(Added(u, a), newest')
    <3>1. newest'[u] = IF newest[u] <= a THEN newest[u] ELSE a
      BY <2>1, <2>2, ServeProps
    <3>2. a <= newest'[u] + Timeout /\ a + Ttl(u) <= Ttl(u) + Timeout
      BY <2>1, <2>3, <3>1
    <3>3. Added(u, a).url = u /\ Added(u, a).age = a /\ Added(u, a).left = Ttl(u)
      BY DEF Added
    <3> QED
      BY <2>5, <3>2, <3>3 DEF EntryOK, Ttl, Expired
  <2>6. ASSUME NEW x \in Range(cache) PROVE Ttl(x.url) > 0 /\ Ttl(x.url) \in Nat
    BY <1>1, <2>6, Ttls DEF EntryOK, Entry
  <2>7. ASSUME NEW x \in Range(cache'), x # Added(u, a) PROVE EntryOK(x, newest')
    <3>1. x \in Range(cache) /\ (Ttl(u) <= 0 \/ x.url # u)
      BY <2>4, <2>7
    <3>2. x.url # u
      BY <2>1, <2>6, <3>1
    <3> QED
      BY <1>5, <2>1, <2>2, <3>1, <3>2
  <2>8. ASSUME Added(u, a) \in Range(cache') PROVE EntryOK(Added(u, a), newest')
    <3>1. Added(u, a).url = u
      BY DEF Added
    <3>2. Ttl(u) > 0 \/ (Added(u, a) \in Range(cache) /\ Ttl(u) <= 0)
      BY <2>4, <2>8, <3>1
    <3>3. Ttl(u) > 0
      BY <2>1, <2>6, <3>1, <3>2
    <3> QED
      BY <2>5, <3>3
  <2>9. CacheInv'
    BY <1>2, <2>4, <2>7, <2>8
  <2> QED
    BY <2>1, <2>2, <2>3, <2>9, ServeFresh
<1>8. CASE Tick
  <2>1. /\ DOMAIN cache' = DOMAIN cache
        /\ \A i \in DOMAIN cache :
              /\ cache[i] \in Entry /\ cache'[i].url = cache[i].url
              /\ cache'[i].age = Older(cache[i].age)
              /\ cache'[i].left = IF cache[i].left = -1 THEN -1 ELSE cache[i].left - 1
    BY <1>8, TickCache
  <2>2. UniqueUrls(cache')
    BY <1>1, <2>1 DEF UniqueUrls
  <2>3. ASSUME NEW i \in DOMAIN cache PROVE EntryOK(cache'[i], newest')
    <3> DEFINE e == cache[i]
               f == cache'[i]
    <3>1. e \in Entry /\ e.url \in Url /\ e.age \in Age /\ e.left \in -1..MaxTtl /\ EntryOK(e, newest)
      BY <1>1, <2>1 DEF Entry, Range
    <3>2. f.url = e.url /\ f.age = Older(e.age) /\ f.left = IF e.left = -1 THEN -1 ELSE e.left - 1
      BY <2>1
    <3> HIDE DEF e, f
    <3>3. newest[e.url] \in Age /\ newest'[e.url] = Older(newest[e.url])
      BY <1>8, <3>1 DEF Tick, TypeOK
    <3>4. /\ Older(e.age) = IF e.age + 1 <= Old THEN e.age + 1 ELSE Old
          /\ Older(newest[e.url]) = IF newest[e.url] + 1 <= Old THEN newest[e.url] + 1 ELSE Old
      BY <3>1, <3>3, OlderProps
    <3>5. /\ e.age \in Nat /\ newest[e.url] \in Nat /\ e.age <= Old /\ newest[e.url] <= Old
          /\ Old \in Nat /\ Timeout \in Nat /\ MaxTtl \in Nat /\ Ttl(e.url) \in Nat
      BY <3>1, <3>3, Ttls DEF Age
    <3>6. f.age <= newest'[f.url] + Timeout
      BY <3>1, <3>2, <3>3, <3>4, <3>5 DEF EntryOK
    <3>7. ASSUME ~ (f.left < 0) PROVE f.age + f.left <= Ttl(f.url) + Timeout
      <4>1. e.left \in Nat /\ f.left = e.left - 1
        BY <3>1, <3>2, <3>5, <3>7
      <4>2. e.age + e.left <= Ttl(e.url) + Timeout
        BY <3>1, <3>5, <4>1 DEF EntryOK, Expired
      <4>3. Older(e.age) \in Nat /\ Older(e.age) <= e.age + 1
        BY <3>4, <3>5
      <4> QED
        BY <3>2, <3>5, <4>1, <4>2, <4>3
    <3>8. Ttl(f.url) > 0
      BY <3>1, <3>2 DEF EntryOK
    <3>9. EntryOK(f, newest')
      BY <3>6, <3>7, <3>8 DEF EntryOK, Expired
    <3> QED
      BY <3>9 DEF f
  <2>4. \A x \in Range(cache') : EntryOK(x, newest')
    BY <2>1, <2>3 DEF Range
  <2>5. served' = Nothing
    BY <1>8 DEF Tick
  <2> QED
    BY <1>2, <2>2, <2>4, <2>5, QuietFresh
<1>9. ASSUME UNCHANGED cache, Quiet PROVE CacheInv' /\ FreshEnough' /\ GoesBackLittle'
  BY <1>4, <1>9, QuietFresh DEF Quiet
<1>10. CASE UNCHANGED vars
  BY <1>4, <1>10 DEF vars, FreshEnough, GoesBackLittle
<1>11. ASSUME NEW c \in Caller,
              \/ Wait(c) \/ Do(c) \/ ReadAll(c) \/ Overdue(c) \/ Wake(c) \/ Respond(c)
              \/ Throttled(c) \/ Broken(c) \/ Refused(c) \/ Cancelled(c)
       PROVE UNCHANGED cache /\ Quiet
  BY <1>11 DEF Wait, Do, ReadAll, Overdue, Wake, Respond, Throttled, Broken, Refused, Cancelled,
               Fail, Sleep
<1> QED
  BY <1>6, <1>7, <1>8, <1>9, <1>10, <1>11 DEF Next, Step

(* The sums of a sequence of naturals exist.                                *)
LEMMA SumsExist ==
  ASSUME NEW W \in Nat, NEW f \in [1..W -> Nat]
  PROVE  \E g \in [0..W -> Nat] : g = [n \in 0..W |-> IF n = 0 THEN 0 ELSE f[n] + g[n - 1]]
<1> DEFINE Sums(m, g) == g[0] = 0 /\ \A n \in 1..m : g[n] = f[n] + g[n - 1]
           P == {m \in 0..W : \E g \in [0..m -> Nat] : Sums(m, g)}
<1>1. 0 \in P
  <2>1. [n \in 0..0 |-> 0] \in [0..0 -> Nat] /\ Sums(0, [n \in 0..0 |-> 0])
    OBVIOUS
  <2>2. \E g \in [0..0 -> Nat] : Sums(0, g)
    BY <2>1
  <2>3. 0 \in 0..W
    OBVIOUS
  <2> HIDE DEF Sums
  <2> QED
    BY <2>2, <2>3
<1>2. ASSUME NEW m \in 1..W, m - 1 \in P PROVE m \in P
  <2>1. PICK g \in [0..m - 1 -> Nat] : Sums(m - 1, g)
    BY <1>2
  <2> DEFINE h == [n \in 0..m |-> IF n = m THEN f[m] + g[m - 1] ELSE g[n]]
  <2>2. g[m - 1] \in Nat /\ f[m] \in Nat
    BY <2>1
  <2>3. h \in [0..m -> Nat]
    BY <2>1, <2>2
  <2>4. \A n \in 0..m - 1 : h[n] = g[n]
    OBVIOUS
  <2>5. h[m] = f[m] + g[m - 1]
    OBVIOUS
  <2> HIDE DEF h
  <2>6. Sums(m, h)
    <3>1. h[0] = 0
      BY <2>1, <2>4
    <3>2. ASSUME NEW n \in 1..m PROVE h[n] = f[n] + h[n - 1]
      <4>1. n - 1 \in 0..m - 1 /\ h[n - 1] = g[n - 1]
        BY <2>4
      <4>2. CASE n = m
        BY <2>5, <4>1, <4>2
      <4>3. CASE n # m
        <5>1. n \in 1..m - 1 /\ h[n] = g[n]
          BY <2>4, <4>3
        <5> QED
          BY <2>1, <4>1, <5>1
      <4> QED
        BY <4>2, <4>3
    <3> QED
      BY <3>1, <3>2
  <2>7. m \in 0..W
    OBVIOUS
  <2> HIDE DEF Sums
  <2> QED
    BY <2>3, <2>6, <2>7
<1> HIDE DEF P
<1>3. 0..W \subseteq P
  BY <1>1, <1>2, NatInductionOnSet
<1>4. W \in P
  BY <1>3
<1>5. PICK g \in [0..W -> Nat] : Sums(W, g)
  BY <1>4 DEF P
<1>6. g = [n \in 0..W |-> IF n = 0 THEN 0 ELSE f[n] + g[n - 1]]
  <2>1. \A n \in 0..W : g[n] = IF n = 0 THEN 0 ELSE f[n] + g[n - 1]
    BY <1>5
  <2> QED
    BY <1>5, <2>1
<1> QED
  BY <1>6

(* What the recursive definition of Sent computes.                          *)
SentRec ==
  /\ Sent[0] = 0
  /\ \A n \in 1..Window : Sent[n] = recent[n] + Sent[n - 1]
  /\ \A n \in 0..Window : Sent[n] \in Nat

(* The recursive function Sent is the sum it says.                          *)
LEMMA SentIsSum ==
  ASSUME recent \in [1..Window -> Nat]
  PROVE  SentRec
<1>1. Window \in Nat
  BY TimeAssumption
<1>2. \E g \in [0..Window -> Nat] :
        g = [n \in 0..Window |-> IF n = 0 THEN 0 ELSE recent[n] + g[n - 1]]
  BY <1>1, SumsExist
<1>3. Sent = [n \in 0..Window |-> IF n = 0 THEN 0 ELSE recent[n] + Sent[n - 1]]
  BY <1>2 DEF Sent
<1>4. Sent[0] = 0 /\ \A n \in 1..Window : Sent[n] = recent[n] + Sent[n - 1]
  BY <1>1, <1>3
<1> DEFINE P == {n \in 0..Window : Sent[n] \in Nat}
<1>5. 0 \in P /\ \A n \in 1..Window : n - 1 \in P => n \in P
  BY <1>1, <1>4
<1>6. 0..Window \subseteq P
  <2> HIDE DEF P
  <2> QED
    BY <1>1, <1>5, NatInductionOnSet
<1> QED
  BY <1>4, <1>6 DEF SentRec

(* The same of every typed state.                                           *)
LEMMA SentLemma == TypeOK => SentRec
BY SentIsSum DEF TypeOK

(* And of the state after a step.                                           *)
LEMMA SentLemmaNext == TypeOK' => SentRec'
BY SentLemma, PTL

(* The tokens in the bucket, and the calls whose token is due.              *)
LEMMA DueFinite ==
  /\ IsFiniteSet(DueNow) /\ Cardinality(DueNow) \in Nat
BY SizeAssumption, FS_Subset, FS_CardinalityType DEF DueNow

(* A subset is no larger.                                                   *)
LEMMA DueLess ==
  ASSUME NEW S, NEW T, IsFiniteSet(T), S \subseteq T
  PROVE  Cardinality(S) \in Nat /\ Cardinality(T) \in Nat /\ Cardinality(S) <= Cardinality(T)
BY FS_Subset, FS_CardinalityType

(* A step that sends nothing and takes no token, and moves calls only away  *)
(* from waiting, keeps the rate.                                            *)
Leaves(c) == (pc'[c] = "waiting" => pc[c] = "waiting" /\ clock'[c] = clock[c])

(* The rate under such a step.                                              *)
LEMMA RateKept ==
  ASSUME TypeOK, TypeOK', RateInv, UNCHANGED recent, \A c \in Caller : Leaves(c),
         \/ UNCHANGED tokens
         \/ \E c \in Caller : /\ pc[c] = "waiting" /\ clock[c] > 0 /\ clock[c] = -tokens
                              /\ tokens' = tokens + 1 /\ pc'[c] # "waiting"
  PROVE  RateInv'
<1>1. tokens \in Int /\ tokens' \in Int /\ clock \in [Caller -> Nat] /\ RateBurst \in Nat /\ Window \in Nat
  BY SizeAssumption, TimeAssumption DEF TypeOK
<1>2. Max({0, tokens'}) = Max({0, tokens}) /\ Max({0, tokens}) \in Nat
  <2>1. /\ Max({0, tokens'}) = IF 0 >= tokens' THEN 0 ELSE tokens'
        /\ Max({0, tokens}) = IF 0 >= tokens THEN 0 ELSE tokens
    BY <1>1, MaxOfTwo
  <2>2. tokens' = tokens \/ (tokens < 0 /\ tokens' = tokens + 1)
    BY <1>1
  <2> QED
    BY <1>1, <2>1, <2>2
<1>3. /\ Cardinality(DueNow') \in Nat /\ Cardinality(DueNow) \in Nat
      /\ Cardinality(DueNow') <= Cardinality(DueNow)
  <2>1. DueNow' \subseteq DueNow
    BY DEF DueNow, At, Leaves
  <2> QED
    BY <2>1, DueFinite, DueLess
<1>4. SentRec /\ Sent' = Sent
  BY SentLemma DEF Sent
<1>5. \A n \in 1..Window :
        Sent'[n] + Cardinality(DueNow') + Max({0, tokens'}) <= RateBurst + n - 1
  <2> SUFFICES ASSUME NEW n \in 1..Window
               PROVE  Sent[n] + Cardinality(DueNow') + Max({0, tokens'}) <= RateBurst + n - 1
    BY <1>4
  <2>1. Sent[n] \in Nat /\ n \in Nat
    BY <1>4 DEF SentRec
  <2>2. Sent[n] + Cardinality(DueNow) + Max({0, tokens}) <= RateBurst + n - 1
    BY DEF RateInv
  <2> QED
    BY <1>1, <1>2, <1>3, <2>1, <2>2
<1>6. ASSUME NEW c \in Caller, pc'[c] = "waiting", clock'[c] > 0
      PROVE  /\ clock'[c] <= -tokens'
             /\ \A d \in Caller \ {c} : pc'[d] = "waiting" => clock'[d] # clock'[c]
  <2>1. pc[c] = "waiting" /\ clock'[c] = clock[c]
    BY <1>6 DEF Leaves
  <2>2. clock[c] <= -tokens /\ \A d \in Caller \ {c} : pc[d] = "waiting" => clock[d] # clock[c]
    BY <1>6, <2>1 DEF RateInv, At
  <2>3. \A d \in Caller \ {c} : pc'[d] = "waiting" => clock'[d] # clock'[c]
    BY <2>1, <2>2 DEF Leaves
  <2>4. CASE UNCHANGED tokens
    BY <2>1, <2>2, <2>3, <2>4
  <2>5. CASE ~ UNCHANGED tokens
    <3>1. PICK d \in Caller : pc[d] = "waiting" /\ clock[d] = -tokens /\ pc'[d] # "waiting"
                              /\ tokens' = tokens + 1
      BY <2>5
    <3>2. clock[c] # -tokens
      BY <1>6, <2>1, <2>2, <3>1
    <3> QED
      BY <1>1, <2>1, <2>2, <2>3, <3>1, <3>2
  <2> QED
    BY <2>4, <2>5
<1> QED
  BY <1>5, <1>6 DEF RateInv, At

(* A call that reserves takes a token from the bucket, or the next one that *)
(* comes.                                                                   *)
LEMMA RateWait ==
  ASSUME TypeOK, TypeOK', RateInv, NEW c \in Caller, Wait(c)
  PROVE  RateInv'
<1>1. /\ tokens \in Int /\ RateBurst \in Nat /\ Window \in Nat
      /\ clock \in [Caller -> Nat] /\ pc \in [Caller -> PC]
  BY SizeAssumption, TimeAssumption DEF TypeOK
<1>2. /\ pc[c] = "reserve" /\ tokens' = tokens - 1 /\ UNCHANGED recent
      /\ clock'[c] = IF tokens > 0 THEN 0 ELSE 1 - tokens
      /\ pc'[c] = "waiting"
      /\ \A d \in Caller \ {c} : clock'[d] = clock[d] /\ pc'[d] = pc[d]
  BY <1>1, TokenTypes DEF Wait, At, Goto
<1>3. SentRec /\ Sent' = Sent
  BY <1>2, SentLemma DEF Sent
<1>4. IsFiniteSet(DueNow) /\ Cardinality(DueNow) \in Nat /\ c \notin DueNow
  BY <1>2, DueFinite DEF DueNow, At
<1>5. Cardinality(DueNow') + Max({0, tokens'}) = Cardinality(DueNow) + Max({0, tokens})
  <2>1. /\ Max({0, tokens'}) = IF 0 >= tokens - 1 THEN 0 ELSE tokens - 1
        /\ Max({0, tokens}) = IF 0 >= tokens THEN 0 ELSE tokens
    BY <1>1, <1>2, MaxOfTwo
  <2>2. CASE tokens > 0
    <3>1. DueNow' = DueNow \cup {c}
      BY <1>2, <2>2 DEF DueNow, At
    <3>2. Cardinality(DueNow') = Cardinality(DueNow) + 1
      BY <1>4, <3>1, FS_AddElement
    <3> QED
      BY <1>1, <1>4, <2>1, <2>2, <3>2
  <2>3. CASE ~ (tokens > 0)
    <3>1. clock'[c] # 0
      BY <1>1, <1>2, <2>3
    <3>2. DueNow' = DueNow
      BY <1>2, <3>1 DEF DueNow, At
    <3>3. Max({0, tokens'}) = 0 /\ Max({0, tokens}) = 0
      BY <1>1, <2>1, <2>3
    <3> QED
      BY <3>2, <3>3
  <2> QED
    BY <2>2, <2>3
<1>6. \A n \in 1..Window :
        Sent'[n] + Cardinality(DueNow') + Max({0, tokens'}) <= RateBurst + n - 1
  <2> SUFFICES ASSUME NEW n \in 1..Window
               PROVE  Sent[n] + Cardinality(DueNow') + Max({0, tokens'}) <= RateBurst + n - 1
    BY <1>3
  <2>1. Sent[n] \in Nat /\ Sent[n] + Cardinality(DueNow) + Max({0, tokens}) <= RateBurst + n - 1
    BY <1>3 DEF RateInv, SentRec
  <2>2. /\ Max({0, tokens}) \in Int /\ Max({0, tokens'}) \in Int
        /\ Cardinality(DueNow') \in Int /\ n \in Int
    BY <1>1, <1>2, MaxOfTwo, DueFinite, DueFinite, FS_CardinalityType, FS_Subset, SizeAssumption DEF DueNow
  <2> QED
    BY <1>1, <1>4, <1>5, <2>1, <2>2
<1>7. ASSUME NEW d \in Caller, pc'[d] = "waiting", clock'[d] > 0
      PROVE  /\ clock'[d] <= -tokens'
             /\ \A e \in Caller \ {d} : pc'[e] = "waiting" => clock'[e] # clock'[d]
  <2>1. \A e \in Caller \ {c} : pc[e] = "waiting" /\ clock[e] > 0 =>
          /\ clock[e] <= -tokens
          /\ \A f \in Caller \ {e} : pc[f] = "waiting" => clock[f] # clock[e]
    BY DEF RateInv, At
  <2>2. \A e \in Caller \ {c} : pc[e] = "waiting" =>
          clock[e] \in Nat /\ (clock[e] = 0 \/ clock[e] <= -tokens)
    BY <1>1, <2>1
  <2>3. CASE d = c
    <3>1. clock'[c] = 1 - tokens /\ tokens <= 0
      BY <1>1, <1>2, <1>7, <2>3
    <3>2. \A e \in Caller \ {c} : pc[e] = "waiting" => clock[e] # 1 - tokens
      BY <1>1, <2>2, <3>1
    <3>3. clock'[c] <= -tokens'
      BY <1>1, <1>2, <3>1
    <3> QED
      BY <1>2, <2>3, <3>1, <3>2, <3>3
  <2>4. CASE d # c
    <3>1. pc[d] = "waiting" /\ clock'[d] = clock[d] /\ clock[d] \in Nat /\ clock[d] > 0 /\ clock[d] <= -tokens
      BY <1>1, <1>2, <1>7, <2>1, <2>4
    <3>2. clock'[d] <= -tokens'
      BY <1>1, <1>2, <3>1
    <3>3. clock'[c] # clock[d]
      BY <1>1, <1>2, <3>1
    <3>4. \A e \in Caller \ {d} : pc'[e] = "waiting" => clock'[e] # clock[d]
      BY <1>2, <2>1, <2>4, <3>1, <3>3
    <3> QED
      BY <3>1, <3>2, <3>4
  <2> QED
    BY <2>3, <2>4
<1> QED
  BY <1>6, <1>7 DEF RateInv, At

(* A request takes the place of the token it waited for.                    *)
LEMMA RateDo ==
  ASSUME TypeOK, TypeOK', RateInv, NEW c \in Caller, Do(c)
  PROVE  RateInv'
<1>1. /\ tokens \in Int /\ RateBurst \in Nat /\ Window \in Nat /\ Window >= 1
      /\ clock \in [Caller -> Nat] /\ pc \in [Caller -> PC] /\ recent \in [1..Window -> Nat]
      /\ recent' \in [1..Window -> Nat]
  BY SizeAssumption, TimeAssumption DEF TypeOK
<1>2. /\ pc[c] = "waiting" /\ clock[c] = 0 /\ UNCHANGED tokens
      /\ pc'[c] # "waiting"
      /\ \A d \in Caller \ {c} : clock'[d] = clock[d] /\ pc'[d] = pc[d]
      /\ recent'[1] = recent[1] + 1 /\ \A n \in 2..Window : recent'[n] = recent[n]
  BY <1>1 DEF Do, At, Goto
<1>3. SentRec /\ SentRec'
  BY SentLemma, SentLemmaNext
<1>4. \A n \in 1..Window : Sent'[n] = Sent[n] + 1
  <2> DEFINE P == {n \in 0..Window : n = 0 \/ Sent'[n] = Sent[n] + 1}
  <2>1. 0 \in P
    BY <1>1
  <2>2. ASSUME NEW n \in 1..Window, n - 1 \in P PROVE n \in P
    <3>1. /\ Sent[0] = 0 /\ Sent'[0] = 0 /\ Sent[n - 1] \in Nat /\ n - 1 \in 0..Window
          /\ Sent[n] = recent[n] + Sent[n - 1] /\ Sent'[n] = recent'[n] + Sent'[n - 1]
      BY <1>1, <1>3 DEF SentRec
    <3>2. recent[n] \in Nat
      BY <1>1
    <3>3. CASE n = 1
      BY <1>2, <3>1, <3>2, <3>3
    <3>4. CASE n # 1
      <4>1. n \in 2..Window /\ Sent'[n - 1] = Sent[n - 1] + 1
        BY <2>2, <3>4
      <4> QED
        BY <1>2, <3>1, <3>2, <4>1
    <3> QED
      BY <3>3, <3>4
  <2>3. 0..Window \subseteq P
    <3> HIDE DEF P
    <3> QED
      BY <1>1, <2>1, <2>2, NatInductionOnSet
  <2> QED
    BY <2>3
<1>5. /\ Cardinality(DueNow) \in Nat /\ Cardinality(DueNow') \in Nat
      /\ Cardinality(DueNow') = Cardinality(DueNow) - 1
  <2>1. DueNow' = DueNow \ {c} /\ c \in DueNow
    BY <1>2 DEF DueNow, At
  <2>2. IsFiniteSet(DueNow) /\ IsFiniteSet(DueNow')
    BY <2>1, DueFinite, FS_Subset
  <2> QED
    BY <2>1, <2>2, FS_RemoveElement, FS_CardinalityType
<1>6. \A n \in 1..Window :
        Sent'[n] + Cardinality(DueNow') + Max({0, tokens'}) <= RateBurst + n - 1
  <2> TAKE n \in 1..Window
  <2>1. Sent[n] \in Nat /\ Sent[n] + Cardinality(DueNow) + Max({0, tokens}) <= RateBurst + n - 1
    BY <1>3 DEF RateInv, SentRec
  <2>2. Max({0, tokens}) \in Nat /\ Max({0, tokens'}) = Max({0, tokens})
    BY <1>2, TokenTypes
  <2>3. Sent'[n] = Sent[n] + 1
    BY <1>4
  <2> QED
    BY <1>1, <1>5, <2>1, <2>2, <2>3
<1>7. ASSUME NEW d \in Caller, pc'[d] = "waiting", clock'[d] > 0
      PROVE  /\ clock'[d] <= -tokens'
             /\ \A e \in Caller \ {d} : pc'[e] = "waiting" => clock'[e] # clock'[d]
  <2>1. d # c /\ pc[d] = "waiting" /\ clock'[d] = clock[d]
    BY <1>2, <1>7
  <2>2. clock[d] <= -tokens /\ \A e \in Caller \ {d} : pc[e] = "waiting" => clock[e] # clock[d]
    BY <1>7, <2>1 DEF RateInv, At
  <2> QED
    BY <1>2, <2>1, <2>2
<1> QED
  BY <1>6, <1>7 DEF RateInv, At

(* What a tick adds to the sums.                                            *)
LEMMA TickSum ==
  ASSUME NEW s \in Nat, NEW d \in Nat, NEW t \in Nat, NEW e \in Nat, NEW u \in Nat,
         NEW b \in Nat, NEW n \in Nat, s + d + t <= b + (n - 1) - 1, e + u <= t + 1
  PROVE  s + e + u <= b + n - 1
OBVIOUS

(* A tick: the counts move on by one, and one token comes at most.          *)
LEMMA RateTick ==
  ASSUME TypeOK, TypeOK', RateInv, Tick
  PROVE  RateInv'
<1>1. /\ tokens \in Int /\ tokens' \in Int /\ tokens' <= RateBurst
      /\ RateBurst \in Nat /\ RateBurst >= 1 /\ Window \in Nat /\ Window >= 1
      /\ clock \in [Caller -> Nat] /\ pc \in [Caller -> PC] /\ recent \in [1..Window -> Nat]
  BY SizeAssumption, TimeAssumption DEF TypeOK
<1>2. /\ tokens' = IF tokens < RateBurst THEN tokens + 1 ELSE RateBurst
      /\ UNCHANGED pc
      /\ recent'[1] = 0 /\ \A n \in 2..Window : recent'[n] = recent[n - 1]
      /\ \A d \in Caller : pc[d] = "waiting" => clock[d] > 0
  <2>1. tokens' = Min({tokens + 1, RateBurst}) /\ UNCHANGED pc
    BY DEF Tick
  <2>2. recent'[1] = 0 /\ \A n \in 2..Window : recent'[n] = recent[n - 1]
    <3>1. recent' = [i \in 1..Window |-> IF i = 1 THEN 0 ELSE recent[i - 1]]
      BY DEF Tick
    <3> QED
      BY <1>1, <3>1
  <2>3. \A d \in Caller : pc[d] = "waiting" => clock[d] > 0
    <3>1. \A d \in Caller : ~Due(d)
      BY DEF Tick
    <3>2. \A d \in Caller : pc[d] = "waiting" => clock[d] # 0
      BY <3>1 DEF Due
    <3> QED
      BY <1>1, <3>2
  <2> QED
    BY <2>1, <2>2, <2>3, TokenTypes
<1>3. \A d \in Caller : pc[d] = "waiting" => clock'[d] = clock[d] - 1 /\ clock'[d] \in Nat
  <2> TAKE d \in Caller
  <2> HAVE pc[d] = "waiting"
  <2>1. clock'[d] = Max({0, clock[d] - 1})
    BY DEF Tick
  <2>2. clock[d] \in Nat /\ clock[d] > 0
    BY <1>1, <1>2
  <2> QED
    BY <2>1, <2>2, MaxOfTwo
<1>4. SentRec /\ SentRec'
  BY SentLemma, SentLemmaNext
<1>5. \A n \in 1..Window : Sent'[n] = Sent[n - 1]
  <2> DEFINE P == {n \in 0..Window : n = 0 \/ Sent'[n] = Sent[n - 1]}
  <2>1. 0 \in P
    BY <1>1
  <2>2. ASSUME NEW n \in 1..Window, n - 1 \in P PROVE n \in P
    <3>1. /\ Sent[0] = 0 /\ Sent'[0] = 0 /\ n - 1 \in 0..Window
          /\ Sent'[n] = recent'[n] + Sent'[n - 1]
      BY <1>1, <1>4 DEF SentRec
    <3>3. CASE n = 1
      BY <1>2, <3>1, <3>3
    <3>4. CASE n # 1
      <4>1. n \in 2..Window /\ Sent'[n - 1] = Sent[n - 2] /\ n - 1 \in 1..Window
        BY <2>2, <3>4
      <4>2. Sent[n - 1] = recent[n - 1] + Sent[n - 2]
        BY <1>4, <4>1 DEF SentRec
      <4> QED
        BY <1>2, <3>1, <4>1, <4>2
    <3> QED
      BY <3>3, <3>4
  <2>3. 0..Window \subseteq P
    <3> HIDE DEF P
    <3> QED
      BY <1>1, <2>1, <2>2, NatInductionOnSet
  <2> QED
    BY <2>3
<1>6. \A d, e \in Caller : pc[d] = "waiting" /\ pc[e] = "waiting" =>
        clock[d] <= -tokens /\ (d # e => clock[d] # clock[e])
  BY <1>2 DEF RateInv, At
<1>7. Max({0, tokens'}) = (IF tokens' < 0 THEN 0 ELSE tokens') /\ Max({0, tokens'}) \in Nat
  BY <1>1, MaxOfTwo
<1>8. /\ Cardinality(DueNow') \in Nat
      /\ Cardinality(DueNow') + Max({0, tokens'}) <= RateBurst
      /\ Cardinality(DueNow') + Max({0, tokens'}) <= Max({0, tokens}) + 1
  <2>1. \A d \in DueNow' : d \in Caller /\ pc[d] = "waiting" /\ clock[d] = 1
    BY <1>1, <1>2, <1>3 DEF DueNow, At
  <2>2. Max({0, tokens}) = (IF tokens < 0 THEN 0 ELSE tokens)
    BY TokenTypes
  <2>3. CASE DueNow' = {}
    <3>1. Cardinality(DueNow') = 0
      BY <2>3, FS_EmptySet
    <3> QED
      BY <1>1, <1>2, <1>7, <2>2, <3>1
  <2>4. CASE DueNow' # {}
    <3>1. PICK d \in DueNow' : TRUE
      BY <2>4
    <3>2. DueNow' = {d}
      BY <1>6, <2>1, <3>1
    <3>3. Cardinality(DueNow') = 1
      BY <3>2, FS_Singleton
    <3>4. tokens <= -1
      BY <1>1, <1>6, <2>1, <3>1
    <3> QED
      BY <1>1, <1>2, <1>7, <2>2, <3>3, <3>4
  <2> QED
    BY <2>3, <2>4
<1>9. \A n \in 1..Window :
        Sent'[n] + Cardinality(DueNow') + Max({0, tokens'}) <= RateBurst + n - 1
  <2> TAKE n \in 1..Window
  <2>1. Sent'[n] = Sent[n - 1] /\ Sent[0] = 0 /\ Sent[n - 1] \in Nat
    BY <1>4, <1>5 DEF SentRec
  <2>2. CASE n = 1
    BY <1>1, <1>7, <1>8, <2>1, <2>2
  <2>3. CASE n # 1
    <3>1. n - 1 \in 1..Window
      BY <1>1, <2>3
    <3>2. Sent[n - 1] + Cardinality(DueNow) + Max({0, tokens}) <= RateBurst + (n - 1) - 1
      BY <3>1 DEF RateInv
    <3>3. Cardinality(DueNow) \in Nat /\ Max({0, tokens}) \in Nat
      BY DueFinite, TokenTypes
    <3>4. /\ n \in Nat /\ RateBurst \in Nat /\ Sent[n - 1] \in Nat
          /\ Cardinality(DueNow') \in Nat /\ Max({0, tokens'}) \in Nat
      BY <1>1, <1>7, <1>8, <2>1
    <3>5. Cardinality(DueNow') + Max({0, tokens'}) <= Max({0, tokens}) + 1
      BY <1>8
    <3>6. Sent[n - 1] + Cardinality(DueNow') + Max({0, tokens'}) <= RateBurst + n - 1
      BY <3>2, <3>3, <3>4, <3>5, TickSum
    <3> QED
      BY <2>1, <3>6
  <2> QED
    BY <2>2, <2>3
<1>10. ASSUME NEW d \in Caller, pc'[d] = "waiting", clock'[d] > 0
       PROVE  /\ clock'[d] <= -tokens'
              /\ \A e \in Caller \ {d} : pc'[e] = "waiting" => clock'[e] # clock'[d]
  <2>1. pc[d] = "waiting" /\ clock'[d] = clock[d] - 1 /\ clock[d] <= -tokens /\ clock[d] \in Nat
    BY <1>1, <1>2, <1>3, <1>6, <1>10
  <2>2. clock'[d] <= -tokens'
    BY <1>1, <1>2, <1>10, <2>1
  <2>3. ASSUME NEW e \in Caller \ {d}, pc'[e] = "waiting" PROVE clock'[e] # clock'[d]
    <3>1. pc[e] = "waiting" /\ clock'[e] = clock[e] - 1 /\ clock[e] \in Nat
      BY <1>1, <1>2, <1>3, <2>3
    <3>2. clock[e] # clock[d]
      BY <1>6, <2>1, <3>1
    <3> QED
      BY <2>1, <3>1, <3>2
  <2> QED
    BY <2>2, <2>3
<1> QED
  BY <1>9, <1>10 DEF RateInv, At

(* Every step keeps the rate.                                               *)
LEMMA RateStep ==
  ASSUME TypeOK, TypeOK', RateInv, [Next]_vars
  PROVE  RateInv'
<1>1. CASE \E c \in Caller : Wait(c)
  BY <1>1, RateWait
<1>2. CASE \E c \in Caller : Do(c)
  BY <1>2, RateDo
<1>3. CASE Tick
  BY <1>3, RateTick
<1>4. ASSUME NEW c \in Caller, Cancelled(c) PROVE RateInv'
  <2>1. UNCHANGED recent /\ \A d \in Caller : Leaves(d)
    BY <1>4 DEF Cancelled, Fail, Goto, Leaves, TypeOK
  <2>2. pc'[c] # "waiting"
    BY <1>4 DEF Cancelled, Fail, Goto, TypeOK
  <2>3. \/ UNCHANGED tokens
        \/ /\ pc[c] = "waiting" /\ clock[c] > 0 /\ clock[c] = -tokens
           /\ tokens' = tokens + 1 /\ pc'[c] # "waiting"
    BY <1>4, <2>2 DEF Cancelled, At
  <2> QED
    BY <2>1, <2>3, RateKept
<1>5. ASSUME NEW c \in Caller,
             \/ Get(c) \/ Return(c) \/ ReadAll(c) \/ Overdue(c) \/ Wake(c)
             \/ Respond(c) \/ Throttled(c) \/ Broken(c) \/ Refused(c)
      PROVE  RateInv'
  <2>1. UNCHANGED <<recent, tokens>>
    BY <1>5 DEF Get, getJSON, Return, ReadAll, Overdue, Wake, Respond, Throttled, Broken, Refused
  <2>2. \A d \in Caller : Leaves(d)
    <3>1. CASE Get(c)
      BY <3>1 DEF Get, getJSON, Goto, Leaves, TypeOK, call
    <3>2. CASE Return(c) \/ ReadAll(c) \/ Overdue(c) \/ Wake(c) \/ Respond(c) \/ Refused(c)
      BY <3>2 DEF Return, ReadAll, Overdue, Wake, Respond, Refused, Fail, Goto, Leaves, TypeOK
    <3>3. CASE Throttled(c)
      BY <3>3 DEF Throttled, Sleep, Fail, Goto, Leaves, TypeOK
    <3>4. CASE Broken(c)
      BY <3>4 DEF Broken, Sleep, Fail, Goto, Leaves, TypeOK
    <3> QED
      BY <1>5, <3>1, <3>2, <3>3, <3>4
  <2> QED
    BY <2>1, <2>2, RateKept
<1>6. CASE UNCHANGED vars
  <2>1. UNCHANGED <<recent, tokens, pc, clock>>
    BY <1>6 DEF vars, call
  <2> QED
    BY <2>1, RateKept DEF Leaves
<1> QED
  BY <1>1, <1>2, <1>3, <1>4, <1>5, <1>6 DEF Next, Step

(* The bucket is full at first, and nothing has been sent.                  *)
LEMMA InitInvariant == Init => IInv
<1> SUFFICES ASSUME Init PROVE IInv
  OBVIOUS
<1>1. TypeOK /\ RateBurst \in Nat /\ Window \in Nat
  BY InitType, SizeAssumption, TimeAssumption
<1>2. DueNow = {} /\ Cardinality(DueNow) = 0
  BY FS_EmptySet DEF Init, DueNow, At
<1>3. SentRec
  BY <1>1, SentLemma
<1>4. \A n \in 1..Window : Sent[n] = 0
  <2> DEFINE P == {n \in 0..Window : Sent[n] = 0}
  <2>1. 0 \in P
    BY <1>1, <1>3 DEF SentRec
  <2>2. ASSUME NEW n \in 1..Window, n - 1 \in P PROVE n \in P
    <3>1. Sent[n] = recent[n] + Sent[n - 1] /\ recent[n] = 0
      BY <1>3 DEF SentRec, Init
    <3> QED
      BY <2>2, <3>1
  <2>3. 0..Window \subseteq P
    <3> HIDE DEF P
    <3> QED
      BY <1>1, <2>1, <2>2, NatInductionOnSet
  <2> QED
    BY <2>3
<1>5. RateInv
  <2>1. Max({0, tokens}) = RateBurst
    BY <1>1, TokenTypes DEF Init
  <2>2. \A n \in 1..Window : Sent[n] + Cardinality(DueNow) + Max({0, tokens}) <= RateBurst + n - 1
    BY <1>1, <1>2, <1>4, <2>1
  <2>3. \A c \in Caller : ~ At(c, "waiting")
    BY DEF Init, At
  <2> QED
    BY <2>2, <2>3 DEF RateInv
<1>6. BodyInv
  BY DEF Init, BodyInv
<1>7. CacheInv
  <2>1. cache = << >> /\ DOMAIN cache = {} /\ Range(cache) = {}
    BY DEF Init, Range
  <2> QED
    BY <2>1 DEF CacheInv
<1>8. FreshEnough /\ GoesBackLittle
  BY DEF Init, FreshEnough, GoesBackLittle
<1> QED
  BY <1>1, <1>5, <1>6, <1>7, <1>8 DEF IInv

(* Every step of the client keeps the invariant.                            *)
LEMMA NextInvariant == IInv /\ [Next]_vars => IInv'
<1> SUFFICES ASSUME IInv, [Next]_vars PROVE IInv'
  OBVIOUS
<1>1. TypeOK /\ RateInv /\ BodyInv /\ CacheInv /\ FreshEnough /\ GoesBackLittle
  BY DEF IInv
<1>2. TypeOK'
  BY <1>1, TypeStep DEF CacheInv, UniqueUrls
<1>3. BodyInv'
  BY <1>1, BodyStep
<1>4. CacheInv' /\ FreshEnough' /\ GoesBackLittle'
  BY <1>1, CacheStep
<1>5. RateInv'
  BY <1>1, <1>2, RateStep
<1> QED
  BY <1>2, <1>3, <1>4, <1>5 DEF IInv

(* The inductive invariant holds for any number of concurrent calls, any    *)
(* URLs, TTLs, cache size, limiter and retry schedule.                      *)
THEOREM ClientInvariant == Spec => []IInv
<1> QED
  BY InitInvariant, NextInvariant, PTL DEF Spec

(* No caller of getJSON gets a body older than the TTL and one request.     *)
THEOREM BodiesAreFresh == Spec => []FreshEnough
<1>1. IInv => FreshEnough
  BY DEF IInv
<1> QED
  BY <1>1, ClientInvariant, PTL

(* A slower response that overwrites a newer entry takes callers back by    *)
(* one request timeout at most.                                             *)
THEOREM BodiesGoBackLittle == Spec => []GoesBackLittle
<1>1. IInv => GoesBackLittle
  BY DEF IInv
<1> QED
  BY <1>1, ClientInvariant, PTL

(* The limiter holds over any number of ticks, retries and cancelled        *)
(* reservations included.                                                   *)
THEOREM RequestsWithinRate == Spec => []WithinRate
<1>1. IInv => WithinRate
  <2> SUFFICES ASSUME IInv, NEW n \in 1..Window PROVE Sent[n] <= RateBurst + n - 1
    BY DEF WithinRate
  <2>1. TypeOK /\ RateInv
    BY DEF IInv
  <2>2. Sent[n] \in Nat /\ Cardinality(DueNow) \in Nat /\ Max({0, tokens}) \in Nat
    BY <2>1, SentLemma, DueFinite, TokenTypes DEF SentRec
  <2>3. Sent[n] + Cardinality(DueNow) + Max({0, tokens}) <= RateBurst + n - 1
    BY <2>1 DEF RateInv
  <2> QED
    BY <2>2, <2>3, SizeAssumption, TimeAssumption
<1> QED
  BY <1>1, ClientInvariant, PTL

=============================================================================
