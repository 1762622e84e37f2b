-------------------------- MODULE PolymarketClient --------------------------
(* The HTTP client every agent tool reads Polymarket through: getJSON with  *)
(* its TTL cache, the retry loop and the rate limiter, shared by the calls  *)
(* of concurrent runs.                                                      *)
(*                                                                          *)
(* Time is counted in ticks, one token of the limiter each, and kept as     *)
(* ages and remaining times.  The client's own steps take no time: a tick   *)
(* passes only when every call waits for something (Tick).  A body is how   *)
(* long ago the server produced it: nothing here looks at what is in it,    *)
(* and one that does not parse is cached and returned like any other.       *)
EXTENDS Integers, Sequences, FiniteSets, SequencesExt

CONSTANTS
  Caller,
  Metadata,          \* full URLs of GetMarket and SearchMarkets
  Prices,            \* of GetMidpoint and GetPriceHistory
  Orderbooks,        \* of GetOrderbook
  TTLMetadata, TTLPrice, TTLOrderbook,
  CacheSize,
  RateBurst,
  Timeout,           \* http.Client.Timeout
  Retries,           \* defaultRetries
  Backoff,           \* per attempt: what sleepWithJitter can sleep
  RetryAfter,        \* durations a Retry-After header can ask for
  Window,            \* how many ticks back the requests are counted
  MaxCancels         \* bound: contexts that end during a call

Url    == Metadata \cup Prices \cup Orderbooks
Ttl(u) == IF u \in Metadata THEN TTLMetadata ELSE IF u \in Prices THEN TTLPrice ELSE TTLOrderbook
MaxTtl == CHOOSE t \in {TTLMetadata, TTLPrice, TTLOrderbook} :
            \A s \in {TTLMetadata, TTLPrice, TTLOrderbook} : s <= t

(* An age is exact up to Old and stays there.                               *)
Old == MaxTtl + Timeout + 1
Age == 0..Old

ASSUME TimeAssumption ==
  /\ TTLMetadata \in Nat /\ TTLPrice \in Nat /\ TTLOrderbook \in Nat
  /\ Timeout \in Nat \ {0} /\ Retries \in Nat /\ Window \in Nat \ {0}
  /\ Backoff \in [0..Retries - 1 -> SUBSET (Nat \ {0})] /\ RetryAfter \subseteq Nat \ {0}
  /\ MaxCancels \in Nat
ASSUME SizeAssumption ==
  IsFiniteSet(Caller) /\ Url # {} /\ CacheSize \in Nat \ {0} /\ RateBurst \in Nat \ {0}

VARIABLES
  pc,        \* per call: where it stands in getJSON
  url,       \* per call: fullURL
  attempt,   \* per call: fetchWithRetry's counter
  clock,     \* per call: ticks until its sleep, token or request timeout is due
  answer,    \* per call: age of the body its request got
  cache,     \* the LRU, most recently used first
  tokens,    \* the limiter's bucket; negative: tokens reserved ahead
  cancels,   \* counter of the bound MaxCancels
  recent,    \* history: requests sent in the current tick and in those before it
  newest,    \* history, per URL: age of the newest body a call returned
  served     \* history: what the last step returned to a caller

call == <<pc, url, attempt, clock, answer>>
vars == <<call, cache, tokens, cancels, recent, newest, served>>

PC == {"idle", "reserve", "waiting", "sent", "answered", "got", "sleeping"}
Entry == [url : Url, age : Age, left : -1..MaxTtl]

Nothing == [url |-> "none"]
Served  == [url : Url, age : Age, newest : Age]

TypeOK ==
  /\ pc \in [Caller -> PC] /\ url \in [Caller -> Url]
  /\ attempt \in [Caller -> 0..Retries]
  /\ clock \in [Caller -> Nat]
  /\ answer \in [Caller -> Age]
  /\ cache \in Seq(Entry) /\ tokens \in Int /\ tokens <= RateBurst
  /\ cancels \in 0..MaxCancels
  /\ recent \in [1..Window -> Nat]
  /\ newest \in [Url -> Age] /\ served \in Served \cup {Nothing}

Init ==
  /\ pc = [c \in Caller |-> "idle"] /\ url = [c \in Caller |-> CHOOSE u \in Url : TRUE]
  /\ attempt = [c \in Caller |-> 0] /\ clock = [c \in Caller |-> 0]
  /\ answer = [c \in Caller |-> 0]
  /\ cache = << >> /\ tokens = RateBurst /\ cancels = 0
  /\ recent = [i \in 1..Window |-> 0]
  /\ newest = [u \in Url |-> Old] /\ served = Nothing

----------------------------------------------------------------------------
(* ttlCache                                                                 *)
Cached(u)  == {e \in Range(cache) : e.url = u}
Place(u)   == CHOOSE i \in DOMAIN cache : cache[i].url = u
Without(u) == IF Cached(u) = {} THEN cache ELSE RemoveAt(cache, Place(u))

(* Mutant of Expired: get does not look at the expiry.                      *)
ExpiredNever(e) == FALSE
Expired(e) == e.left < 0
Hits(u)    == {e \in Cached(u) : ~Expired(e)}

(* Mutant of Put: a live entry is kept.                                     *)
PutKeeps(u, a) ==
  LET added == <<[url |-> u, age |-> a, left |-> Ttl(u)]>> \o Without(u)
  IN IF Hits(u) # {} THEN cache ELSE SubSeq(added, 1, Min({CacheSize, Len(added)}))
Put(u, a) ==
  LET added == <<[url |-> u, age |-> a, left |-> Ttl(u)]>> \o Without(u)
  IN IF Ttl(u) <= 0 THEN cache ELSE SubSeq(added, 1, Min({CacheSize, Len(added)}))

Serve(u, a) ==
  /\ served' = [url |-> u, age |-> a, newest |-> newest[u]]
  /\ newest' = [newest EXCEPT ![u] = Min({@, a})]
Quiet == served' = Nothing /\ UNCHANGED newest

At(c, s) == pc[c] = s
Goto(c, s) == pc' = [pc EXCEPT ![c] = s]

(* The call ends with an error and returns no body.                         *)
Fail(c) ==
  /\ Goto(c, "idle")
  /\ answer' = [answer EXCEPT ![c] = 0] /\ clock' = [clock EXCEPT ![c] = 0]
  /\ attempt' = [attempt EXCEPT ![c] = 0]
  /\ Quiet /\ UNCHANGED url

(* getJSON up to the fetch: a hit returns at once, an expired entry goes.   *)
getJSON(c, u) ==
  /\ At(c, "idle")
  /\ \/ \E e \in Hits(u) :
          /\ cache' = <<e>> \o Without(u)
          /\ Serve(u, e.age) /\ UNCHANGED call
     \/ /\ Hits(u) = {}
        /\ cache' = Without(u)
        /\ Goto(c, "reserve") /\ url' = [url EXCEPT ![c] = u]
        /\ Quiet /\ UNCHANGED <<attempt, clock, answer>>
  /\ UNCHANGED <<tokens, cancels, recent>>

(* What the five methods do: the URL says which of them was called.         *)
Get(c) == \E u \in Url : getJSON(c, u)

(* limiter.wait: a reservation fixes when the token is due.                 *)
Wait(c) ==
  /\ At(c, "reserve")
  /\ tokens' = tokens - 1
  /\ clock' = [clock EXCEPT ![c] = Max({0, 1 - tokens})]
  /\ Goto(c, "waiting")
  /\ Quiet /\ UNCHANGED <<url, attempt, answer, cache, cancels, recent>>

(* httpClient.Do: the request leaves.                                       *)
Do(c) ==
  /\ At(c, "waiting") /\ clock[c] = 0
  /\ Goto(c, "sent") /\ clock' = [clock EXCEPT ![c] = Timeout]
  /\ recent' = [recent EXCEPT ![1] = @ + 1]
  /\ Quiet /\ UNCHANGED <<url, attempt, answer, cache, tokens, cancels>>

(* The server answers with a 2xx body, which travels until it is read.      *)
Respond(c) ==
  /\ At(c, "sent")
  /\ Goto(c, "answered")
  /\ Quiet /\ UNCHANGED <<url, attempt, clock, answer, cache, tokens, cancels, recent>>

ReadAll(c) ==
  /\ At(c, "answered")
  /\ Goto(c, "got") /\ clock' = [clock EXCEPT ![c] = 0]
  /\ Quiet /\ UNCHANGED <<url, attempt, answer, cache, tokens, cancels, recent>>

(* The rest of getJSON.  A body is cached whether or not it parses.         *)
Return(c) ==
  /\ At(c, "got")
  /\ cache' = Put(url[c], answer[c])
  /\ Serve(url[c], answer[c])
  /\ Goto(c, "idle") /\ answer' = [answer EXCEPT ![c] = 0]
  /\ attempt' = [attempt EXCEPT ![c] = 0]
  /\ UNCHANGED <<url, clock, tokens, cancels, recent>>

Sleep(c, pauses) ==
  /\ \E d \in pauses : clock' = [clock EXCEPT ![c] = d]
  /\ Goto(c, "sleeping") /\ attempt' = [attempt EXCEPT ![c] = @ + 1]
  /\ Quiet /\ UNCHANGED <<url, answer>>

(* Mutant of Throttled: the attempts are not counted.                       *)
ThrottledForever(c) ==
  /\ At(c, "sent")
  /\ clock' = [clock EXCEPT ![c] = 1] /\ Goto(c, "sleeping")
  /\ Quiet /\ UNCHANGED <<url, attempt, answer, cache, tokens, cancels, recent>>

(* A 429, and a transport error that is neither a timeout nor a             *)
(* cancellation: another attempt, while there is one left.                  *)
Throttled(c) ==
  /\ At(c, "sent")
  /\ \/ attempt[c] < Retries /\ Sleep(c, Backoff[attempt[c]] \cup RetryAfter)
     \/ attempt[c] >= Retries /\ Fail(c)
  /\ UNCHANGED <<cache, tokens, cancels, recent>>

Broken(c) ==
  /\ At(c, "sent")
  /\ \/ attempt[c] < Retries /\ Sleep(c, Backoff[attempt[c]])
     \/ attempt[c] >= Retries /\ Fail(c)
  /\ UNCHANGED <<cache, tokens, cancels, recent>>

(* Another status, a body that breaks off, a request past its timeout (in   *)
(* errors.Is terms a DeadlineExceeded): no retry.                           *)
Refused(c) ==
  /\ pc[c] \in {"sent", "answered"}
  /\ Fail(c) /\ UNCHANGED <<cache, tokens, cancels, recent>>

Overdue(c) ==
  /\ pc[c] \in {"sent", "answered"} /\ clock[c] = 0
  /\ Fail(c) /\ UNCHANGED <<cache, tokens, cancels, recent>>

(* Mutant of Wake: a retry does not wait for the limiter again.             *)
WakeAndSend(c) ==
  /\ At(c, "sleeping") /\ clock[c] = 0
  /\ Goto(c, "waiting")
  /\ Quiet /\ UNCHANGED <<url, attempt, clock, answer, cache, tokens, cancels, recent>>

(* The sleep is over: the next attempt waits for a token of its own.        *)
Wake(c) ==
  /\ At(c, "sleeping") /\ clock[c] = 0
  /\ Goto(c, "reserve")
  /\ Quiet /\ UNCHANGED <<url, attempt, clock, answer, cache, tokens, cancels, recent>>

(* The context of the call ends.  The limiter takes back only the last      *)
(* reservation it made.                                                     *)
Cancelled(c) ==
  /\ pc[c] \in {"reserve", "waiting", "sent", "answered", "sleeping"}
  /\ cancels < MaxCancels /\ cancels' = cancels + 1
  /\ tokens' = IF At(c, "waiting") /\ clock[c] > 0 /\ clock[c] = -tokens THEN tokens + 1 ELSE tokens
  /\ Fail(c) /\ UNCHANGED <<cache, recent>>

----------------------------------------------------------------------------
Due(c) ==
  \/ pc[c] \in {"reserve", "got"}
  \/ pc[c] \in {"waiting", "sleeping", "sent", "answered"} /\ clock[c] = 0

Older(a) == Min({a + 1, Old})
Tick ==
  /\ \A c \in Caller : ~Due(c)
  /\ clock' = [c \in Caller |-> Max({0, clock[c] - 1})]
  /\ answer' = [c \in Caller |-> IF At(c, "answered") THEN Older(answer[c]) ELSE answer[c]]
  /\ cache' = [i \in DOMAIN cache |->
                 [cache[i] EXCEPT !.age = Older(@), !.left = Max({-1, @ - 1})]]
  /\ tokens' = Min({tokens + 1, RateBurst})
  /\ recent' = [i \in 1..Window |-> IF i = 1 THEN 0 ELSE recent[i - 1]]
  /\ newest' = [u \in Url |-> Older(newest[u])] /\ served' = Nothing
  /\ UNCHANGED <<pc, url, attempt, cancels>>

Step(c) == Wait(c) \/ Do(c) \/ ReadAll(c) \/ Return(c) \/ Overdue(c) \/ Wake(c)

Next ==
  \/ \E c \in Caller :
       \/ Get(c) \/ Step(c) \/ Respond(c) \/ Throttled(c) \/ Broken(c) \/ Refused(c) \/ Cancelled(c)
  \/ Tick

Spec == Init /\ [][Next]_vars

(* Time goes on whatever the callers do, and the client's own steps are     *)
(* taken; nothing is assumed of the server or of a caller's context.        *)
FairSpec == Spec /\ SF_vars(Tick) /\ \A c \in Caller : WF_vars(Step(c))

----------------------------------------------------------------------------
(* No caller gets a body that the server produced longer ago than the TTL   *)
(* of its method and one request, so a cached body no method can parse      *)
(* fails its callers no longer than that: entries, their expiry, retries    *)
(* and the time a body travels add up to no more.                           *)
FreshEnough == served # Nothing => served.age <= Ttl(served.url) + Timeout

(* Concurrent misses fetch the same URL, and the slower, older body may     *)
(* replace a newer one.  How far back callers can be taken is bounded: what *)
(* is returned is older than the newest body returned before by at most one *)
(* request.                                                                 *)
GoesBackLittle == served # Nothing => served.age <= served.newest + Timeout

(* The limiter holds for all requests, retries included: over any number of *)
(* ticks at most the burst and one request per further tick leave.          *)
Sent[n \in 0..Window] == IF n = 0 THEN 0 ELSE recent[n] + Sent[n - 1]
WithinRate == \A n \in 1..Window : Sent[n] <= RateBurst + n - 1

(* What WithinRate rests on: tokens that are due or in the bucket count as  *)
(* requests, and the tokens still to come are due one a tick, up to the     *)
(* last that is reserved.                                                   *)
DueNow == {c \in Caller : At(c, "waiting") /\ clock[c] = 0}
RateInv ==
  /\ \A n \in 1..Window : Sent[n] + Cardinality(DueNow) + Max({0, tokens}) <= RateBurst + n - 1
  /\ \A c \in Caller : At(c, "waiting") /\ clock[c] > 0 =>
       /\ clock[c] <= -tokens
       /\ \A d \in Caller \ {c} : At(d, "waiting") => clock[d] # clock[c]

(* What FreshEnough and GoesBackLittle rest on: the age of a body and what  *)
(* is left of its request, or of its entry, add up to a bound, and an entry *)
(* is the only one of its URL.                                              *)
BodyInv ==
  \A c \in Caller :
    /\ pc[c] \in {"sent", "answered", "got"} => answer[c] + clock[c] <= Timeout
    /\ pc[c] \notin {"answered", "got"} => answer[c] = 0
CacheInv ==
  /\ \A i, j \in DOMAIN cache : cache[i].url = cache[j].url => i = j
  /\ \A e \in Range(cache) :
       /\ Ttl(e.url) > 0 /\ e.age <= newest[e.url] + Timeout
       /\ ~Expired(e) => e.age + e.left <= Ttl(e.url) + Timeout

(* The inductive invariant.                                                 *)
IInv == TypeOK /\ RateInv /\ BodyInv /\ CacheInv /\ FreshEnough /\ GoesBackLittle

(* Whatever the server does, a call comes back: attempts are bounded, a     *)
(* request times out, a reserved token falls due.                           *)
CallsReturn == \A c \in Caller : ~At(c, "idle") ~> At(c, "idle")
=============================================================================
