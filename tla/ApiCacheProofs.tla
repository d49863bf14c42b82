--------------------------- MODULE ApiCacheProofs ---------------------------
(***************************************************************************)
(* Proofs about ApiCache for every set of processes, resources, contents   *)
(* and caching headers.  The inductive invariant IInv says what each row   *)
(* of the database, each entry a process holds and each answer it has not  *)
(* handled yet still mean: the server held that content when it answered,  *)
(* the validators belong to the body, what it varies on is what the cache  *)
(* saw, unless that is hidden, and the stored max_age is within the        *)
(* lifetime of the headers, unless the local clock is behind GMT.          *)
(***************************************************************************)
EXTENDS ApiCache, TLAPS

(* Where the cache sees every header, the key of a body is what it saw.    *)
Keyed(e) == Hidden = {} => e.vary = e.body.key

EntryOK(e) ==
  /\ e.answered <= e.local_date
  /\ e.local_date <= now
  /\ lastCurrent[e.url][e.body.content] >= e.answered
  /\ e.etag # None => e.etag = e.body
  /\ e.last_modified # None => e.last_modified = e.body
  /\ Keyed(e)
  /\ ClockSkew >= 0 /\ e.max_age # None => e.max_age <= Lifetime(e.headers)

KeyedAnswer(p) ==
  response[p].body.key =
    [h \in response[p].headers.vary |-> request[p].headers[h]]

(* An answer in flight: the content was current when the server answered,  *)
(* after the request was made; a 304 is about the entry that was sent.     *)
ResponseOK(p) ==
  /\ started[p] <= response[p].at
  /\ response[p].at <= now
  /\ lastCurrent[request[p].url][response[p].body.content] >= response[p].at
  /\ KeyedAnswer(p)
  /\ response[p].code = 304 =>
       /\ entry[p] # None
       /\ entry[p].body = response[p].body

HeldOK(p) ==
  /\ started[p] <= now
  /\ pc[p] # "idle" => request[p] # None
  /\ pc[p] \in {"answered", "saving"} => response[p] # None
  /\ response[p] # None => pc[p] \in {"answered", "saving"} /\ ResponseOK(p)
  /\ pc[p] = "idle" => entry[p] = None
  /\ entry[p] # None => EntryOK(entry[p]) /\ entry[p].url = request[p].url
  /\ pc[p] = "saving" => entry[p] # None

IInv ==
  /\ TypeOK
  /\ \A u \in Url : lastCurrent[u][content[u]] = now
  /\ \A u \in Url, c \in Content : lastCurrent[u][c] <= now
  /\ \A e \in db : EntryOK(e)
  /\ \A p \in Proc : HeldOK(p)
  /\ CurrentWhenContacted
  /\ Hidden = {} => VaryHonoured
  /\ ClockSkew >= 0 => LifetimeHonoured /\ BoundedStaleness

-----------------------------------------------------------------------------
(* Lemmas about the operators *)

LEMMA PolicyFields ==
  ASSUME NEW hdr \in Policy
  PROVE  /\ hdr.vary \in SUBSET Header
         /\ hdr.max_age # None => hdr.max_age \in Nat
         /\ hdr.expires # None => hdr.expires \in Int
         /\ hdr.no_cache \in BOOLEAN
BY PolicyAssumption DEF PolicyType, Maybe

LEMMA RepresentationType ==
  ASSUME TypeOK, NEW r \in Request
  PROVE  Representation(r) \in Body
<1>1. r.url \in Url /\ r.headers \in [Header -> Maybe(HeaderValue)]
  BY DEF Request
<1>2. policy[r.url] \in Policy /\ content[r.url] \in Content
  BY <1>1 DEF TypeOK
<1>3. policy[r.url].vary \in SUBSET Header
  BY <1>2, PolicyFields
<1>4. [h \in policy[r.url].vary |-> r.headers[h]] \in VaryDict
  BY <1>1, <1>3 DEF VaryDict
<1> QED BY <1>2, <1>4 DEF Representation, Body

(* What is left of the lifetime after Expires is cut to seconds is never   *)
(* more than what the header gave, if the local clock is not behind GMT.   *)
LEMMA ExpiresAgeBound ==
  ASSUME NEW hdr \in Policy, NEW date \in Nat, now \in Nat
  PROVE  /\ ExpiresAge(hdr, date) \in Maybe(Nat)
         /\ (ClockSkew >= 0 /\ date <= now /\ ExpiresAge(hdr, date) # None) =>
              ExpiresAge(hdr, date) <= ExpiresLifetime(hdr)
<1>1. CASE hdr.expires = None
  BY <1>1 DEF ExpiresAge, Maybe
<1>2. CASE hdr.expires # None
  <2> DEFINE left == ExpiresIn(hdr, date)
  <2>1. hdr.expires \in Int /\ left \in Int
    BY <1>2, PolicyFields, TimeAssumption DEF ExpiresIn
  <2>2. ExpiresAge(hdr, date) = IF left < 0 THEN 0 ELSE left % Day
    BY <1>2 DEF ExpiresAge
  <2>3. ExpiresLifetime(hdr) = IF hdr.expires < 0 THEN 0 ELSE hdr.expires
    BY <1>2 DEF ExpiresLifetime
  <2>4. ClockSkew >= 0 /\ date <= now => left <= hdr.expires
    BY <2>1, TimeAssumption DEF ExpiresIn
  <2>5. left < 0 \/ (left % Day \in Nat /\ left % Day <= left)
    BY <2>1, TimeAssumption
  <2> HIDE DEF left
  <2> QED BY <2>1, <2>2, <2>3, <2>4, <2>5, NoneAssumption DEF Maybe
<1> QED BY <1>1, <1>2

LEMMA MaxAgeBound ==
  ASSUME NEW hdr \in Policy, NEW date \in Nat, now \in Nat
  PROVE  /\ MaxAge(hdr, date) \in Maybe(Nat)
         /\ (ClockSkew >= 0 /\ date <= now /\ MaxAge(hdr, date) # None) =>
              MaxAge(hdr, date) <= Lifetime(hdr)
BY ExpiresAgeBound, PolicyFields DEF MaxAge, Lifetime, Maybe

LEMMA NewEntryType ==
  ASSUME TypeOK, NEW r \in Request, NEW rsp \in Response
  PROVE  NewEntry(r, rsp) \in Entry
<1>1. /\ rsp.headers \in Policy
      /\ rsp.at \in Nat
      /\ rsp.body \in Body
  BY DEF Response
<1>2. now \in Nat
  BY TimeAssumption DEF TypeOK
<1>3. MaxAge(rsp.headers, rsp.at) \in Maybe(Nat)
  BY <1>1, <1>2, MaxAgeBound
<1>4. [h \in rsp.headers.vary |-> Seen(r, h)] \in VaryDict
  BY <1>1, PolicyFields DEF Request, Seen, VaryDict, Maybe
<1>5. r.url \in Url
  BY DEF Request
<1> QED BY <1>1, <1>2, <1>3, <1>4, <1>5 DEF NewEntry, Entry, Maybe

LEMMA LifetimeType ==
  ASSUME NEW hdr \in Policy
  PROVE  Lifetime(hdr) \in Nat
BY PolicyFields DEF Lifetime, ExpiresLifetime

-----------------------------------------------------------------------------
(* The invariant *)

(* What an entry means survives a change of the clock and of the server.   *)
LEMMA EntryLasts ==
  ASSUME TypeOK, TypeOK', now <= now',
         \A u \in Url, c \in Content : lastCurrent[u][c] <= lastCurrent'[u][c],
         NEW e \in Entry, EntryOK(e)
  PROVE  EntryOK(e)'
<1>1. /\ e.url \in Url
      /\ e.body.content \in Content
      /\ e.local_date \in Nat
      /\ e.answered \in Nat
  BY DEF Entry, Body
<1>2. /\ lastCurrent[e.url][e.body.content] \in Int
      /\ lastCurrent'[e.url][e.body.content] \in Int
      /\ now \in Nat /\ now' \in Nat
  BY <1>1, TimeAssumption DEF TypeOK
<1> QED BY <1>1, <1>2 DEF EntryOK

(* The same for what every process holds, when no process moves. *)
LEMMA HeldLasts ==
  ASSUME TypeOK, TypeOK', now <= now',
         \A u \in Url, c \in Content : lastCurrent[u][c] <= lastCurrent'[u][c],
         UNCHANGED <<pc, request, entry, response, started>>,
         NEW p \in Proc, HeldOK(p)
  PROVE  HeldOK(p)'
<1>1. started[p] \in Nat /\ now \in Nat /\ now' \in Nat
  BY TimeAssumption DEF TypeOK
<1>2. started[p] <= now'
  BY <1>1 DEF HeldOK
<1>3. ASSUME entry[p] # None PROVE EntryOK(entry[p])'
  BY <1>3, EntryLasts DEF HeldOK, TypeOK, Maybe
<1>4. ASSUME response[p] # None PROVE ResponseOK(p)'
  <2>1. ResponseOK(p) /\ request[p] # None
    BY <1>4 DEF HeldOK
  <2>2. response[p] \in Response /\ request[p] \in Request
    BY <1>4, <2>1 DEF TypeOK, Maybe
  <2>3. /\ request[p].url \in Url
        /\ response[p].body.content \in Content
        /\ response[p].at \in Nat
    BY <2>2 DEF Response, Request, Body
  <2>4. /\ lastCurrent[request[p].url][response[p].body.content] \in Int
        /\ lastCurrent'[request[p].url][response[p].body.content] \in Int
    BY <2>3 DEF TypeOK
  <2> QED BY <1>1, <2>1, <2>3, <2>4 DEF ResponseOK, KeyedAnswer
<1> QED BY <1>2, <1>3, <1>4 DEF HeldOK

(* A step of p leaves what the others hold alone.                          *)
LEMMA OthersHeld ==
  ASSUME NEW p \in Proc, NEW q \in Proc, q # p, HeldOK(q),
         UNCHANGED <<now, lastCurrent>>,
         /\ pc'[q] = pc[q]
         /\ request'[q] = request[q]
         /\ entry'[q] = entry[q]
         /\ response'[q] = response[q]
         /\ started'[q] = started[q]
  PROVE  HeldOK(q)'
BY DEF HeldOK, ResponseOK, KeyedAnswer, EntryOK

LEMMA IdleHeld ==
  ASSUME TypeOK, NEW p \in Proc, Idle(p), UNCHANGED now
  PROVE  HeldOK(p)'
BY TimeAssumption DEF TypeOK, Idle, HeldOK

LEMMA IdleType ==
  ASSUME TypeOK, NEW p \in Proc, Idle(p)
  PROVE  /\ pc' \in [Proc -> {"idle", "waiting", "answered", "saving"}]
         /\ request' \in [Proc -> Maybe(Request)]
         /\ entry' \in [Proc -> Maybe(Entry)]
         /\ response' \in [Proc -> Maybe(Response)]
         /\ started' \in [Proc -> Nat]
         /\ \A q \in Proc \ {p} :
              /\ pc'[q] = pc[q]
              /\ request'[q] = request[q]
              /\ entry'[q] = entry[q]
              /\ response'[q] = response[q]
              /\ started'[q] = started[q]
BY DEF TypeOK, Idle, Maybe

(* A step that returns a response the server was asked for.                *)
LEMMA ReturnStep ==
  ASSUME IInv, NEW p \in Proc, NEW e \in Maybe(Entry), NEW b \in Body,
         Return(p, e, b), request[p] \in Request,
         UNCHANGED <<now, content, policy, lastCurrent>>,
         db' \subseteq Entry, \A f \in db' : EntryOK(f),
         lastCurrent[request[p].url][b.content] >= started[p],
         Hidden = {} /\ e # None =>
           \A h \in DOMAIN b.key : b.key[h] = request[p].headers[h]
  PROVE  IInv'
<1>1. now \in Nat /\ started[p] \in Nat
  BY TimeAssumption DEF IInv, TypeOK
<1>2. delivered' \in Delivery
  BY <1>1 DEF Return, Delivery
<1>3. Idle(p) /\ TypeOK
  BY DEF Return, IInv
<1>4. TypeOK'
  BY <1>2, <1>3, IdleType DEF TypeOK, Maybe
<1>5. /\ \A u \in Url : lastCurrent'[u][content'[u]] = now'
      /\ \A u \in Url, c \in Content : lastCurrent'[u][c] <= now'
  BY DEF IInv
<1>6. \A f \in db' : EntryOK(f)'
  BY DEF EntryOK
<1>7. HeldOK(p)'
  BY <1>3, IdleHeld
<1>8. \A q \in Proc \ {p} : HeldOK(q)'
  BY <1>3, IdleType, OthersHeld DEF IInv
<1>9. /\ delivered'.contacted
      /\ delivered'.request = request[p]
      /\ delivered'.body = b
      /\ delivered'.started = started[p]
      /\ delivered'.entry = e
  BY DEF Return
<1>10. /\ LifetimeHonoured' /\ BoundedStaleness' /\ CurrentWhenContacted'
       /\ Hidden = {} => VaryHonoured'
  BY <1>9 DEF LifetimeHonoured, BoundedStaleness, CurrentWhenContacted,
      VaryHonoured
<1> QED BY <1>4, <1>5, <1>6, <1>7, <1>8, <1>10 DEF IInv

LEMMA InitInv == Init => IInv
<1> SUFFICES ASSUME Init PROVE IInv
  OBVIOUS
<1>1. TypeOK
  <2>1. now \in 0..MaxTime
    BY TimeAssumption DEF Init
  <2>2. lastCurrent \in [Url -> [Content -> Int]]
    BY DEF Init
  <2>3. /\ request \in [Proc -> Maybe(Request)]
        /\ entry \in [Proc -> Maybe(Entry)]
        /\ response \in [Proc -> Maybe(Response)]
    BY DEF Init, Maybe
  <2>4. /\ pc \in [Proc -> {"idle", "waiting", "answered", "saving"}]
        /\ started \in [Proc -> Nat]
    BY DEF Init
  <2>5. delivered \in Maybe(Delivery) /\ db \subseteq Entry
    BY DEF Init, Maybe
  <2> QED BY <2>1, <2>2, <2>3, <2>4, <2>5 DEF Init, TypeOK
<1>2. ASSUME NEW p \in Proc PROVE HeldOK(p)
  <2>1. /\ now = 0 /\ started[p] = 0
        /\ pc[p] = "idle"
        /\ entry[p] = None
        /\ response[p] = None
    BY DEF Init
  <2> QED BY <2>1 DEF HeldOK
<1> QED
  BY <1>1, <1>2 DEF Init, IInv, LifetimeHonoured, BoundedStaleness, CurrentWhenContacted,
      VaryHonoured

LEMMA TickInv == ASSUME IInv, Tick PROVE IInv'
<1>1. TypeOK'
  BY TimeAssumption DEF IInv, Tick, TypeOK, Maybe
<1>2. now \in Nat /\ now' = now + 1 /\ now <= now'
  BY TimeAssumption DEF IInv, Tick, TypeOK
<1>3. \A u \in Url : lastCurrent'[u] = [lastCurrent[u] EXCEPT ![content[u]] = now']
  BY <1>2 DEF Tick
<1>4. \A u \in Url : lastCurrent'[u][content'[u]] = now'
  BY <1>3 DEF IInv, Tick, TypeOK
<1>5. ASSUME NEW u \in Url, NEW c \in Content
      PROVE  lastCurrent[u][c] <= lastCurrent'[u][c] /\ lastCurrent'[u][c] <= now'
  <2>1. lastCurrent[u] \in [Content -> Int] /\ lastCurrent[u][c] <= now
    BY DEF IInv, TypeOK
  <2>2. lastCurrent'[u][c] = IF c = content[u] THEN now' ELSE lastCurrent[u][c]
    BY <1>3, <2>1
  <2> QED BY <1>2, <2>1, <2>2
<1>6. \A e \in db' : EntryOK(e)'
  BY <1>1, <1>2, <1>5, EntryLasts DEF IInv, Tick, TypeOK
<1>7. \A p \in Proc : HeldOK(p)'
  BY <1>1, <1>2, <1>5, HeldLasts DEF IInv, Tick
<1> QED
  BY <1>1, <1>4, <1>5, <1>6, <1>7
  DEF IInv, Tick, LifetimeHonoured, BoundedStaleness, CurrentWhenContacted,
      VaryHonoured

LEMMA ServerChangeInv ==
  ASSUME IInv, NEW u \in Url, NEW c \in Content, NEW hdr \in Policy,
         ServerChange(u, c, hdr)
  PROVE  IInv'
<1>1. TypeOK'
  BY DEF IInv, ServerChange, TypeOK, Maybe
<1>2. now \in Nat /\ now' = now
  BY TimeAssumption DEF IInv, ServerChange, TypeOK
<1>3. \A v \in Url : lastCurrent'[v][content'[v]] = now'
  BY DEF IInv, ServerChange, TypeOK
<1>4. ASSUME NEW v \in Url, NEW d \in Content
      PROVE  lastCurrent[v][d] <= lastCurrent'[v][d] /\ lastCurrent'[v][d] <= now'
  <2>1. lastCurrent[v][d] \in Int /\ lastCurrent[v][d] <= now
    BY DEF IInv, TypeOK
  <2>2. lastCurrent'[v][d] = IF v = u /\ d = c THEN now ELSE lastCurrent[v][d]
    BY DEF IInv, TypeOK, ServerChange
  <2> QED BY <1>2, <2>1, <2>2
<1>5. now <= now' /\ TypeOK
  BY <1>2 DEF IInv
<1>6. \A e \in db' : EntryOK(e)'
  BY <1>1, <1>4, <1>5, EntryLasts DEF IInv, ServerChange, TypeOK
<1>7. \A p \in Proc : HeldOK(p)'
  BY <1>1, <1>4, <1>5, HeldLasts DEF IInv, ServerChange
<1> QED
  BY <1>1, <1>3, <1>4, <1>6, <1>7
  DEF IInv, ServerChange, LifetimeHonoured, BoundedStaleness, CurrentWhenContacted,
      VaryHonoured

LEMMA ServeFreshInv ==
  ASSUME IInv, NEW p \in Proc, NEW r \in Request, ServeFresh(p, r)
  PROVE  IInv'
<1>1. PICK e \in db :
        /\ UpToDate(e)
        /\ Matches(e, r)
        /\ delivered' = [request |-> r, body |-> e.body, contacted |-> FALSE,
                         at |-> now, started |-> now, entry |-> e]
  BY DEF ServeFresh
<1>2. e \in Entry /\ EntryOK(e) /\ now \in Nat
  BY TimeAssumption DEF IInv, TypeOK
<1>3. delivered' \in Delivery
  BY <1>1, <1>2 DEF Delivery, Entry, Maybe
<1>4. TypeOK'
  BY <1>3 DEF IInv, ServeFresh, TypeOK, Maybe
<1>5. \A f \in db' : EntryOK(f)'
  BY DEF IInv, ServeFresh, EntryOK
<1>6. \A q \in Proc : HeldOK(q)'
  BY DEF IInv, ServeFresh, HeldOK, ResponseOK, KeyedAnswer, EntryOK
<1>7. /\ e.max_age \in Nat
      /\ e.local_date + e.max_age > now
      /\ ClockSkew >= 0 => e.max_age <= Lifetime(e.headers)
      /\ e.local_date \in Nat /\ e.answered \in Nat
      /\ Lifetime(e.headers) \in Nat
  BY <1>1, <1>2, LifetimeType DEF UpToDate, EntryOK, Entry, Maybe
<1>8. /\ lastCurrent[e.url][e.body.content] \in Int
      /\ lastCurrent[e.url][e.body.content] >= e.answered
  BY <1>2 DEF IInv, TypeOK, EntryOK, Entry, Body
<1>9. CurrentWhenContacted' /\ (ClockSkew >= 0 => LifetimeHonoured')
  BY <1>1, <1>2, <1>7 DEF LifetimeHonoured, CurrentWhenContacted
<1>10. ClockSkew >= 0 => BoundedStaleness'
  BY <1>1, <1>2, <1>7, <1>8 DEF BoundedStaleness, ServeFresh
<1>11. Hidden = {} => VaryHonoured'
  BY <1>1, <1>2 DEF VaryHonoured, Matches, Seen, EntryOK, Keyed
<1> QED
  BY <1>4, <1>5, <1>6, <1>9, <1>10, <1>11 DEF IInv, ServeFresh

LEMMA FetchInv ==
  ASSUME IInv, NEW p \in Proc, NEW r \in Request, Fetch(p, r)
  PROVE  IInv'
<1>1. \/ entry' = entry
      \/ \E e \in db : Matches(e, r) /\ entry' = [entry EXCEPT ![p] = e]
  BY DEF Fetch
<1>2. now \in Nat /\ entry[p] = None /\ response[p] = None
  <2>1. now \in Nat
    BY TimeAssumption DEF IInv, TypeOK
  <2> QED BY <2>1 DEF IInv, HeldOK, Fetch
<1>3. entry' \in [Proc -> Maybe(Entry)] /\ \A q \in Proc \ {p} : entry'[q] = entry[q]
  BY <1>1 DEF IInv, TypeOK, Maybe
<1>4. TypeOK'
  BY <1>2, <1>3 DEF IInv, Fetch, TypeOK, Maybe
<1>5. entry'[p] # None => EntryOK(entry'[p]) /\ entry'[p].url = r.url
  BY <1>1, <1>2 DEF IInv, TypeOK, Matches
<1>6. HeldOK(p)'
  <2>1. /\ pc'[p] = "waiting"
        /\ request'[p] = r
        /\ started'[p] = now
        /\ response'[p] = None
    BY <1>2 DEF IInv, TypeOK, Fetch
  <2>2. r # None
    BY NoneAssumption
  <2>3. now' = now /\ lastCurrent' = lastCurrent
    BY DEF Fetch
  <2>4. entry'[p] # None => EntryOK(entry[p])' /\ entry'[p].url = request'[p].url
    BY <1>5, <2>1, <2>3 DEF EntryOK
  <2> QED BY <1>2, <2>1, <2>2, <2>3, <2>4 DEF HeldOK
<1>7. \A q \in Proc \ {p} : HeldOK(q)'
  <2>1. ASSUME NEW q \in Proc \ {p} PROVE HeldOK(q)'
    <3>1. /\ pc'[q] = pc[q]
          /\ request'[q] = request[q]
          /\ response'[q] = response[q]
          /\ started'[q] = started[q]
      BY DEF IInv, TypeOK, Fetch
    <3> QED BY <1>3, <3>1, OthersHeld DEF IInv, Fetch
  <2> QED BY <2>1
<1>8. \A e \in db' : EntryOK(e)'
  BY DEF IInv, Fetch, EntryOK
<1> QED
  BY <1>4, <1>6, <1>7, <1>8
  DEF IInv, Fetch, LifetimeHonoured, BoundedStaleness, CurrentWhenContacted,
      VaryHonoured

LEMMA AnswerInv ==
  ASSUME IInv, NEW p \in Proc, Answer(p)
  PROVE  IInv'
<1>1. request[p] \in Request /\ request[p].url \in Url
  BY DEF IInv, TypeOK, HeldOK, Answer, Maybe, Request
<1>2. now \in Nat /\ started[p] \in Nat /\ started[p] <= now
  BY TimeAssumption DEF IInv, TypeOK, HeldOK
<1> DEFINE r == request[p]
           notModified == entry[p] # None /\ Validates(entry[p], r)
           rsp == [code    |-> IF notModified THEN 304 ELSE 200,
                   body    |-> Representation(r),
                   headers |-> policy[r.url],
                   at      |-> now]
<1>3. Representation(r) \in Body /\ Representation(r).content = content[r.url]
  BY <1>1, RepresentationType DEF IInv, Representation
<1>4. rsp \in Response
  BY <1>1, <1>2, <1>3 DEF IInv, TypeOK, Response
<1>5. response' = [response EXCEPT ![p] = rsp]
  BY DEF Answer
<1> HIDE DEF rsp
<1>6. TypeOK'
  BY <1>4, <1>5 DEF IInv, Answer, TypeOK, Maybe
<1>7. rsp.code = 304 => entry[p] # None /\ entry[p].body = rsp.body
  <2> SUFFICES ASSUME notModified
               PROVE  entry[p] # None /\ entry[p].body = Representation(r)
    BY DEF rsp
  <2>1. EntryOK(entry[p]) /\ entry[p] # None
    BY DEF IInv, HeldOK
  <2>2. Representation(r) # None
    BY <1>3, NoneAssumption
  <2> QED BY <2>1, <2>2 DEF Validates, EntryOK
<1>8. HeldOK(p)'
  <2>1. /\ pc'[p] = "answered"
        /\ response'[p] = rsp
        /\ rsp # None
    BY <1>4, <1>5, NoneAssumption DEF IInv, TypeOK, Answer
  <2>2. /\ rsp.at = now
        /\ lastCurrent[r.url][rsp.body.content] = now
        /\ rsp.body.key = [h \in rsp.headers.vary |-> r.headers[h]]
    BY <1>1, <1>3 DEF IInv, rsp, Representation
  <2>3. ResponseOK(p)'
    BY <1>2, <1>7, <2>1, <2>2 DEF ResponseOK, KeyedAnswer, Answer
  <2> QED BY <2>1, <2>3 DEF IInv, Answer, HeldOK, EntryOK
<1>9. \A q \in Proc \ {p} : HeldOK(q)'
  <2>1. ASSUME NEW q \in Proc \ {p} PROVE HeldOK(q)'
    <3>1. pc'[q] = pc[q] /\ response'[q] = response[q]
      BY <1>5 DEF IInv, TypeOK, Answer
    <3> QED BY <3>1, OthersHeld DEF IInv, Answer
  <2> QED BY <2>1
<1>10. \A e \in db' : EntryOK(e)'
  BY DEF IInv, Answer, EntryOK
<1> QED
  BY <1>6, <1>8, <1>9, <1>10
  DEF IInv, Answer, LifetimeHonoured, BoundedStaleness, CurrentWhenContacted,
      VaryHonoured

(* What a process that handles an answer knows about it. *)
LEMMA Answered ==
  ASSUME IInv, NEW p \in Proc, pc[p] \in {"answered", "saving"}
  PROVE  /\ request[p] \in Request
         /\ response[p] \in Response
         /\ ResponseOK(p)
         /\ response[p].at \in Nat /\ started[p] \in Nat /\ now \in Nat
         /\ response[p].body \in Body
         /\ lastCurrent[request[p].url][response[p].body.content] \in Int
         /\ lastCurrent[request[p].url][response[p].body.content] >= started[p]
<1>1. request[p] \in Request /\ response[p] \in Response /\ ResponseOK(p)
  BY DEF IInv, TypeOK, HeldOK, Maybe
<1>2. response[p].at \in Nat /\ started[p] \in Nat /\ now \in Nat
  BY <1>1, TimeAssumption DEF IInv, TypeOK, Response
<1>3. response[p].body \in Body
      /\ lastCurrent[request[p].url][response[p].body.content] \in Int
  BY <1>1 DEF IInv, TypeOK, Response, Body, Request
<1> QED BY <1>1, <1>2, <1>3 DEF ResponseOK

LEMMA NewEntryOK ==
  ASSUME IInv, NEW p \in Proc, pc[p] = "answered"
  PROVE  LET e == NewEntry(request[p], response[p])
         IN  e \in Entry /\ EntryOK(e)
<1> DEFINE e == NewEntry(request[p], response[p])
<1>1. e \in Entry
  BY Answered, NewEntryType DEF IInv
<1>2. /\ e.url = request[p].url
      /\ e.body = response[p].body
      /\ e.answered = response[p].at
      /\ e.local_date = now
      /\ e.headers = response[p].headers
      /\ e.max_age = MaxAge(response[p].headers, response[p].at)
      /\ e.etag # None => e.etag = e.body
      /\ e.last_modified # None => e.last_modified = e.body
  BY DEF NewEntry
<1>3. response[p].headers \in Policy
  BY Answered DEF Response
<1>4. ClockSkew >= 0 /\ e.max_age # None => e.max_age <= Lifetime(e.headers)
  BY <1>2, <1>3, Answered, MaxAgeBound DEF ResponseOK
<1>6. Keyed(e)
  BY Answered DEF Keyed, NewEntry, Seen, ResponseOK, KeyedAnswer
<1> HIDE DEF e
<1>5. EntryOK(e)
  BY <1>2, <1>4, <1>6, Answered DEF EntryOK, ResponseOK
<1> QED BY <1>1, <1>5 DEF e

LEMMA HandleNotModifiedInv ==
  ASSUME IInv, NEW p \in Proc, HandleNotModified(p)
  PROVE  IInv'
<1> DEFINE e == Renewed(entry[p], response[p])
<1>1. entry[p] \in Entry /\ EntryOK(entry[p]) /\ entry[p].body = response[p].body
      /\ entry[p].url = request[p].url
  BY Answered DEF HandleNotModified, IInv, TypeOK, HeldOK, ResponseOK, Maybe
<1>2. /\ e \in Entry
      /\ e.body = response[p].body
  BY <1>1, Answered DEF HandleNotModified, Renewed, Entry
<1>3. /\ e.answered = response[p].at /\ e.local_date = now
      /\ e.url = request[p].url /\ e.vary = entry[p].vary
      /\ e.max_age = entry[p].max_age /\ e.etag = entry[p].etag
      /\ e.last_modified = entry[p].last_modified
      /\ e.body = entry[p].body /\ e.headers = entry[p].headers
  BY <1>1 DEF Renewed, Entry
<1>4. db' = Saved(e) /\ Return(p, e, e.body)
  BY DEF HandleNotModified
<1>5. /\ now \in Nat /\ response[p].at <= now
      /\ lastCurrent[request[p].url][response[p].body.content]
           >= response[p].at
  BY Answered DEF HandleNotModified, ResponseOK, IInv, TypeOK
<1> HIDE DEF e
<1>6. EntryOK(e)
  BY <1>1, <1>3, <1>5 DEF EntryOK, Keyed
<1>7. db' \subseteq Entry /\ \A f \in db' : EntryOK(f)
  BY <1>2, <1>6, <1>4 DEF IInv, TypeOK, Saved, Without
<1>8. \A h \in DOMAIN e.body.key : e.body.key[h] = request[p].headers[h]
  <2>1. KeyedAnswer(p)
    BY Answered DEF HandleNotModified, ResponseOK
  <2>2. e.body.key = [h \in response[p].headers.vary |-> request[p].headers[h]]
    BY <1>2, <2>1 DEF KeyedAnswer
  <2> QED BY <2>2
<1> QED
  BY <1>2, <1>4, <1>7, <1>8, Answered, ReturnStep
  DEF HandleNotModified, Maybe

LEMMA HandleCacheableInv ==
  ASSUME IInv, NEW p \in Proc, HandleCacheable(p)
  PROVE  IInv'
<1> DEFINE e == NewEntry(request[p], response[p])
<1>1. e \in Entry /\ EntryOK(e)
  BY NewEntryOK DEF HandleCacheable
<1>2. db' = Saved(e) /\ Return(p, None, response[p].body)
  BY DEF HandleCacheable
<1> HIDE DEF e
<1>3. db' \subseteq Entry /\ \A f \in db' : EntryOK(f)
  BY <1>1, <1>2 DEF IInv, TypeOK, Saved, Without
<1> QED
  BY <1>2, <1>3, Answered, ReturnStep DEF HandleCacheable, Maybe

LEMMA HandleVaryChangedInv ==
  ASSUME IInv, NEW p \in Proc, HandleVaryChanged(p)
  PROVE  IInv'
<1> DEFINE e == NewEntry(request[p], response[p])
<1>1. e \in Entry /\ EntryOK(e) /\ e.url = request[p].url
  BY NewEntryOK DEF HandleVaryChanged, NewEntry
<1>2. db' \subseteq db /\ entry' = [entry EXCEPT ![p] = e]
  BY DEF HandleVaryChanged, Without
<1> HIDE DEF e
<1>3. TypeOK'
  BY <1>1, <1>2 DEF HandleVaryChanged, IInv, TypeOK, Maybe
<1>4. HeldOK(p)'
  <2>1. /\ pc'[p] = "saving"
        /\ entry'[p] = e
        /\ e # None
        /\ response[p] # None
        /\ request[p] # None
        /\ started[p] <= now
    BY <1>1, <1>2, NoneAssumption DEF HandleVaryChanged, IInv, TypeOK, HeldOK
  <2>2. ResponseOK(p)'
    BY <2>1, Answered DEF HandleVaryChanged, ResponseOK, KeyedAnswer
  <2>3. EntryOK(entry[p])'
    BY <1>1, <2>1 DEF HandleVaryChanged, EntryOK
  <2> QED BY <1>1, <2>1, <2>2, <2>3 DEF HandleVaryChanged, HeldOK
<1>5. \A q \in Proc \ {p} : HeldOK(q)'
  <2>1. ASSUME NEW q \in Proc \ {p} PROVE HeldOK(q)'
    <3>1. pc'[q] = pc[q] /\ entry'[q] = entry[q]
      BY <1>2 DEF IInv, TypeOK, HandleVaryChanged
    <3> QED BY <3>1, OthersHeld DEF IInv, HandleVaryChanged
  <2> QED BY <2>1
<1>6. \A f \in db' : EntryOK(f)'
  BY <1>2 DEF IInv, HandleVaryChanged, EntryOK
<1> QED
  BY <1>3, <1>4, <1>5, <1>6
  DEF IInv, HandleVaryChanged, LifetimeHonoured, BoundedStaleness,
      CurrentWhenContacted, VaryHonoured

LEMMA SaveVaryChangedInv ==
  ASSUME IInv, NEW p \in Proc, SaveVaryChanged(p)
  PROVE  IInv'
<1>1. entry[p] \in Entry /\ EntryOK(entry[p])
  BY DEF SaveVaryChanged, IInv, TypeOK, HeldOK, Maybe
<1>2. db' \subseteq Entry /\ \A f \in db' : EntryOK(f)
  BY <1>1 DEF SaveVaryChanged, IInv, TypeOK, Saved, Without
<1> QED
  BY <1>2, Answered, ReturnStep DEF SaveVaryChanged, Maybe

LEMMA HandleUncacheableInv ==
  ASSUME IInv, NEW p \in Proc, HandleUncacheable(p)
  PROVE  IInv'
<1>1. db' \subseteq db
  BY DEF HandleUncacheable, Without
<1>2. db' \subseteq Entry /\ \A f \in db' : EntryOK(f)
  BY <1>1 DEF IInv, TypeOK
<1> QED
  BY <1>2, Answered, ReturnStep DEF HandleUncacheable, Maybe

LEMMA AbortInv ==
  ASSUME IInv, NEW p \in Proc, Abort(p)
  PROVE  IInv'
<1>1. Idle(p) /\ TypeOK /\ delivered' = None
  BY DEF Abort, IInv
<1>2. TypeOK'
  BY <1>1, IdleType DEF Abort, TypeOK, Maybe
<1>3. HeldOK(p)'
  BY <1>1, IdleHeld DEF Abort
<1>4. \A q \in Proc \ {p} : HeldOK(q)'
  BY <1>1, IdleType, OthersHeld DEF IInv, Abort
<1>5. \A f \in db' : EntryOK(f)'
  BY DEF IInv, Abort, EntryOK
<1> QED
  BY <1>1, <1>2, <1>3, <1>4, <1>5
  DEF IInv, Abort, LifetimeHonoured, BoundedStaleness, CurrentWhenContacted,
      VaryHonoured

-----------------------------------------------------------------------------
(* Theorems *)

THEOREM CacheInvariant == Spec => []IInv
<1>1. IInv /\ [Next]_vars => IInv'
  <2> SUFFICES ASSUME IInv, [Next]_vars PROVE IInv'
    OBVIOUS
  <2>1. CASE Tick
    BY <2>1, TickInv
  <2>2. ASSUME NEW u \in Url, NEW c \in Content, NEW hdr \in Policy,
               ServerChange(u, c, hdr)
        PROVE  IInv'
    BY <2>2, ServerChangeInv
  <2>3. ASSUME NEW p \in Proc, NEW r \in Request, ServeFresh(p, r) PROVE IInv'
    BY <2>3, ServeFreshInv
  <2>4. ASSUME NEW p \in Proc, NEW r \in Request, Fetch(p, r) PROVE IInv'
    BY <2>4, FetchInv
  <2>5. ASSUME NEW p \in Proc,
               \/ Answer(p)
               \/ HandleNotModified(p)
               \/ HandleCacheable(p)
               \/ HandleVaryChanged(p)
               \/ SaveVaryChanged(p)
               \/ HandleUncacheable(p)
               \/ Abort(p)
        PROVE  IInv'
    BY <2>5, AnswerInv, HandleNotModifiedInv, HandleCacheableInv,
       HandleVaryChangedInv, SaveVaryChangedInv, HandleUncacheableInv, AbortInv
  <2>6. CASE UNCHANGED vars
    <3>1. TypeOK' <=> TypeOK
      BY <2>6 DEF vars, TypeOK
    <3>2. \A e \in db : EntryOK(e)' <=> EntryOK(e)
      BY <2>6 DEF vars, EntryOK
    <3>3. \A p \in Proc : HeldOK(p)' <=> HeldOK(p)
      BY <2>6 DEF vars, HeldOK, ResponseOK, KeyedAnswer, EntryOK
    <3>4. /\ CurrentWhenContacted' <=> CurrentWhenContacted
          /\ VaryHonoured' <=> VaryHonoured
          /\ LifetimeHonoured' <=> LifetimeHonoured
          /\ BoundedStaleness' <=> BoundedStaleness
      BY <2>6 DEF vars, LifetimeHonoured, BoundedStaleness,
                  CurrentWhenContacted, VaryHonoured
    <3> QED BY <2>6, <3>1, <3>2, <3>3, <3>4 DEF vars, IInv
  <2> QED BY <2>1, <2>2, <2>3, <2>4, <2>5, <2>6 DEF Next
<1> QED BY InitInv, <1>1, PTL DEF Spec

(* Every variable keeps its type. *)
THEOREM TypeCorrect == Spec => []TypeOK
<1>1. IInv => TypeOK
  BY DEF IInv
<1> QED BY CacheInvariant, <1>1, PTL

(* A response served without asking the server is within the lifetime its  *)
(* headers gave it, whatever the headers and the other processes do.       *)
THEOREM ServesWithinLifetime ==
  ASSUME ClockSkew >= 0 PROVE Spec => []LifetimeHonoured
<1>1. IInv => LifetimeHonoured
  BY DEF IInv
<1> QED BY CacheInvariant, <1>1, PTL

(* The content of such a response was the server's no longer ago than that *)
(* lifetime and the time the answer took to reach the cache.               *)
THEOREM StalenessIsBounded ==
  ASSUME ClockSkew >= 0 PROVE Spec => []BoundedStaleness
<1>1. IInv => BoundedStaleness
  BY DEF IInv
<1> QED BY CacheInvariant, <1>1, PTL

(* What comes from the cache was made for the same values of the headers   *)
(* the server varied on, if the cache sees these headers: on every path,   *)
(* also where a row is replaced while another process looks it up.         *)
THEOREM VariesAsTheServer ==
  ASSUME Hidden = {} PROVE Spec => []VaryHonoured
<1>1. IInv => VaryHonoured
  BY DEF IInv
<1> QED BY CacheInvariant, <1>1, PTL

(* What is returned after asking the server was current after the request  *)
(* was made, through a 304 and another process's writes.                   *)
THEOREM ContactedIsCurrent == Spec => []CurrentWhenContacted
<1>1. IInv => CurrentWhenContacted
  BY DEF IInv
<1> QED BY CacheInvariant, <1>1, PTL
=============================================================================
