------------------------------ MODULE ApiCache ------------------------------
(***************************************************************************)
(* The HTTP cache of the Web API client, rbtools/api/cache.py: APICache    *)
(* answers GET requests from a SQLite database that every rbt process of   *)
(* the user shares.  A request reads the database, may go to the server    *)
(* with the validators of the row it found, and writes the database when   *)
(* the answer arrives; other processes, the server and the clock move      *)
(* between those steps.                                                    *)
(*                                                                         *)
(* A body stands for the server's representation of a resource: the        *)
(* content the server held and the request headers it varied on.  An ETag  *)
(* or Last-Modified value is identified with the body it validates.  Time  *)
(* is in the seconds of DATE_FORMAT.                                       *)
(*                                                                         *)
(* The opening of the database file and its schema are left out.           *)
(***************************************************************************)
EXTENDS Integers

CONSTANTS
  Proc,          \* rbt processes that share the database
  Url,           \* resources
  Header,        \* request headers a server may name in Vary
  Hidden,        \* those urllib adds, or stores under another name, after the look-up
  HeaderValue,   \* values of a request header
  Content,       \* contents of a resource
  Policy,        \* the caching headers a response may carry
  ClockSkew,     \* local wall clock minus the GMT clock of Expires
  Day,           \* the modulus of timedelta.seconds
  MaxTime,       \* bound: the clock stops here
  None

Maybe(S) == S \cup {None}

PolicyType == [expires       : Maybe(Int),   \* Expires minus Date, in seconds
               max_age       : Maybe(Nat),   \* Cache-Control: max-age
               no_cache      : BOOLEAN,      \* no-cache, must-revalidate, Pragma
               no_store      : BOOLEAN,
               etag          : BOOLEAN,      \* does the response have an ETag?
               last_modified : BOOLEAN,
               vary          : SUBSET Header]

ASSUME PolicyAssumption == Policy \subseteq PolicyType
ASSUME HiddenAssumption == Hidden \subseteq Header
ASSUME TimeAssumption ==
  /\ ClockSkew \in Int
  /\ Day \in Nat \ {0}
  /\ MaxTime \in Nat

VARIABLES
  now,           \* the wall clock
  content,       \* content[u]: what the server holds for u
  policy,        \* policy[u]: the caching headers it answers with for u
  lastCurrent,   \* history: the last time the server held content c for u
  db,            \* the rows of the api_cache table
  pc,            \* where each process is in make_request
  request,       \* the request each process is making
  entry,         \* the CacheEntry a process holds while it waits
  response,      \* the server's answer a process has not handled yet
  started,       \* history: when the process called make_request
  delivered      \* history: what make_request returned in the last step, or None

vars == <<now, content, policy, lastCurrent, db, pc, request, entry, response,
          started, delivered>>

-----------------------------------------------------------------------------
(* Requests, bodies and entries *)

Request == [url : Url, headers : [Header -> Maybe(HeaderValue)]]

VaryDict == UNION {[H -> Maybe(HeaderValue)] : H \in SUBSET Header}

Body == [content : Content, key : VaryDict]

(* The columns of a row; answered and headers are history: when the server *)
(* last vouched for the body and the headers it came with.                 *)
Entry == [url : Url, vary : VaryDict, max_age : Maybe(Nat),
          etag : Maybe(Body), last_modified : Maybe(Body),
          local_date : Nat, body : Body, answered : Nat, headers : Policy]

(* What make_request returned: the entry of a CachedHTTPResponse, or None  *)
(* for a LiveHTTPResponse, and whether the server was asked.               *)
Delivery == [request : Request, body : Body, contacted : BOOLEAN,
             at : Nat, started : Nat, entry : Maybe(Entry)]

Response == [code : {200, 304}, body : Body, headers : Policy, at : Nat]

ASSUME NoneAssumption ==
  /\ None \notin Int
  /\ None \notin HeaderValue
  /\ None \notin Body
  /\ None \notin Request
  /\ None \notin Entry
  /\ None \notin Response
  /\ None \notin Delivery

(* A header the process looks up in request.headers. *)
Seen(r, h) == IF h \in Hidden THEN None ELSE r.headers[h]

(* The representation of u the server answers request r with. *)
Representation(r) ==
  [content |-> content[r.url],
   key     |-> [h \in policy[r.url].vary |-> r.headers[h]]]

MutantMatchesUrl(e, r) == e.url = r.url

Matches(e, r) ==
  /\ e.url = r.url
  /\ \A h \in DOMAIN e.vary : Seen(r, h) = e.vary[h]

MutantUpToDateWithoutMaxAge(e) ==
  e.max_age # None => e.local_date + e.max_age > now

MutantUpToDateInclusive(e) ==
  e.max_age # None /\ e.local_date + e.max_age >= now

UpToDate(e) ==
  /\ e.max_age # None
  /\ e.local_date + e.max_age > now

(* _get_caching_info: whether the response may be cached, and how long. *)
Cacheable(hdr) ==
  /\ ~hdr.no_store
  /\ hdr.no_cache => hdr.etag \/ hdr.last_modified

ExpiresIn(hdr, date) == (date + hdr.expires) - (now + ClockSkew)

MutantExpiresAgeUnclamped(hdr, date) ==
  IF hdr.expires = None THEN None ELSE ExpiresIn(hdr, date)

ExpiresAge(hdr, date) ==
  IF hdr.expires = None THEN None
  ELSE IF ExpiresIn(hdr, date) < 0 THEN 0 ELSE ExpiresIn(hdr, date) % Day

(* max-age overrides Expires, and no-cache overrides both. *)
MaxAge(hdr, date) ==
  IF hdr.no_cache THEN 0
  ELSE IF hdr.max_age # None THEN hdr.max_age ELSE ExpiresAge(hdr, date)

(* The entry make_request saves for a 2xx answer to request r.             *)
NewEntry(r, rsp) ==
  [url           |-> r.url,
   vary          |-> [h \in rsp.headers.vary |-> Seen(r, h)],
   max_age       |-> MaxAge(rsp.headers, rsp.at),
   etag          |-> IF rsp.headers.etag THEN rsp.body ELSE None,
   last_modified |-> IF rsp.headers.last_modified THEN rsp.body ELSE None,
   local_date    |-> now,
   body          |-> rsp.body,
   answered      |-> rsp.at,
   headers       |-> rsp.headers]

(* The entry make_request saves when the server answers 304. *)
Renewed(e, rsp) == [e EXCEPT !.local_date = now, !.answered = rsp.at]

SameKey(e, f) == e.url = f.url /\ e.vary = f.vary

Without(e) == {f \in db : ~SameKey(e, f)}

(* INSERT, or UPDATE when the primary key exists. *)
Saved(e) == Without(e) \cup {e}

-----------------------------------------------------------------------------
Init ==
  /\ now = 0
  /\ content \in [Url -> Content]
  /\ policy \in [Url -> Policy]
  /\ lastCurrent = [u \in Url |-> [c \in Content |->
                      IF c = content[u] THEN 0 ELSE -1]]
  /\ db = {}
  /\ pc = [p \in Proc |-> "idle"]
  /\ request = [p \in Proc |-> None]
  /\ entry = [p \in Proc |-> None]
  /\ response = [p \in Proc |-> None]
  /\ started = [p \in Proc |-> 0]
  /\ delivered = None

(* The environment: the clock, and changes on the server. *)
Tick ==
  /\ now < MaxTime
  /\ now' = now + 1
  /\ lastCurrent' = [u \in Url |->
                       [lastCurrent[u] EXCEPT ![content[u]] = now + 1]]
  /\ delivered' = None
  /\ UNCHANGED <<content, policy, db, pc, request, entry, response, started>>

ServerChange(u, c, hdr) ==
  /\ <<c, hdr>> # <<content[u], policy[u]>>
  /\ content' = [content EXCEPT ![u] = c]
  /\ policy' = [policy EXCEPT ![u] = hdr]
  /\ lastCurrent' = [lastCurrent EXCEPT ![u][c] = now]
  /\ delivered' = None
  /\ UNCHANGED <<now, db, pc, request, entry, response, started>>

-----------------------------------------------------------------------------
(* make_request *)

Idle(p) ==
  /\ pc' = [pc EXCEPT ![p] = "idle"]
  /\ request' = [request EXCEPT ![p] = None]
  /\ entry' = [entry EXCEPT ![p] = None]
  /\ response' = [response EXCEPT ![p] = None]
  /\ started' = [started EXCEPT ![p] = 0]

Return(p, e, b) ==
  /\ delivered' = [request |-> request[p], body |-> b, contacted |-> TRUE,
                   at |-> now, started |-> started[p], entry |-> e]
  /\ Idle(p)

(* _get_entry finds a row that is up to date: no request is made. *)
ServeFresh(p, r) ==
  /\ pc[p] = "idle"
  /\ \E e \in db :
       /\ Matches(e, r)
       /\ UpToDate(e)
       /\ delivered' = [request |-> r, body |-> e.body, contacted |-> FALSE,
                        at |-> now, started |-> now, entry |-> e]
  /\ UNCHANGED <<now, content, policy, lastCurrent, db, pc, request, entry,
                 response, started>>

(* The row is out of date, or there is none: the request goes out, with    *)
(* the row's validators.  _get_entry takes the first row that matches, in  *)
(* an order the query does not fix.                                        *)
Fetch(p, r) ==
  /\ pc[p] = "idle"
  /\ \/ \E e \in db : /\ Matches(e, r)
                      /\ ~UpToDate(e)
                      /\ entry' = [entry EXCEPT ![p] = e]
     \/ /\ \A e \in db : ~Matches(e, r)
        /\ UNCHANGED entry
  /\ pc' = [pc EXCEPT ![p] = "waiting"]
  /\ request' = [request EXCEPT ![p] = r]
  /\ started' = [started EXCEPT ![p] = now]
  /\ delivered' = None
  /\ UNCHANGED <<now, content, policy, lastCurrent, db, response>>

(* The server compares If-None-Match, or else If-Modified-Since, with what *)
(* it would answer.                                                        *)
Validates(e, r) ==
  \/ e.etag # None /\ e.etag = Representation(r)
  \/ e.etag = None /\ e.last_modified = Representation(r)

Answer(p) ==
  /\ pc[p] = "waiting"
  /\ LET r == request[p]
         notModified == entry[p] # None /\ Validates(entry[p], r)
     IN  response' = [response EXCEPT ![p] =
                        [code    |-> IF notModified THEN 304 ELSE 200,
                         body    |-> Representation(r),
                         headers |-> policy[r.url],
                         at      |-> now]]
  /\ pc' = [pc EXCEPT ![p] = "answered"]
  /\ delivered' = None
  /\ UNCHANGED <<now, content, policy, lastCurrent, db, request, entry,
                 started>>

HandleNotModified(p) ==
  /\ pc[p] = "answered"
  /\ response[p].code = 304
  /\ LET e == Renewed(entry[p], response[p])
     IN  /\ db' = Saved(e)
         /\ Return(p, e, e.body)
  /\ UNCHANGED <<now, content, policy, lastCurrent>>

(* A slip in the assignments to the entry: its old ETag stays.             *)
MutantHandleCacheable(p) ==
  /\ pc[p] = "answered"
  /\ response[p].code = 200
  /\ Cacheable(response[p].headers)
  /\ LET new == NewEntry(request[p], response[p])
         e == IF entry[p] = None THEN new
              ELSE [new EXCEPT !.etag = entry[p].etag]
     IN  /\ entry[p] # None => entry[p].vary = e.vary
         /\ db' = Saved(e)
         /\ Return(p, None, response[p].body)
  /\ UNCHANGED <<now, content, policy, lastCurrent>>

(* A 2xx answer that may be cached: a new row, or the row the entry came   *)
(* from, if its Vary dictionary is still the same.                         *)
HandleCacheable(p) ==
  /\ pc[p] = "answered"
  /\ response[p].code = 200
  /\ Cacheable(response[p].headers)
  /\ LET e == NewEntry(request[p], response[p])
     IN  /\ entry[p] # None => entry[p].vary = e.vary
         /\ db' = Saved(e)
         /\ Return(p, None, response[p].body)
  /\ UNCHANGED <<now, content, policy, lastCurrent>>

(* The Vary dictionary changed: the old row is deleted in one transaction  *)
(* and the new one saved in another.                                       *)
HandleVaryChanged(p) ==
  /\ pc[p] = "answered"
  /\ response[p].code = 200
  /\ Cacheable(response[p].headers)
  /\ entry[p] # None
  /\ LET e == NewEntry(request[p], response[p])
     IN  /\ entry[p].vary # e.vary
         /\ db' = Without(entry[p])
         /\ entry' = [entry EXCEPT ![p] = e]
  /\ pc' = [pc EXCEPT ![p] = "saving"]
  /\ delivered' = None
  /\ UNCHANGED <<now, content, policy, lastCurrent, request, response,
                 started>>

SaveVaryChanged(p) ==
  /\ pc[p] = "saving"
  /\ db' = Saved(entry[p])
  /\ Return(p, None, response[p].body)
  /\ UNCHANGED <<now, content, policy, lastCurrent>>

HandleUncacheable(p) ==
  /\ pc[p] = "answered"
  /\ response[p].code = 200
  /\ ~Cacheable(response[p].headers)
  /\ db' = IF entry[p] = None THEN db ELSE Without(entry[p])
  /\ Return(p, None, response[p].body)
  /\ UNCHANGED <<now, content, policy, lastCurrent>>

(* An HTTP or connection error, a CacheError from a write (the database is *)
(* locked or full), or the end of the process: nothing is returned.        *)
Abort(p) ==
  /\ pc[p] # "idle"
  /\ Idle(p)
  /\ delivered' = None
  /\ UNCHANGED <<now, content, policy, lastCurrent, db>>

Next ==
  \/ Tick
  \/ \E u \in Url, c \in Content, hdr \in Policy : ServerChange(u, c, hdr)
  \/ \E p \in Proc :
       \/ \E r \in Request : ServeFresh(p, r) \/ Fetch(p, r)
       \/ Answer(p)
       \/ HandleNotModified(p)
       \/ HandleCacheable(p)
       \/ HandleVaryChanged(p)
       \/ SaveVaryChanged(p)
       \/ HandleUncacheable(p)
       \/ Abort(p)

Spec == Init /\ [][Next]_vars

-----------------------------------------------------------------------------
(* Properties *)

TypeOK ==
  /\ now \in 0..MaxTime
  /\ content \in [Url -> Content]
  /\ policy \in [Url -> Policy]
  /\ lastCurrent \in [Url -> [Content -> Int]]
  /\ db \subseteq Entry
  /\ pc \in [Proc -> {"idle", "waiting", "answered", "saving"}]
  /\ request \in [Proc -> Maybe(Request)]
  /\ entry \in [Proc -> Maybe(Entry)]
  /\ response \in [Proc -> Maybe(Response)]
  /\ started \in [Proc -> Nat]
  /\ delivered \in Maybe(Delivery)

(* How long the response's own headers let a cache use it unasked.         *)
ExpiresLifetime(hdr) ==
  IF hdr.expires = None \/ hdr.expires < 0 THEN 0 ELSE hdr.expires

Lifetime(hdr) ==
  IF hdr.no_cache THEN 0
  ELSE IF hdr.max_age # None THEN hdr.max_age ELSE ExpiresLifetime(hdr)

(* A response taken from the cache was made for a request with the same    *)
(* values of the headers the server varied on: the comment in              *)
(* _get_caching_info and matches_request.                                  *)
VaryHonoured ==
  delivered # None /\ delivered.entry # None =>
    \A h \in DOMAIN delivered.body.key :
       delivered.body.key[h] = delivered.request.headers[h]

(* A response is served without asking the server only while the time      *)
(* since it was fetched is within the lifetime its headers gave it:        *)
(* up_to_date, and every path of make_request that stores max_age.         *)
LifetimeHonoured ==
  delivered # None /\ ~delivered.contacted =>
    delivered.at - delivered.entry.local_date
      < Lifetime(delivered.entry.headers)

(* What is served without asking the server is content the server still    *)
(* held no longer ago than that lifetime, plus the time the stored answer  *)
(* took to reach the cache.  Other processes may have refreshed, replaced  *)
(* or deleted the row in between.                                          *)
BoundedStaleness ==
  delivered # None /\ ~delivered.contacted =>
    LET e == delivered.entry
    IN  delivered.at - lastCurrent[e.url][e.body.content]
          < Lifetime(e.headers) + (e.local_date - e.answered)

(* What is returned after asking the server, a stored body revalidated by  *)
(* a 304 included, is content the server held after the request was made,  *)
(* whatever other processes wrote to the database meanwhile.               *)
CurrentWhenContacted ==
  delivered # None /\ delivered.contacted =>
    lastCurrent[delivered.request.url][delivered.body.content]
      >= delivered.started
=============================================================================
