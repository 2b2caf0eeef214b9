------------------------------- MODULE Handler ------------------------------
(***************************************************************************)
(* The redirect handler (handler/main.go) on its way from a request to the *)
(* answer, and the validation (api/redirects.go, uc/validators.go,         *)
(* domain/redirect) that a redirect has passed before it is served.        *)
(*                                                                         *)
(* Requests share the rate limiter, the cache and the queue of hits, which *)
(* are RateLimiter, Lookup and Statistics.  Here one request is followed   *)
(* at a time, against a store with one redirect.  Strings are data only as *)
(* far as the code tells them apart: a path is a sequence of characters,   *)
(* some of which stand for a class of them (Char); lengths are small.      *)
(***************************************************************************)
EXTENDS Naturals, SequencesExt

CONSTANTS
  Host,          \* domain names up to case and surrounding blanks
  Formed,        \* those that handler.domainRegex matches
  Dotted,        \* those that uc.domainRegex matches as well: not localhost
  Command,       \* redirects that API requests ask for
  Incoming,      \* requests to the handler
  QueryLimit,    \* sanitizeQueryParameters' 1000
  MaxURLLength,  \* Config.MaxURLLength, 2048
  HostLength,    \* length of https:// and a host
  Malformed,     \* a query that ParseQuery refuses
  Unset          \* nothing: an absent document, header or type

ASSUME HostAssumption == Dotted \subseteq Formed /\ Formed \subseteq Host
ASSUME LengthAssumption ==
  QueryLimit \in Nat /\ MaxURLLength \in Nat /\ HostLength \in Nat

HostName == [name : Host, upper : BOOLEAN, padded : BOOLEAN]
ToLower(d) == [d EXCEPT !.upper = FALSE]
TrimSpace(d) == [d EXCEPT !.padded = FALSE]
EqualFold(d, e) == ToLower(d) = ToLower(e)

\* domainRegex of the handler and that of the API.
MatchesHandler(d) == d.name \in Formed /\ ~d.padded
MatchesApi(d) == d.name \in Dotted /\ ~d.padded

\* Any two of the utm_ parameters; values as the checks tell them apart: "bad"
\* is one that validateQueryParameterValue refuses, "control" has a control
\* character, "long" fills most of a query once it is escaped.  Tags are those
\* that are not empty: none set is as good as nil (HasUTMTags).
TagName == {"utm_source", "utm_medium"}
Value == {"plain", "bad", "control", "long"}
Tags == UNION {[S -> Value] : S \in SUBSET TagName}

\* "token" is any name that validateQueryParameterName refuses.
Param == [name : TagName \cup {"ref", "token"}, value : Value]

\* "?" also stands for "#", "%" for the beginning of what a client takes for
\* an escape, " " for what pathRegex refuses, "admin" for any of the names
\* that validatePath refuses behind a slash, "a" for any other character.
Char == {"/", ".", "?", "%", " ", "admin", "a"}

Redirect ==
  [source : HostName, target : HostName, status : {"active", "inactive", "deleted"},
   type : {"301", "302"}, tags : Tags]

\* The URL of a request is decoded: path and query parameters, Malformed
\* where ParseQuery gives an error.  GET is also HEAD, POST any method with a
\* body, TRACE any that is not allowed.
HTTPRequest ==
  [method : {"GET", "POST", "OPTIONS", "TRACE"},
   host : [domain : HostName, port : BOOLEAN] \cup {Unset},
   path : Seq(Char), params : SUBSET Param \cup {Malformed}]

ASSUME InputAssumption == Command \subseteq Redirect /\ Incoming \subseteq HTTPRequest
ASSUME UnsetAssumption == Unset \notin HTTPRequest

VARIABLES
  doc,      \* the redirect in the store
  step,     \* of the request: "idle", "received", "found" or "answered"
  request,
  up,       \* whether MongoDB answers while the request is served
  result,   \* of redirect.Lookup
  answer,   \* status and Location of the response
  queued    \* whether a hit has been handed to the statistics

handlerVars == <<doc, step, request, up, result, answer, queued>>

HandlerInit ==
  /\ doc = Unset
  /\ step = "idle"
  /\ request = Unset
  /\ up = TRUE
  /\ result = Unset
  /\ answer = Unset
  /\ queued = FALSE

-----------------------------------------------------------------------------
(* Validate of the API's requests, and Create.                             *)

RequireDomain(d) == MatchesApi(ToLower(TrimSpace(d)))

ValidTags(tags) == \A n \in DOMAIN tags : tags[n] # "control"

\* Mutant of Accepted: domains are stored as they were typed.
AsTyped(cmd) == cmd

Accepted(cmd) == [cmd EXCEPT !.source = ToLower(@), !.target = ToLower(@)]

\* Updates lead to the same redirects (those of the whole store: Redirects).
CreateRedirect ==
  /\ step = "idle"
  /\ doc = Unset
  /\ \E cmd \in Command :
       /\ RequireDomain(cmd.source) /\ RequireDomain(cmd.target)
       /\ ~EqualFold(cmd.source, cmd.target)
       /\ ValidTags(cmd.tags)
       /\ doc' = Accepted(cmd)
  /\ UNCHANGED <<step, request, up, result, answer, queued>>

-----------------------------------------------------------------------------
(* Paths and query parameters.                                             *)

Has(path, c) == \E i \in DOMAIN path : path[i] = c

\* The items of s at the places K, in their order.
ItemsAt(s, K) ==
  [n \in 1..Cardinality(K) |-> s[CHOOSE i \in K : Cardinality({j \in K : j <= i}) = n]]

\* How many slashes in a row end at place i.
SlashesAt(path, i) == Cardinality({j \in 1..i : \A k \in j..i : path[k] = "/"})

\* strings.ReplaceAll(path, "//", "/"): of each pair of slashes, found from
\* left to right, one stays; a run of slashes is halved, rounding up.
ReplaceSlashes(path) ==
  ItemsAt(path, {i \in DOMAIN path : path[i] = "/" => SlashesAt(path, i) % 2 = 1})

\* Mutant of Rooted: a path without a slash is put behind the host as it is.
Unrooted(path) == path

Rooted(path) ==
  IF path # <<>> /\ Head(path) # "/" THEN <<"/">> \o path ELSE path

TrimSlash(path) ==
  IF path # <<"/">> /\ path # <<>> /\ Last(path) = "/" THEN Front(path) ELSE path

NormalizePath(path) ==
  IF path \in {<<>>, <<"/">>} THEN <<>> ELSE TrimSlash(Rooted(ReplaceSlashes(path)))

\* validatePath; control characters and length have been checked before.
InvalidPath(path) ==
  \E i \in 1..Len(path) - 1 :
    <<path[i], path[i + 1]>> \in {<<".", ".">>, <<"/", "admin">>}

\* Mutant of WithTags: tags are added to what the request brings.
TagsAdded(params, tags) ==
  params \cup {[name |-> n, value |-> tags[n]] : n \in DOMAIN tags}

\* Set replaces all values of a name.
WithTags(params, tags) ==
  {p \in params : p.name \notin DOMAIN tags}
    \cup {[name |-> n, value |-> tags[n]] : n \in DOMAIN tags}

InvalidParam(p) == p.name = "token" \/ p.value = "bad"

\* Lengths: escaping makes three characters of one; a query that arrives is
\* taken to be escaped as Encode does it.
QueryLength(params) ==
  IF params = Malformed THEN 1
  ELSE Cardinality(params) + Cardinality({p \in params : p.value = "long"})

EscapedLength(path) ==
  Len(path) + 2 * Len(SelectSeq(path, LAMBDA c : c \in {"?", "%", " "}))

URLLength(path, params) == HostLength + Len(path) + QueryLength(params)

\* buildAndValidateRedirectURL and its errors, those of url.Parse apart.
Location(r, redirect) ==
  [target |-> ToLower(redirect.target), path |-> NormalizePath(r.path),
   params |-> WithTags(r.params, redirect.tags)]

TooLong(loc) ==
  QueryLength(loc.params) > QueryLimit \/ URLLength(loc.path, loc.params) > MaxURLLength

BuildFails(r, redirect) ==
  IF r.params = Malformed THEN TRUE
  ELSE LET loc == Location(r, redirect)
       IN \/ ~MatchesHandler(redirect.target)
          \/ InvalidPath(loc.path)
          \/ \E p \in loc.params : InvalidParam(p)
          \/ TooLong(loc)

-----------------------------------------------------------------------------
Receive ==
  /\ step = "idle"
  /\ step' = "received"
  /\ request' \in Incoming
  /\ up' \in BOOLEAN
  /\ UNCHANGED <<doc, result, answer, queued>>

\* Mutant of Reply: a hit is recorded whatever the answer.
ReplyRecorded(status) ==
  /\ step' = "answered"
  /\ answer' = [status |-> status, location |-> Unset]
  /\ queued' = TRUE
  /\ UNCHANGED <<doc, request, up, result>>

\* An answer that redirects nowhere.
Reply(status) ==
  /\ step' = "answered"
  /\ answer' = [status |-> status, location |-> Unset]
  /\ UNCHANGED <<doc, request, up, result, queued>>

\* Allow, see RateLimiter.
TooManyRequests == step = "received" /\ Reply(429)

Preflight == step = "received" /\ request.method = "OPTIONS" /\ Reply(200)

\* The status of a request that is refused before the lookup, 0 if it is not.
\* The host is checked without its port.
Refusal(r) ==
  IF r.method = "TRACE" THEN 405
  ELSE IF r.host = Unset THEN 400
  ELSE IF ~MatchesHandler(r.host.domain) THEN 400
  ELSE IF EscapedLength(r.path) + QueryLength(r.params) > MaxURLLength THEN 414
  ELSE IF Has(r.path, " ") THEN 400
  ELSE 0

RefuseRequest ==
  /\ step = "received"
  /\ request.method # "OPTIONS"
  /\ Refusal(request) # 0
  /\ Reply(Refusal(request))

LooksUp ==
  /\ step = "received"
  /\ request.method # "OPTIONS"
  /\ Refusal(request) = 0

\* The key that LookupRedirect makes of what extractAndValidateHost returns.
LookupKey(r) == ToLower(TrimSpace(ToLower(r.host.domain)))

Matching(key) == doc # Unset /\ doc.source = key /\ doc.status = "active"

LookupFails == LooksUp /\ ~up /\ Reply(500)

\* No document: an error, as findOne does not return mongo.ErrNoDocuments.
LookupMisses == LooksUp /\ up /\ ~Matching(LookupKey(request)) /\ Reply(500)

\* From the cache or not; an entry of WarmCache has no type.  Entries that lag
\* behind the store are Lookup's concern.
LookupFinds ==
  /\ LooksUp
  /\ Matching(LookupKey(request))
  /\ \E type \in {doc.type, Unset} :
       result' = [target |-> doc.target, type |-> type, tags |-> doc.tags]
  /\ step' = "found"
  /\ UNCHANGED <<doc, request, up, answer, queued>>

InvalidRedirectURL ==
  /\ step = "found"
  /\ BuildFails(request, result) \/ Has(request.path, "%")  \* url.Parse may fail
  /\ Reply(400)

\* Mutant of Fallback: the default type whatever the method.
FallbackForAll(method) == 301

\* determineRedirectType, with the configured default, permanent.
Fallback(method) == IF method = "POST" THEN 307 ELSE 301

RedirectStatus(type, method) ==
  IF type = "301" THEN IF method = "POST" THEN 308 ELSE 301
  ELSE IF type = "302" THEN IF method = "POST" THEN 307 ELSE 302
  ELSE Fallback(method)

\* The hit is queued, then the response written: its Cache-Control is set
\* when the headers have been sent and has no effect.
PerformRedirect ==
  /\ step = "found"
  /\ ~BuildFails(request, result)
  /\ queued' = TRUE
  /\ answer' = [status |-> RedirectStatus(result.type, request.method),
                location |-> Location(request, result)]
  /\ step' = "answered"
  /\ UNCHANGED <<doc, request, up, result>>

\* The request is over; the next one starts from nothing.
Finish ==
  /\ step = "answered"
  /\ step' = "idle"
  /\ request' = Unset
  /\ up' = TRUE
  /\ result' = Unset
  /\ answer' = Unset
  /\ queued' = FALSE
  /\ UNCHANGED doc

HandlerNext ==
  \/ CreateRedirect \/ Receive
  \/ TooManyRequests \/ Preflight \/ RefuseRequest
  \/ LookupFails \/ LookupMisses \/ LookupFinds
  \/ InvalidRedirectURL \/ PerformRedirect \/ Finish

HandlerSpec == HandlerInit /\ [][HandlerNext]_handlerVars

-----------------------------------------------------------------------------
Redirected == step = "answered" /\ answer.status \in {301, 302, 307, 308}

(* Every variable keeps its type, a redirect that was found is what         *)
(* buildAndValidateRedirectURL may use, and a hit is queued for exactly the *)
(* requests that are redirected: statistics count nothing else.             *)
HandlerTypeOK ==
  /\ doc \in Redirect \cup {Unset}
  /\ step \in {"idle", "received", "found", "answered"}
  /\ request \in HTTPRequest \cup {Unset} /\ (step = "idle" <=> request = Unset)
  /\ up \in BOOLEAN
  /\ step = "found" \/ Redirected =>
       /\ doc # Unset
       /\ result.target = doc.target /\ result.tags = doc.tags
       /\ result.type \in {doc.type, Unset}
  /\ step \in {"idle", "received"} => result = Unset
  /\ step # "answered" => answer = Unset
  /\ queued \in BOOLEAN /\ (queued <=> Redirected)

\* A request and a redirect that give no reason to refuse the other.
PlainRequest(r) == [r EXCEPT !.path = <<"/">>, !.params = {}]
PlainRedirect(d) == [d EXCEPT !.target = TrimSpace(@), !.tags = <<>>]

(* A redirect that the API has accepted is served: a request for its source *)
(* is redirected, or would be refused whatever the redirect, or the         *)
(* redirect refuses every request, which is so when its target has blanks   *)
(* around it or its tags are refused as query parameters, or the two are    *)
(* too long only together.  A source with blanks around it, which the API   *)
(* accepts too, is never found.  The API and the handler check with code of *)
(* their own; nothing else may come between them.                           *)
AcceptedIsServed ==
  (/\ step = "answered" /\ up
   /\ doc # Unset /\ doc.status = "active"
   /\ request.method \in {"GET", "POST"} /\ answer.status # 429
   /\ request.host # Unset
   /\ EqualFold(request.host.domain, TrimSpace(doc.source)))
  => \/ Redirected
     \/ doc.source.padded
     \/ Refusal(request) # 0 \/ Has(request.path, "%")
     \/ BuildFails(request, PlainRedirect(doc))
     \/ BuildFails(PlainRequest(request), doc)
     \/ TooLong(Location(request, doc))

\* What a client finds between the slashes of a path.
Segments(path) ==
  LET p == <<"/">> \o path
  IN ItemsAt(p, {i \in DOMAIN p : p[i] = "/" => i < Len(p) /\ p[i + 1] # "/"})

ValuesOf(params, n) == {p.value : p \in {q \in params : q.name = n}}

(* README: a request is redirected "with its path, query string, and        *)
(* optional UTM tags carried over".  Where the decoded path has no          *)
(* character that a client reads otherwise once it is not escaped, the      *)
(* client comes to the target, with the segments of the path that it asked  *)
(* for, the tags, and its own parameters of other names.                    *)
LocationKeepsRequest ==
  Redirected /\ ~Has(request.path, "?") /\ ~Has(request.path, "%") =>
    LET loc == answer.location IN
    /\ loc.target = ToLower(doc.target)
    /\ loc.path # <<>> => Head(loc.path) = "/"
    /\ Segments(loc.path) = Segments(request.path)
    /\ \A n \in TagName \cup {"ref", "token"} :
         ValuesOf(loc.params, n) = IF n \in DOMAIN doc.tags
                                     THEN {doc.tags[n]}
                                     ELSE ValuesOf(request.params, n)

(* README: the redirect type is "upgraded to 307/308 for methods with a     *)
(* body", so that no client repeats them as GET; also when the cache has    *)
(* lost the type.  With the type, permanence is as it was configured.       *)
MethodKept ==
  Redirected =>
    /\ answer.status \in {307, 308} <=> request.method = "POST"
    /\ result.type # Unset => (answer.status \in {301, 308} <=> doc.type = "301")
=============================================================================
