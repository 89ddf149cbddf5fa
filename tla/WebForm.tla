------------------------------- MODULE WebForm -------------------------------
(***************************************************************************)
(* The per-invocation attempt state machine of medusa's web-form module    *)
(* (src/src/modsrc/web-form.c): initModule's loop over MSTATE_INITIALIZE,  *)
(* NEW, RUNNING and EXITING, the round trip tryLogin performs in RUNNING,  *)
(* the redirect handler (_resolveLocationPath, _setCookiesFromResponse and *)
(* the POST->GET demotion), and the part of the host framework the loop    *)
(* talks to: the credential iterator getNextCredSet, setPassResult, the    *)
(* login record's iResult and the socket table of medusaConnect.           *)
(*                                                                         *)
(* Data is abstracted: paths, URIs, cookies and the Host header are model  *)
(* values; the server's answer to each request is a nondeterministic      *)
(* choice among the outcomes tryLogin tells apart.                         *)
(***************************************************************************)
EXTENDS Integers, Sequences, FiniteSets

CONSTANTS
    NPairs,        \* number of (user, password) pairs the host iterator yields
    Paths,         \* resource paths (values that begin with '/')
    Root,          \* the default resource path "/"
    RelTargets,    \* Location values that _pathType classifies as RELATIVE
    URIs,          \* Location values that _pathType classifies as URI
    Cookies,       \* Set-Cookie values a server may send
    HostDefault,   \* the default Host header "<host>:<port>"
    NULL,          \* an absent (NULL) string
    Fds,           \* descriptors medusaConnect may return on success
    MaxRedirects,  \* environment bound: redirects the server sends in one run
    ResolvePath(_, _) \* resolvePath(base, relative) of web-form-resolve-path

ASSUME NPairsAssumption == NPairs \in Nat
ASSUME RootAssumption == Root \in Paths
ASSUME NullAssumption == NULL \notin Paths \cup URIs \cup {HostDefault}
ASSUME HostAssumption == HostDefault \notin Paths \cup URIs
ASSUME FdsAssumption == Fds \subseteq Nat /\ Fds # {}
ASSUME MaxRedirectsAssumption == MaxRedirects \in Nat
ASSUME ResolvePathAssumption ==
    \A b \in Paths \cup URIs \cup {NULL}, t \in RelTargets : ResolvePath(b, t) \in Paths

-----------------------------------------------------------------------------
Pairs == 1..NPairs

\* The values a resource path (resourcePath, resourcePathOld) can hold.
PathValues == Paths \cup URIs

\* A Location header value after _resolveLocationPath cut off its query,
\* tagged with the PathTypeT that _pathType gives it.
Locations ==
    {[type |-> "ABSOLUTE", val |-> p] : p \in Paths}
    \cup {[type |-> "RELATIVE", val |-> t] : t \in RelTargets}
    \cup {[type |-> "URI", val |-> u] : u \in URIs}

\* The Set-Cookie headers of one response, in order (at most two).
SetCookieLists == {<<>>} \cup {<<c>> : c \in Cookies} \cup {<<c, d>> : c, d \in Cookies}

RedirectCodes == {301, 302, 307, 308}
\* The 4xx codes parseHttpStatusCode knows, and 999 for any code it maps
\* to HTTP_STATUS_NOT_IMPL.
RefusedCodes == {400, 401, 403, 404, 999}

\* The value of the FORM-DATA option after go(): absent, or a method and
\* whether both the user and the password key were present after the '?'.
\* An absent option is method "absent".
OptFormData ==
    {[method |-> "absent", keys |-> FALSE]} \cup [method : {"post", "get", "other"}, keys : BOOLEAN]

MStates == {"INITIALIZE", "NEW", "RUNNING", "EXITING", "COMPLETE"}
Verdicts == {"SUCCESS", "FAIL", "UNKNOWN"}

\* setPassResult calls for one pair are counted up to RecordCap.
RecordCap == 2

VARIABLES
    mstate,           \* nState of initModule
    returned,         \* "NO" while initModule runs, then its return value
    hSocket,          \* hSocket of initModule (-1 when none)
    openFds,          \* descriptors the host holds open for this invocation
    optFormData,      \* FORM-DATA as go() stored it (fixed per invocation)
    optResourcePath,  \* FORM as go() stored it in resourcePath (fixed)
    formType,         \* _moduleData->formType
    changedRequestType, \* _moduleData->changedRequestType
    resourcePath,     \* _moduleData->resourcePath
    resourcePathOld,  \* _moduleData->resourcePathOld
    hostHeader,       \* _moduleData->hostHeader
    cookieJar,        \* _moduleData->cookieJar, one element per Cookie line
    cur,              \* index of the pair psCredSet holds
    iResult,          \* _psLogin->iResult
    nRecords,         \* setPassResult calls per pair (saturating at RecordCap)
    verdictOf,        \* the last result setPassResult recorded per pair
    redirects,        \* redirects the server has sent (environment)
    credsSent,        \* pairs whose credentials went out in a request (history)
    bodyDenied,       \* per pair: the last 200 body served held the deny signal (history)
    pathBeforeChain,  \* resourcePath before the last POST->GET demotion (history)
    jarPairs          \* the pairs whose responses put the cookies now in cookieJar (history)

cfgVars == <<formType, changedRequestType, resourcePath, resourcePathOld,
             hostHeader, cookieJar>>
hostVars == <<cur, iResult, nRecords, verdictOf>>
histVars == <<redirects, credsSent, bodyDenied, pathBeforeChain, jarPairs>>
vars == <<mstate, returned, hSocket, openFds, optFormData, optResourcePath,
          cfgVars, hostVars, histVars>>

-----------------------------------------------------------------------------
(***************************************************************************)
(* Operators of the configuration.                                         *)
(***************************************************************************)

\* The formType MSTATE_INITIALIZE settles on: the FORM-DATA method when the
\* option is present, the method is post or get and both keys are present,
\* FORM_POST otherwise (the default and the "Invalid FORM-DATA" fallback).
InitFormType(o) ==
    IF o.keys /\ o.method = "get" THEN "GET" ELSE "POST"

(***************************************************************************)
(* Mutants: the plausible bugs the properties are checked to catch.        *)
(***************************************************************************)
DemoteAnyMethod(code) ==
    IF code \in {301, 302}
    THEN /\ changedRequestType' = TRUE
         /\ formType' = "GET"
         /\ pathBeforeChain' = resourcePath
    ELSE UNCHANGED <<changedRequestType, formType, pathBeforeChain>>

ResolveLocationFallThrough(loc) ==
    /\ resourcePath' = loc.val
    /\ resourcePathOld' = resourcePathOld
    /\ hostHeader' = IF loc.type \in {"RELATIVE", "URI"} THEN loc.val ELSE hostHeader

AfterTryLoginNoAdvance(ns) ==
    /\ mstate' = ns
    /\ UNCHANGED cur

ExitingKeepsSocket ==
    /\ mstate = "EXITING"
    /\ returned = "NO"
    /\ hSocket' = -1
    /\ mstate' = "COMPLETE"
    /\ returned' = "SUCCESS"
    /\ UNCHANGED <<openFds, optFormData, optResourcePath, cfgVars, hostVars, histVars>>

ExitingReconnects ==
    /\ mstate = "EXITING"
    /\ returned = "NO"
    /\ openFds' = IF hSocket > 0 THEN openFds \ {hSocket} ELSE openFds
    /\ hSocket' = -1
    /\ mstate' = "NEW"
    /\ UNCHANGED <<returned, optFormData, optResourcePath, cfgVars, hostVars, histVars>>

-----------------------------------------------------------------------------
(***************************************************************************)
(* The host's setPassResult, through _setPasswordHelper: set iResult and    *)
(* record the current password with it.                                    *)
(***************************************************************************)
SetPassResult(v) ==
    /\ iResult' = v
    /\ nRecords' = [nRecords EXCEPT ![cur] = IF @ < RecordCap THEN @ + 1 ELSE @]
    /\ verdictOf' = [verdictOf EXCEPT ![cur] = v]

\* _sendRequest succeeded: the request carried the pair's credentials unless
\* changedRequestType emptied the parameter string (prepareRequestString).
RequestSent ==
    credsSent' = IF changedRequestType THEN credsSent ELSE credsSent \cup {cur}

(***************************************************************************)
(* initModule before the loop: the first getNextCredSet either fails or   *)
(* yields no user (nState = MSTATE_COMPLETE) or yields the first pair.     *)
(* go() has stored the FORM and FORM-DATA options beforehand.              *)
(***************************************************************************)
Init ==
    /\ optFormData \in OptFormData
    /\ optResourcePath \in {NULL} \cup Paths
    /\ mstate \in IF NPairs = 0 THEN {"COMPLETE"} ELSE {"INITIALIZE", "COMPLETE"}
    /\ returned = IF mstate = "COMPLETE" THEN "SUCCESS" ELSE "NO"
    /\ hSocket = -1
    /\ openFds = {}
    /\ formType = "UNKNOWN"
    /\ changedRequestType = FALSE
    /\ resourcePath = optResourcePath
    /\ resourcePathOld = NULL
    /\ hostHeader = NULL
    /\ cookieJar = <<>>
    /\ cur = 1
    /\ iResult = "UNKNOWN"
    /\ nRecords = [p \in Pairs |-> 0]
    /\ verdictOf = [p \in Pairs |-> "NONE"]
    /\ redirects = 0
    /\ credsSent = {}
    /\ bodyDenied = [p \in Pairs |-> FALSE]
    /\ pathBeforeChain = NULL
    /\ jarPairs = {}

(***************************************************************************)
(* MSTATE_INITIALIZE: fill in the defaults of the options not given.       *)
(***************************************************************************)
Initialize ==
    /\ mstate = "INITIALIZE"
    /\ resourcePath' = IF resourcePath = NULL THEN Root ELSE resourcePath
    /\ hostHeader' = IF hostHeader = NULL THEN HostDefault ELSE hostHeader
    /\ formType' = InitFormType(optFormData)
    /\ mstate' = "NEW"
    /\ UNCHANGED <<returned, hSocket, openFds, optFormData, optResourcePath,
                   changedRequestType, resourcePathOld, cookieJar, hostVars, histVars>>

\* Mutant of New: the connect failure does not return.
NewFailRetries ==
    /\ mstate = "NEW"
    /\ returned = "NO"
    /\ LET kept == IF hSocket > 0 THEN openFds \ {hSocket} ELSE openFds
       IN \/ \E fd \in Fds \ kept :
                /\ hSocket' = fd
                /\ openFds' = kept \cup {fd}
                /\ mstate' = "RUNNING"
                /\ UNCHANGED <<returned, hostVars>>
          \/ /\ hSocket' = -1
             /\ openFds' = kept
             /\ SetPassResult("UNKNOWN")
             /\ UNCHANGED <<returned, mstate, cur>>
    /\ UNCHANGED <<optFormData, optResourcePath, cfgVars, histVars>>

(***************************************************************************)
(* MSTATE_NEW: disconnect a descriptor > 0, then connect. On failure the   *)
(* current password is recorded UNKNOWN and initModule returns FAILURE.    *)
(***************************************************************************)
New ==
    /\ mstate = "NEW"
    /\ returned = "NO"
    /\ LET kept == IF hSocket > 0 THEN openFds \ {hSocket} ELSE openFds
       IN \/ \E fd \in Fds \ kept :
                /\ hSocket' = fd
                /\ openFds' = kept \cup {fd}
                /\ mstate' = "RUNNING"
                /\ UNCHANGED <<returned, hostVars>>
          \/ /\ hSocket' = -1
             /\ openFds' = kept
             /\ SetPassResult("UNKNOWN")
             /\ returned' = "FAILURE"
             /\ UNCHANGED <<mstate, cur>>
    /\ UNCHANGED <<optFormData, optResourcePath, cfgVars, histVars>>

-----------------------------------------------------------------------------
(***************************************************************************)
(* tryLogin(hSocket, ...) for the current pair. Each disjunct is one path  *)
(* through _request and tryLogin and says which ModuleStateT, ns, it       *)
(* returns. The server's answer is chosen nondeterministically.            *)
(***************************************************************************)

\* medusaSend fails: UNKNOWN, MSTATE_EXITING.
SendFailed(ns) ==
    /\ ns = "EXITING"
    /\ SetPassResult("UNKNOWN")
    /\ UNCHANGED <<cfgVars, histVars>>

\* The request went out but medusaReceiveLine returned NULL.
NoData(ns) ==
    /\ ns = "EXITING"
    /\ RequestSent
    /\ SetPassResult("UNKNOWN")
    /\ UNCHANGED <<cfgVars, redirects, bodyDenied, pathBeforeChain, jarPairs>>

\* parseHttpStatusCode gives HTTP_STATUS_PARSE_ERR: MSTATE_EXITING, and
\* nothing is recorded.
ParseError(ns) ==
    /\ ns = "EXITING"
    /\ RequestSent
    /\ UNCHANGED <<cfgVars, iResult, nRecords, verdictOf,
                   redirects, bodyDenied, pathBeforeChain, jarPairs>>

\* After a 200: read lines until one holds the deny signal or a read returns
\* NULL, then record FAIL if the signal was found and SUCCESS otherwise.
\* deny: the body holds the deny signal; late: a read times out before the
\* line with it arrives.
ScanForDenySignal ==
    \E deny, late \in BOOLEAN :
        /\ SetPassResult(IF deny /\ ~late THEN "FAIL" ELSE "SUCCESS")
        /\ bodyDenied' = [bodyDenied EXCEPT ![cur] = deny]

\* HTTP 200: end a demoted chain (restore POST, resourcePathOld, empty the
\* jar), then scan the body for the deny signal.
Ok(ns) ==
    /\ ns = "NEW"
    /\ RequestSent
    /\ IF changedRequestType
       THEN /\ changedRequestType' = FALSE
            /\ formType' = "POST"
            /\ resourcePath' = resourcePathOld
            /\ resourcePathOld' = NULL
            /\ cookieJar' = <<>>
            /\ jarPairs' = {}
       ELSE UNCHANGED <<changedRequestType, formType, resourcePath,
                        resourcePathOld, cookieJar, jarPairs>>
    /\ ScanForDenySignal
    /\ UNCHANGED <<hostHeader, redirects, pathBeforeChain>>

\* _resolveLocationPath for a Location value that is not NULL.
ResolveLocation(loc) ==
    /\ resourcePath' = IF loc.type = "RELATIVE"
                       THEN ResolvePath(resourcePath, loc.val)
                       ELSE loc.val
    /\ resourcePathOld' = IF loc.type = "RELATIVE" THEN resourcePath ELSE resourcePathOld
    /\ hostHeader' = IF loc.type = "URI" THEN loc.val ELSE hostHeader

\* _setCookiesFromResponse: append one Cookie line per Set-Cookie header.
SetCookiesFromResponse(sc) ==
    /\ cookieJar' = cookieJar \o sc
    /\ jarPairs' = IF sc = <<>> THEN jarPairs ELSE jarPairs \cup {cur}

\* 301 and 302 turn a POST into a GET and set changedRequestType.
Demote(code) ==
    IF formType = "POST" /\ code \in {301, 302}
    THEN /\ changedRequestType' = TRUE
         /\ formType' = "GET"
         /\ pathBeforeChain' = resourcePath
    ELSE UNCHANGED <<changedRequestType, formType, pathBeforeChain>>

\* 301, 302, 307, 308. Without a Location header: UNKNOWN, MSTATE_EXITING.
\* Otherwise resolve it, take the cookies, demote, and return MSTATE_NEW
\* without a verdict so that the same pair is tried again.
Redirect(ns) ==
    /\ redirects < MaxRedirects
    /\ redirects' = redirects + 1
    /\ RequestSent
    /\ \E code \in RedirectCodes :
          \/ /\ ns = "EXITING"
             /\ SetPassResult("UNKNOWN")
             /\ UNCHANGED <<cfgVars, pathBeforeChain, jarPairs>>
          \/ /\ ns = "NEW"
             /\ \E loc \in Locations, sc \in SetCookieLists :
                   /\ ResolveLocation(loc)
                   /\ SetCookiesFromResponse(sc)
                   /\ Demote(code)
             /\ UNCHANGED <<iResult, nRecords, verdictOf>>
    /\ UNCHANGED bodyDenied

\* 400, 401, 403, 404 and any status parseHttpStatusCode does not know:
\* UNKNOWN, MSTATE_EXITING.
Refused(ns) ==
    /\ ns = "EXITING"
    /\ RequestSent
    /\ \E code \in RefusedCodes : SetPassResult("UNKNOWN")
    /\ UNCHANGED <<cfgVars, redirects, bodyDenied, pathBeforeChain, jarPairs>>

TryLogin(ns) ==
    \/ SendFailed(ns)
    \/ NoData(ns)
    \/ ParseError(ns)
    \/ Ok(ns)
    \/ Redirect(ns)
    \/ Refused(ns)

(***************************************************************************)
(* MSTATE_RUNNING after tryLogin returned ns: unless iResult is UNKNOWN,   *)
(* ask the host for the next pair; DONE or an error exits, NEW_USER        *)
(* reconnects, CONTINUE keeps ns.                                          *)
(***************************************************************************)
AfterTryLogin(ns) ==
    IF iResult' # "UNKNOWN"
    THEN \/ /\ mstate' = "EXITING"             \* getNextCredSet fails
            /\ UNCHANGED cur
         \/ /\ cur = NPairs                    \* CREDENTIAL_DONE
            /\ mstate' = "EXITING"
            /\ UNCHANGED cur
         \/ /\ cur < NPairs
            /\ cur' = cur + 1
            /\ \E newUser \in BOOLEAN :        \* CREDENTIAL_NEW_USER or not
                  mstate' = IF newUser THEN "NEW" ELSE ns
    ELSE /\ mstate' = ns
         /\ UNCHANGED cur

Running ==
    /\ mstate = "RUNNING"
    /\ \E ns \in {"NEW", "EXITING"} :
          /\ TryLogin(ns)
          /\ AfterTryLogin(ns)
    /\ UNCHANGED <<returned, hSocket, openFds, optFormData, optResourcePath>>

(***************************************************************************)
(* MSTATE_EXITING: disconnect a descriptor > 0; the loop ends and          *)
(* initModule returns SUCCESS.                                             *)
(***************************************************************************)
Exiting ==
    /\ mstate = "EXITING"
    /\ returned = "NO"
    /\ openFds' = IF hSocket > 0 THEN openFds \ {hSocket} ELSE openFds
    /\ hSocket' = -1
    /\ mstate' = "COMPLETE"
    /\ returned' = "SUCCESS"
    /\ UNCHANGED <<optFormData, optResourcePath, cfgVars, hostVars, histVars>>

Next == Initialize \/ New \/ Running \/ Exiting

\* One thread of control; every host call returns (medusa's sockets time
\* out), so the loop is never stuck while a step is enabled.
Spec == Init /\ [][Next]_vars /\ WF_vars(Next)

-----------------------------------------------------------------------------
(***************************************************************************)
(* Properties.                                                             *)
(***************************************************************************)

\* Every variable holds a value of its type.
TypeOK ==
    /\ mstate \in MStates
    /\ returned \in {"NO", "SUCCESS", "FAILURE"}
    /\ hSocket \in Fds \cup {-1}
    /\ openFds \subseteq Fds
    /\ optFormData \in OptFormData
    /\ optResourcePath \in Paths \cup {NULL}
    /\ formType \in {"GET", "POST", "UNKNOWN"}
    /\ changedRequestType \in BOOLEAN
    /\ resourcePath \in PathValues \cup {NULL}
    /\ resourcePathOld \in PathValues \cup {NULL}
    /\ hostHeader \in URIs \cup {HostDefault, NULL}
    /\ cookieJar \in Seq(Cookies)
    /\ cur \in 1..NPairs \/ (NPairs = 0 /\ cur = 1)
    /\ iResult \in Verdicts
    /\ nRecords \in [Pairs -> 0..RecordCap]
    /\ verdictOf \in [Pairs -> Verdicts \cup {"NONE"}]
    /\ redirects \in 0..MaxRedirects
    /\ credsSent \subseteq Pairs
    /\ bodyDenied \in [Pairs -> BOOLEAN]
    /\ pathBeforeChain \in PathValues \cup {NULL}
    /\ jarPairs \subseteq Pairs

\* The method of every request is the one the FORM-DATA option asked for,
\* except while a 301/302 chain has demoted a POST form to GET: a GET form
\* is never sent as POST, a POST form is GET only while changedRequestType
\* is set, and formType is never FORM_UNKNOWN once a request can be built
\* (prepareRequestParamString aborts on it).
FormTypeConsistent ==
    /\ mstate \in {"NEW", "RUNNING", "EXITING"} => formType # "UNKNOWN"
    /\ formType # "UNKNOWN" =>
          formType = IF changedRequestType THEN "GET" ELSE InitFormType(optFormData)
    /\ changedRequestType => InitFormType(optFormData) = "POST"

\* setPassResult records each password at most once: a pair is never
\* tested, or failed, twice.
AtMostOneVerdict ==
    \A p \in Pairs : nRecords[p] <= 1

\* When initModule returns, by either return, no connection it opened is
\* left open.
NoLeakAtReturn ==
    returned # "NO" => openFds = {}

\* initModule returns: the redirect, retry and iterator loop ends.
Termination ==
    <>(returned # "NO")

\* A SUCCESS or FAIL verdict for a pair is only recorded after a request
\* carrying that pair's credentials was sent (a redirect retries the same
\* pair; the verdict of one pair is never written to another).
VerdictFollowsCredentials ==
    \A p \in Pairs : verdictOf[p] \in {"SUCCESS", "FAIL"} => p \in credsSent

\* When initModule returns, every password whose credentials were sent
\* has a record (spec 7: "the host is never left without a record").
EveryTestedPairRecorded ==
    returned # "NO" => \A p \in credsSent : nRecords[p] >= 1

\* The cookie jar a request carries holds only cookies set by responses to
\* that pair's own requests (spec 4.H: each pair is tested afresh "to ensure
\* cookie state does not leak between independent guesses"; the glossary:
\* the jar is for "the current attempt's redirect chain"). The code clears
\* the jar only when a 200 ends a demoted chain (tryLogin, HTTP_OK).
CookiesFromOwnChain ==
    jarPairs \subseteq {cur}

\* When a 200 OK ends a demoted chain, resourcePath is restored to the path
\* in effect before the method-changing redirect (spec 3, 8.3, scenario 3).
PathRestoredAfterChain ==
    [][changedRequestType /\ ~changedRequestType' => resourcePath' = pathBeforeChain]_vars

\* SUCCESS is only recorded for a pair whose 200 body did not contain the
\* deny signal (a read that times out is an absent read, spec 5).
SuccessOnlyWithoutDenySignal ==
    \A p \in Pairs : verdictOf[p] = "SUCCESS" => ~bodyDenied[p]

\* The Host header of every request names a host (and port), never a whole
\* URI: spec 3 has hostHeader be "<host>:<port>", replaced on a redirect to
\* another URI, and spec 9 asks that a URI Location be split into its
\* authority and its path. _resolveLocationPath (case PATHTYPE_URI, whose
\* break is omitted) is where a redirect changes hostHeader.
HostHeaderIsAuthority ==
    hostHeader \notin URIs

-----------------------------------------------------------------------------
(***************************************************************************)
(* Refinement of HostRecord. A pair's record is its verdict after one      *)
(* setPassResult call, and "TWICE", which HostRecord cannot produce, after *)
(* a second one.                                                           *)
(***************************************************************************)
\* The host's record of each pair as HostRecord sees it: none, the one
\* verdict setPassResult gave, or "TWICE" if it was called again.
RecOf ==
    [p \in Pairs |-> IF nRecords[p] = 0 THEN "NONE"
                     ELSE IF nRecords[p] = 1 THEN verdictOf[p] ELSE "TWICE"]

HR == INSTANCE HostRecord WITH rec <- RecOf, pos <- cur, done <- returned # "NO"

\* initModule implements HostRecord: it moves through the pairs in order,
\* records each at most once and only while it is that pair's turn, and
\* records nothing after it returned. A retry after a redirect, a reconnect
\* and the iterator's advance must fit together for this to hold.
ImplementsHostRecord == HR!Spec

=============================================================================
