---------------------------- MODULE WebForm_proofs ----------------------------
(***************************************************************************)
(* Proofs about WebForm for every value of its constants: the type         *)
(* invariant, and that a request's method always follows the FORM-DATA    *)
(* option except during a 301/302 demotion (FormTypeConsistent).           *)
(***************************************************************************)
EXTENDS WebForm, TLAPS

USE NPairsAssumption, RootAssumption, NullAssumption, HostAssumption,
    FdsAssumption, MaxRedirectsAssumption, ResolvePathAssumption

\* The type invariant with the fact that the loop only runs when the host
\* has a first pair: with no pair initModule starts in MSTATE_COMPLETE.
TypeInv == TypeOK /\ (NPairs = 0 => mstate = "COMPLETE")

\* FormTypeConsistent strengthened to be inductive: MSTATE_INITIALIZE runs
\* before any redirect can set changedRequestType.
FormInv ==
    /\ TypeInv
    /\ FormTypeConsistent
    /\ mstate = "INITIALIZE" => ~changedRequestType

\* The values tryLogin may leave in the variables it changes.
TryLoginPost ==
    /\ formType' \in {"GET", "POST", "UNKNOWN"}
    /\ changedRequestType' \in BOOLEAN
    /\ resourcePath' \in PathValues \cup {NULL}
    /\ resourcePathOld' \in PathValues \cup {NULL}
    /\ hostHeader' \in URIs \cup {HostDefault, NULL}
    /\ cookieJar' \in Seq(Cookies)
    /\ iResult' \in Verdicts
    /\ nRecords' \in [Pairs -> 0..RecordCap]
    /\ verdictOf' \in [Pairs -> Verdicts \cup {"NONE"}]
    /\ redirects' \in 0..MaxRedirects
    /\ credsSent' \subseteq Pairs
    /\ bodyDenied' \in [Pairs -> BOOLEAN]
    /\ pathBeforeChain' \in PathValues \cup {NULL}
    /\ jarPairs' \subseteq Pairs

\* Each list of Set-Cookie values a response carries is a sequence of cookies.
LEMMA SetCookieListsAreSeqs == SetCookieLists \subseteq Seq(Cookies)
<1> SUFFICES ASSUME NEW s \in SetCookieLists PROVE s \in Seq(Cookies)
  OBVIOUS
<1>1. CASE s = <<>>
  BY <1>1
<1>2. CASE \E c \in Cookies : s = <<c>>
  BY <1>2
<1>3. CASE \E c, d \in Cookies : s = <<c, d>>
  BY <1>3
<1>4. QED
  BY <1>1, <1>2, <1>3 DEF SetCookieLists

\* setPassResult keeps the host record typed when there is a current pair.
LEMMA SetPassResultTyped ==
    ASSUME TypeOK, NEW v \in Verdicts, SetPassResult(v), cur \in Pairs
    PROVE  /\ iResult' \in Verdicts
           /\ nRecords' \in [Pairs -> 0..RecordCap]
           /\ verdictOf' \in [Pairs -> Verdicts \cup {"NONE"}]
<1>2. nRecords \in [Pairs -> 0..2] /\ verdictOf \in [Pairs -> Verdicts \cup {"NONE"}]
  BY DEF TypeOK, RecordCap
<1>3. nRecords' = [nRecords EXCEPT ![cur] = IF @ < 2 THEN @ + 1 ELSE @]
  BY DEF SetPassResult, RecordCap
<1>4. verdictOf' = [verdictOf EXCEPT ![cur] = v] /\ iResult' = v
  BY DEF SetPassResult
<1>5. QED
  BY <1>2, <1>3, <1>4 DEF RecordCap

\* The request going out keeps credsSent a set of pairs.
LEMMA RequestSentTyped ==
    ASSUME TypeOK, RequestSent, cur \in Pairs PROVE credsSent' \subseteq Pairs
BY DEF RequestSent, TypeOK

\* tryLogin leaves the configuration, the host record and the history typed.
LEMMA TryLoginTyped ==
    ASSUME TypeOK, cur \in Pairs, NEW ns \in {"NEW", "EXITING"}, TryLogin(ns)
    PROVE  TryLoginPost
<1>1. ASSUME NEW v \in Verdicts, SetPassResult(v)
      PROVE  /\ iResult' \in Verdicts
             /\ nRecords' \in [Pairs -> 0..RecordCap]
             /\ verdictOf' \in [Pairs -> Verdicts \cup {"NONE"}]
  BY <1>1, SetPassResultTyped
<1>2. ASSUME RequestSent PROVE credsSent' \subseteq Pairs
  BY <1>2, RequestSentTyped
<1>3. CASE SendFailed(ns)
  <2>1. SetPassResult("UNKNOWN") /\ UNCHANGED <<cfgVars, histVars>>
    BY <1>3 DEF SendFailed
  <2>2. "UNKNOWN" \in Verdicts
    BY DEF Verdicts
  <2>3. QED
    BY <2>1, <2>2, <1>1 DEF TryLoginPost, TypeOK, cfgVars, histVars
<1>4. CASE NoData(ns)
  <2>1. SetPassResult("UNKNOWN") /\ RequestSent
        /\ UNCHANGED <<cfgVars, redirects, bodyDenied, pathBeforeChain, jarPairs>>
    BY <1>4 DEF NoData
  <2>2. "UNKNOWN" \in Verdicts
    BY DEF Verdicts
  <2>3. QED
    BY <2>1, <2>2, <1>1, <1>2 DEF TryLoginPost, TypeOK, cfgVars
<1>5. CASE ParseError(ns)
  <2>1. RequestSent /\ UNCHANGED <<cfgVars, iResult, nRecords, verdictOf,
                   redirects, bodyDenied, pathBeforeChain, jarPairs>>
    BY <1>5 DEF ParseError
  <2>2. QED
    BY <2>1, <1>2 DEF TryLoginPost, TypeOK, cfgVars
<1>6. CASE Ok(ns)
  <2>1. PICK deny, late \in BOOLEAN :
          /\ SetPassResult(IF deny /\ ~late THEN "FAIL" ELSE "SUCCESS")
          /\ bodyDenied' = [bodyDenied EXCEPT ![cur] = deny]
    BY <1>6 DEF Ok, ScanForDenySignal
  <2>2. (IF deny /\ ~late THEN "FAIL" ELSE "SUCCESS") \in Verdicts
    BY DEF Verdicts
  <2>3. /\ iResult' \in Verdicts
        /\ nRecords' \in [Pairs -> 0..RecordCap]
        /\ verdictOf' \in [Pairs -> Verdicts \cup {"NONE"}]
    BY <2>1, <2>2, <1>1
  <2>4. bodyDenied' \in [Pairs -> BOOLEAN]
    BY <2>1 DEF TypeOK
  <2>5. credsSent' \subseteq Pairs
    BY <1>6, <1>2 DEF Ok
  <2>6. /\ formType' \in {"GET", "POST", "UNKNOWN"}
        /\ changedRequestType' \in BOOLEAN
        /\ resourcePath' \in PathValues \cup {NULL}
        /\ resourcePathOld' \in PathValues \cup {NULL}
        /\ cookieJar' \in Seq(Cookies)
        /\ jarPairs' \subseteq Pairs
    <3>1. CASE changedRequestType
      <4>1. /\ changedRequestType' = FALSE
            /\ formType' = "POST"
            /\ resourcePath' = resourcePathOld
            /\ resourcePathOld' = NULL
            /\ cookieJar' = <<>>
            /\ jarPairs' = {}
        BY <1>6, <3>1 DEF Ok
      <4>2. <<>> \in Seq(Cookies)
        OBVIOUS
      <4>3. QED
        BY <4>1, <4>2 DEF TypeOK
    <3>2. CASE ~changedRequestType
      <4>1. UNCHANGED <<changedRequestType, formType, resourcePath,
                        resourcePathOld, cookieJar, jarPairs>>
        BY <1>6, <3>2 DEF Ok
      <4>2. QED
        BY <4>1 DEF TypeOK
    <3>3. QED
      BY <3>1, <3>2
  <2>7. UNCHANGED <<hostHeader, redirects, pathBeforeChain>>
    BY <1>6 DEF Ok
  <2>8. QED
    BY <2>3, <2>4, <2>5, <2>6, <2>7 DEF TryLoginPost, TypeOK
<1>7. CASE Redirect(ns)
  <2>1. PICK code \in RedirectCodes :
          \/ /\ ns = "EXITING"
             /\ SetPassResult("UNKNOWN")
             /\ UNCHANGED <<cfgVars, pathBeforeChain, jarPairs>>
          \/ /\ ns = "NEW"
             /\ \E loc \in Locations, sc \in SetCookieLists :
                   /\ ResolveLocation(loc)
                   /\ SetCookiesFromResponse(sc)
                   /\ Demote(code)
             /\ UNCHANGED <<iResult, nRecords, verdictOf>>
    BY <1>7 DEF Redirect
  <2>2. redirects' \in 0..MaxRedirects
    BY <1>7 DEF Redirect, TypeOK
  <2>3. credsSent' \subseteq Pairs /\ bodyDenied' \in [Pairs -> BOOLEAN]
    BY <1>7, <1>2 DEF Redirect, TypeOK
  <2>4. CASE ns = "EXITING" /\ SetPassResult("UNKNOWN")
             /\ UNCHANGED <<cfgVars, pathBeforeChain, jarPairs>>
    <3>1. "UNKNOWN" \in Verdicts
      BY DEF Verdicts
    <3>2. QED
      BY <2>4, <2>2, <2>3, <3>1, <1>1 DEF TryLoginPost, TypeOK, cfgVars
  <2>5. CASE ns = "NEW" /\ \E loc \in Locations, sc \in SetCookieLists :
                   /\ ResolveLocation(loc)
                   /\ SetCookiesFromResponse(sc)
                   /\ Demote(code)
             /\ UNCHANGED <<iResult, nRecords, verdictOf>>
    <3>1. PICK loc \in Locations, sc \in SetCookieLists :
                   /\ ResolveLocation(loc)
                   /\ SetCookiesFromResponse(sc)
                   /\ Demote(code)
      BY <2>5
    <3>2. /\ resourcePath' \in PathValues \cup {NULL}
          /\ resourcePathOld' \in PathValues \cup {NULL}
          /\ hostHeader' \in URIs \cup {HostDefault, NULL}
      BY <3>1 DEF ResolveLocation, Locations, TypeOK, PathValues
    <3>3. cookieJar' \in Seq(Cookies) /\ jarPairs' \subseteq Pairs
      BY <3>1, SetCookieListsAreSeqs DEF SetCookiesFromResponse, TypeOK
    <3>4. /\ formType' \in {"GET", "POST", "UNKNOWN"}
          /\ changedRequestType' \in BOOLEAN
          /\ pathBeforeChain' \in PathValues \cup {NULL}
      <4>1. CASE formType = "POST" /\ code \in {301, 302}
        <5>1. changedRequestType' = TRUE /\ formType' = "GET"
              /\ pathBeforeChain' = resourcePath
          BY <3>1, <4>1 DEF Demote
        <5>2. QED
          BY <5>1 DEF TypeOK
      <4>2. CASE ~(formType = "POST" /\ code \in {301, 302})
        <5>1. UNCHANGED <<changedRequestType, formType, pathBeforeChain>>
          BY <3>1, <4>2 DEF Demote
        <5>2. QED
          BY <5>1 DEF TypeOK
      <4>3. QED
        BY <4>1, <4>2
    <3>5. QED
      BY <2>5, <2>2, <2>3, <3>2, <3>3, <3>4 DEF TryLoginPost, TypeOK
  <2>6. QED
    BY <2>1, <2>4, <2>5
<1>8. CASE Refused(ns)
  <2>1. SetPassResult("UNKNOWN") /\ RequestSent
        /\ UNCHANGED <<cfgVars, redirects, bodyDenied, pathBeforeChain, jarPairs>>
    BY <1>8 DEF Refused
  <2>2. "UNKNOWN" \in Verdicts
    BY DEF Verdicts
  <2>3. QED
    BY <2>1, <2>2, <1>1, <1>2 DEF TryLoginPost, TypeOK, cfgVars
<1>9. QED
  BY <1>3, <1>4, <1>5, <1>6, <1>7, <1>8 DEF TryLogin

\* After tryLogin, initModule's loop keeps nState a state and psCredSet on
\* a pair.
LEMMA AfterTryLoginTyped ==
    ASSUME TypeOK, cur \in Pairs, NEW ns \in {"NEW", "EXITING"}, AfterTryLogin(ns)
    PROVE  mstate' \in MStates /\ cur' \in Pairs
<1>1. CASE iResult' # "UNKNOWN"
  <2>1. \/ mstate' = "EXITING" /\ cur' = cur
        \/ cur < NPairs /\ cur' = cur + 1 /\ mstate' \in {"NEW", ns}
    BY <1>1 DEF AfterTryLogin
  <2>2. QED
    BY <2>1 DEF MStates, Pairs
<1>2. CASE iResult' = "UNKNOWN"
  BY <1>2 DEF AfterTryLogin, MStates
<1>3. QED
  BY <1>1, <1>2

\* The type invariant, with the first pair, holds initially.
LEMMA InitTyped == Init => TypeInv
<1> SUFFICES ASSUME Init PROVE TypeInv
  OBVIOUS
<1>1. mstate \in MStates /\ returned \in {"NO", "SUCCESS", "FAILURE"}
      /\ (NPairs = 0 => mstate = "COMPLETE")
  BY DEF Init, MStates
<1>2. cur \in 1..NPairs \/ (NPairs = 0 /\ cur = 1)
  BY DEF Init
<1>3. /\ nRecords \in [Pairs -> 0..RecordCap]
      /\ verdictOf \in [Pairs -> Verdicts \cup {"NONE"}]
      /\ bodyDenied \in [Pairs -> BOOLEAN]
      /\ iResult \in Verdicts
  BY DEF Init, Verdicts, RecordCap
<1>4. cookieJar \in Seq(Cookies)
  <2>1. <<>> \in Seq(Cookies)
    OBVIOUS
  <2>2. QED
    BY <2>1 DEF Init
<1>5. /\ optFormData \in OptFormData
      /\ optResourcePath \in Paths \cup {NULL}
      /\ resourcePath \in PathValues \cup {NULL}
    BY DEF Init, PathValues
<1>6. /\ hSocket \in Fds \cup {-1} /\ openFds \subseteq Fds
      /\ redirects \in 0..MaxRedirects /\ credsSent \subseteq Pairs
      /\ jarPairs \subseteq Pairs
  BY DEF Init
<1>8. /\ formType \in {"GET", "POST", "UNKNOWN"} /\ changedRequestType \in BOOLEAN
      /\ resourcePathOld \in PathValues \cup {NULL}
      /\ hostHeader \in URIs \cup {HostDefault, NULL}
      /\ pathBeforeChain \in PathValues \cup {NULL}
  BY Zenon DEF Init
<1>7. QED
  BY <1>1, <1>2, <1>3, <1>4, <1>5, <1>6, <1>8 DEF TypeInv, TypeOK

\* Every step of initModule keeps the type invariant.
LEMMA NextTyped == TypeInv /\ [Next]_vars => TypeInv'
<1> SUFFICES ASSUME TypeInv, [Next]_vars PROVE TypeInv'
  OBVIOUS
<1>0. TypeOK
  BY DEF TypeInv
<1>1. CASE Initialize
  <2>1. cur \in Pairs
    BY <1>1 DEF Initialize, TypeInv, TypeOK, Pairs
  <2>2. formType' \in {"GET", "POST", "UNKNOWN"}
    BY <1>1 DEF Initialize, InitFormType
  <2>3. resourcePath' \in PathValues \cup {NULL} /\ hostHeader' \in URIs \cup {HostDefault, NULL}
    BY <1>1, <1>0 DEF Initialize, TypeOK, PathValues
  <2>4. QED
    BY <1>1, <1>0, <2>2, <2>3 DEF Initialize, TypeInv, TypeOK, MStates, hostVars, histVars
<1>2. CASE New
  <2>1. cur \in Pairs
    BY <1>2 DEF New, TypeInv, TypeOK, Pairs
  <2>2. hSocket' \in Fds \cup {-1} /\ openFds' \subseteq Fds /\ mstate' \in MStates
        /\ returned' \in {"NO", "SUCCESS", "FAILURE"}
        /\ UNCHANGED cur
    BY <1>2, <1>0 DEF New, TypeOK, MStates, hostVars
  <2>3. /\ iResult' \in Verdicts
        /\ nRecords' \in [Pairs -> 0..RecordCap]
        /\ verdictOf' \in [Pairs -> Verdicts \cup {"NONE"}]
    <3>1. CASE UNCHANGED hostVars
      BY <3>1, <1>0 DEF hostVars, TypeOK
    <3>2. CASE SetPassResult("UNKNOWN")
      BY <3>1, <3>2, <1>0, <2>1, SetPassResultTyped DEF Verdicts
    <3>3. QED
      BY <1>2, <3>1, <3>2 DEF New
  <2>4. QED
    BY <1>2, <1>0, <2>2, <2>3 DEF New, TypeInv, TypeOK, cfgVars, histVars
<1>3. CASE Running
  <2>1. cur \in Pairs
    BY <1>3 DEF Running, TypeInv, TypeOK, Pairs
  <2>2. PICK ns \in {"NEW", "EXITING"} : TryLogin(ns) /\ AfterTryLogin(ns)
    BY <1>3 DEF Running
  <2>3. TryLoginPost
    BY <2>1, <2>2, <1>0, TryLoginTyped
  <2>4. mstate' \in MStates /\ cur' \in Pairs
    BY <2>1, <2>2, <1>0, AfterTryLoginTyped
  <2>5. UNCHANGED <<returned, hSocket, openFds, optFormData, optResourcePath>>
    BY <1>3 DEF Running
  <2>6. QED
    BY <1>0, <2>1, <2>3, <2>4, <2>5 DEF TypeInv, TypeOK, TryLoginPost, Pairs
<1>4. CASE Exiting
  <2>1. openFds' \subseteq Fds /\ hSocket' = -1 /\ mstate' = "COMPLETE"
        /\ returned' = "SUCCESS"
    BY <1>4, <1>0 DEF Exiting, TypeOK
  <2>2. QED
    BY <1>4, <1>0, <2>1 DEF Exiting, TypeInv, TypeOK, MStates, cfgVars, hostVars, histVars
<1>5. CASE UNCHANGED vars
  BY <1>5 DEF TypeInv, TypeOK, vars, cfgVars, hostVars, histVars
<1>6. QED
  BY <1>1, <1>2, <1>3, <1>4, <1>5 DEF Next

\* THEOREM: initModule's variables keep their types in every reachable
\* state, for every number of pairs, paths and descriptors (TypeOK).
THEOREM TypeCorrect == Spec => []TypeOK
<1>1. TypeInv => TypeOK
  BY DEF TypeInv
<1>2. QED
  BY InitTyped, NextTyped, <1>1, PTL DEF Spec

-----------------------------------------------------------------------------
\* The method relation FormTypeConsistent states for the primed request
\* settings, against the (fixed) FORM-DATA option.
FormPost ==
    /\ formType' # "UNKNOWN"
    /\ formType' = IF changedRequestType' THEN "GET" ELSE InitFormType(optFormData)
    /\ changedRequestType' => InitFormType(optFormData) = "POST"

\* A demotion after a 301/302 keeps the method relation: only a POST form is
\* demoted, and it becomes GET with changedRequestType set.
LEMMA DemoteForm ==
    ASSUME FormInv, formType # "UNKNOWN", NEW code, Demote(code)
    PROVE  FormPost
<1>1. CASE formType = "POST" /\ code \in {301, 302}
  <2>1. changedRequestType' = TRUE /\ formType' = "GET"
    BY <1>1 DEF Demote
  <2>2. ~changedRequestType /\ InitFormType(optFormData) = "POST"
    BY <1>1 DEF FormInv, FormTypeConsistent
  <2>3. QED
    BY <2>1, <2>2 DEF FormPost
<1>2. CASE ~(formType = "POST" /\ code \in {301, 302})
  <2>1. UNCHANGED <<changedRequestType, formType>>
    BY <1>2 DEF Demote
  <2>2. QED
    BY <2>1 DEF FormInv, FormTypeConsistent, FormPost
<1>3. QED
  BY <1>1, <1>2

\* tryLogin keeps the method relation once a request can be built.
LEMMA TryLoginForm ==
    ASSUME FormInv, formType # "UNKNOWN", NEW ns, TryLogin(ns)
    PROVE  FormPost
<1>0. UNCHANGED <<formType, changedRequestType>> => FormPost
  BY DEF FormInv, FormTypeConsistent, FormPost
<1>1. CASE SendFailed(ns) \/ NoData(ns) \/ ParseError(ns) \/ Refused(ns)
  <2>1. UNCHANGED <<formType, changedRequestType>>
    BY <1>1 DEF SendFailed, NoData, ParseError, Refused, cfgVars
  <2>2. QED
    BY <2>1, <1>0
<1>2. CASE Ok(ns)
  <2>1. CASE changedRequestType
    <3>1. changedRequestType' = FALSE /\ formType' = "POST"
      BY <1>2, <2>1 DEF Ok
    <3>2. InitFormType(optFormData) = "POST"
      BY <2>1 DEF FormInv, FormTypeConsistent
    <3>3. QED
      BY <3>1, <3>2 DEF FormPost
  <2>2. CASE ~changedRequestType
    <3>1. UNCHANGED <<formType, changedRequestType>>
      BY <1>2, <2>2 DEF Ok
    <3>2. QED
      BY <3>1, <1>0
  <2>3. QED
    BY <2>1, <2>2
<1>3. CASE Redirect(ns)
  <2>1. PICK code \in RedirectCodes :
          \/ /\ ns = "EXITING"
             /\ SetPassResult("UNKNOWN")
             /\ UNCHANGED <<cfgVars, pathBeforeChain, jarPairs>>
          \/ /\ ns = "NEW"
             /\ \E loc \in Locations, sc \in SetCookieLists :
                   /\ ResolveLocation(loc)
                   /\ SetCookiesFromResponse(sc)
                   /\ Demote(code)
             /\ UNCHANGED <<iResult, nRecords, verdictOf>>
    BY <1>3 DEF Redirect
  <2>2. CASE UNCHANGED cfgVars
    BY <2>2, <1>0 DEF cfgVars
  <2>3. CASE Demote(code)
    BY <2>3, DemoteForm
  <2>4. QED
    BY <2>1, <2>2, <2>3
<1>4. QED
  BY <1>1, <1>2, <1>3 DEF TryLogin

\* Every step of initModule keeps FormInv.
LEMMA NextForm == FormInv /\ [Next]_vars => FormInv'
<1> SUFFICES ASSUME FormInv, [Next]_vars PROVE FormInv'
  OBVIOUS
<1>0. TypeInv'
  BY NextTyped DEF FormInv
<1>1. CASE Initialize
  <2>1. mstate' = "NEW" /\ formType' = InitFormType(optFormData)
        /\ UNCHANGED <<changedRequestType, optFormData>>
    BY <1>1 DEF Initialize
  <2>2. ~changedRequestType
    BY <1>1 DEF Initialize, FormInv
  <2>3. InitFormType(optFormData) \in {"GET", "POST"}
    BY DEF InitFormType
  <2>4. QED
    BY <1>0, <2>1, <2>2, <2>3 DEF FormInv, FormTypeConsistent
<1>2. CASE New
  <2>1. UNCHANGED <<formType, changedRequestType, optFormData>>
        /\ mstate' \in {"RUNNING", "NEW"}
    BY <1>2 DEF New, cfgVars
  <2>2. formType # "UNKNOWN"
    BY <1>2 DEF New, FormInv, FormTypeConsistent
  <2>3. QED
    BY <1>0, <2>1, <2>2 DEF FormInv, FormTypeConsistent
<1>3. CASE Running
  <2>1. formType # "UNKNOWN"
    BY <1>3 DEF Running, FormInv, FormTypeConsistent
  <2>2. PICK ns \in {"NEW", "EXITING"} : TryLogin(ns) /\ AfterTryLogin(ns)
    BY <1>3 DEF Running
  <2>3. FormPost
    BY <2>1, <2>2, TryLoginForm
  <2>4. mstate' \in {"NEW", "EXITING"}
    BY <2>2 DEF AfterTryLogin
  <2>5. optFormData' = optFormData
    BY <1>3 DEF Running
  <2>6. QED
    BY <1>0, <2>3, <2>4, <2>5 DEF FormInv, FormTypeConsistent, FormPost
<1>4. CASE Exiting
  <2>1. UNCHANGED <<formType, changedRequestType, optFormData>> /\ mstate' = "COMPLETE"
    BY <1>4 DEF Exiting, cfgVars
  <2>2. QED
    BY <1>0, <2>1 DEF FormInv, FormTypeConsistent
<1>5. CASE UNCHANGED vars
  BY <1>5, <1>0 DEF FormInv, FormTypeConsistent, vars, cfgVars
<1>6. QED
  BY <1>1, <1>2, <1>3, <1>4, <1>5 DEF Next

\* THEOREM: every request initModule builds uses the method the FORM-DATA
\* option asked for, except that a POST form is sent as GET while a 301/302
\* chain has set changedRequestType (FormTypeConsistent), for every value
\* of the constants.
THEOREM MethodFollowsFormData == Spec => []FormTypeConsistent
<1>1. Init => FormInv
  <2> SUFFICES ASSUME Init PROVE FormInv
    OBVIOUS
  <2>1. TypeInv
    BY InitTyped
  <2>2. formType = "UNKNOWN" /\ ~changedRequestType /\ mstate \in {"INITIALIZE", "COMPLETE"}
    BY DEF Init
  <2>3. QED
    BY <2>1, <2>2 DEF FormInv, FormTypeConsistent
<1>2. FormInv => FormTypeConsistent
  BY DEF FormInv
<1>3. QED
  BY <1>1, <1>2, NextForm, PTL DEF Spec

=============================================================================
