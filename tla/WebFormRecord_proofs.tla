------------------------- MODULE WebFormRecord_proofs -------------------------
(***************************************************************************)
(* Proofs about the host's record: setPassResult is called at most once    *)
(* per password (AtMostOneVerdict), and initModule implements HostRecord   *)
(* (ImplementsHostRecord), for every value of the constants.               *)
(***************************************************************************)
EXTENDS WebForm_proofs

USE NPairsAssumption, RootAssumption, NullAssumption, HostAssumption,
    FdsAssumption, MaxRedirectsAssumption, ResolvePathAssumption

\* AtMostOneVerdict strengthened to be inductive: the pairs after the
\* current one have no record; while the loop can still reach tryLogin
\* the current pair has none either; once initModule has returned it is in
\* MSTATE_NEW (the connect failure) or MSTATE_COMPLETE and takes no step.
RecCore ==
    /\ \A p \in Pairs : nRecords[p] <= 1
    /\ \A p \in Pairs : p > cur => nRecords[p] = 0
    /\ (mstate \in {"INITIALIZE", "NEW", "RUNNING"} /\ returned = "NO") => nRecords[cur] = 0
    /\ returned # "NO" => mstate \in {"NEW", "COMPLETE"}
    /\ mstate = "COMPLETE" => returned # "NO"

RecInv == TypeInv /\ RecCore

\* A path through tryLogin records nothing, or one verdict for the current
\* pair; it records UNKNOWN only on the paths that return MSTATE_EXITING.
LEMMA TryLoginRecords ==
    ASSUME NEW ns, TryLogin(ns)
    PROVE  \/ UNCHANGED <<nRecords, verdictOf>>
           \/ \E v \in Verdicts : /\ SetPassResult(v)
                                  /\ v = "UNKNOWN" => ns = "EXITING"
<1>1. CASE SendFailed(ns) \/ NoData(ns) \/ Refused(ns)
  <2>1. ns = "EXITING" /\ SetPassResult("UNKNOWN")
    BY <1>1 DEF SendFailed, NoData, Refused
  <2>2. QED
    BY <2>1 DEF Verdicts
<1>2. CASE ParseError(ns)
  BY <1>2 DEF ParseError
<1>3. CASE Ok(ns)
  <2>1. PICK deny, late \in BOOLEAN :
          SetPassResult(IF deny /\ ~late THEN "FAIL" ELSE "SUCCESS")
    BY <1>3 DEF Ok, ScanForDenySignal
  <2>2. QED
    BY <2>1 DEF Verdicts
<1>4. CASE Redirect(ns)
  <2>1. PICK code \in RedirectCodes :
          \/ /\ ns = "EXITING"
             /\ SetPassResult("UNKNOWN")
          \/ UNCHANGED <<iResult, nRecords, verdictOf>>
    BY <1>4 DEF Redirect
  <2>2. QED
    BY <2>1 DEF Verdicts
<1>5. QED
  BY <1>1, <1>2, <1>3, <1>4 DEF TryLogin

\* AfterTryLogin keeps the pair, or moves to the next one, which exists;
\* it keeps ns when iResult is UNKNOWN, and otherwise exits or advances.
LEMMA AfterTryLoginMoves ==
    ASSUME NEW ns, AfterTryLogin(ns)
    PROVE  \/ iResult' = "UNKNOWN" /\ mstate' = ns /\ cur' = cur
           \/ mstate' = "EXITING" /\ cur' = cur
           \/ cur < NPairs /\ cur' = cur + 1 /\ mstate' \in {"NEW", ns}
<1>1. CASE iResult' # "UNKNOWN"
  BY <1>1 DEF AfterTryLogin
<1>2. CASE iResult' = "UNKNOWN"
  BY <1>2 DEF AfterTryLogin
<1>3. QED
  BY <1>1, <1>2

\* setPassResult for a current pair without a record gives it exactly one,
\* with verdict v, and leaves the other pairs' records alone.
LEMMA SetPassResultOnce ==
    ASSUME TypeOK, cur \in Pairs, nRecords[cur] = 0, NEW v, SetPassResult(v)
    PROVE  /\ nRecords' = [nRecords EXCEPT ![cur] = 1]
           /\ verdictOf' = [verdictOf EXCEPT ![cur] = v]
<1>1. nRecords \in [Pairs -> 0..2]
  BY DEF TypeOK, RecordCap
<1>2. nRecords' = [nRecords EXCEPT ![cur] = IF @ < 2 THEN @ + 1 ELSE @]
  BY DEF SetPassResult, RecordCap
<1>3. nRecords' = [nRecords EXCEPT ![cur] = 1]
  <2>1. nRecords[cur] < 2 /\ nRecords[cur] + 1 = 1
    OBVIOUS
  <2>2. QED
    BY <1>2, <2>1
<1>4. QED
  BY <1>3 DEF SetPassResult

\* The current pair exists whenever the loop has not completed.
LEMMA CurInPairs ==
    ASSUME TypeInv, mstate # "COMPLETE" PROVE cur \in Pairs
BY DEF TypeInv, TypeOK, Pairs

\* The record invariant holds initially.
LEMMA InitRec == Init => RecInv
<1> SUFFICES ASSUME Init PROVE RecInv
  OBVIOUS
<1>1. TypeInv
  BY InitTyped
<1>2. nRecords = [p \in Pairs |-> 0]
  BY DEF Init
<1>3. returned # "NO" <=> mstate = "COMPLETE"
  BY DEF Init
<1>4. \A p \in Pairs : nRecords[p] = 0
  BY <1>2
<1>5. mstate # "COMPLETE" => cur \in Pairs
  BY <1>1, CurInPairs
<1>6. QED
  BY <1>1, <1>3, <1>4, <1>5 DEF RecInv, RecCore

\* Every step of initModule keeps the record invariant.
LEMMA NextRec == RecInv /\ [Next]_vars => RecInv'
<1> SUFFICES ASSUME TypeInv, RecCore, [Next]_vars PROVE RecInv'
  BY DEF RecInv
<1>0. /\ TypeInv' /\ TypeOK
      /\ nRecords \in [Pairs -> 0..RecordCap]
  BY NextTyped DEF TypeInv, TypeOK
<1> SUFFICES RecCore'
  BY <1>0 DEF RecInv
<1>1. CASE Initialize
  <2>1. cur \in Pairs
    BY <1>1, <1>0, CurInPairs DEF Initialize
  <2>2. mstate = "INITIALIZE" /\ returned = "NO" /\ nRecords[cur] = 0
    BY <1>1 DEF Initialize, RecCore
  <2>3. /\ returned' = returned /\ cur' = cur /\ nRecords' = nRecords
        /\ mstate' = "NEW"
    BY <1>1 DEF Initialize, hostVars
  <2>4. QED
    BY <2>1, <2>2, <2>3, Zenon DEF RecCore
<1>2. CASE New
  <2>1. cur \in Pairs /\ returned = "NO" /\ mstate = "NEW"
    BY <1>2, <1>0, CurInPairs DEF New
  <2>2. nRecords[cur] = 0
    BY <2>1 DEF RecCore
  <2>3. CASE /\ mstate' = "RUNNING"
             /\ UNCHANGED <<returned, hostVars>>
    <3>1. UNCHANGED <<returned, cur, nRecords>>
      BY <2>3 DEF hostVars
    <3>2. QED
      BY <2>3, <3>1, <2>2, <2>1 DEF RecCore
  <2>4. CASE /\ SetPassResult("UNKNOWN")
             /\ returned' = "FAILURE"
             /\ UNCHANGED <<mstate, cur>>
    <3>1. nRecords' = [nRecords EXCEPT ![cur] = 1]
      BY <2>4, <2>1, <2>2, <1>0, SetPassResultOnce
    <3>2. \A p \in Pairs : nRecords'[p] = IF p = cur THEN 1 ELSE nRecords[p]
      BY <3>1, <1>0
    <3>3. mstate' = "NEW" /\ cur' = cur /\ returned' = "FAILURE"
      BY <2>4, <2>1
    <3>4. QED
      BY <3>3, <3>2, <2>1 DEF RecCore, Pairs
  <2>5. QED
    BY <1>2, <2>3, <2>4 DEF New
<1>3. CASE Running
  <2>1. cur \in Pairs /\ mstate = "RUNNING"
    BY <1>3, <1>0, CurInPairs DEF Running
  <2>2. returned = "NO" /\ nRecords[cur] = 0
    BY <2>1 DEF RecCore
  <2>3. UNCHANGED returned
    BY <1>3 DEF Running
  <2>4. PICK ns \in {"NEW", "EXITING"} : TryLogin(ns) /\ AfterTryLogin(ns)
    BY <1>3 DEF Running
  \* What tryLogin does to the record: nothing, or one record at cur.
  <2>5. \/ UNCHANGED <<nRecords, verdictOf>>
        \/ \E v \in Verdicts : /\ SetPassResult(v)
                               /\ v = "UNKNOWN" => ns = "EXITING"
    BY <2>4, TryLoginRecords
  <2>6. /\ \A p \in Pairs : nRecords'[p] <= 1
        /\ \A p \in Pairs \ {cur} : nRecords'[p] = nRecords[p]
    <3>1. CASE UNCHANGED <<nRecords, verdictOf>>
      BY <3>1, <2>1 DEF RecCore
    <3>2. CASE \E v \in Verdicts : SetPassResult(v)
      <4>1. nRecords' = [nRecords EXCEPT ![cur] = 1]
        BY <3>2, <2>1, <2>2, <1>0, SetPassResultOnce
      <4>2. QED
        BY <4>1, <1>0 DEF RecCore
    <3>3. QED
      BY <2>5, <3>1, <3>2
  \* Where the loop goes next.
  <2>7. \/ iResult' = "UNKNOWN" /\ mstate' = ns /\ cur' = cur
        \/ mstate' = "EXITING" /\ cur' = cur
        \/ cur < NPairs /\ cur' = cur + 1 /\ mstate' \in {"NEW", ns}
    BY <2>4, AfterTryLoginMoves
  \* Staying at cur in MSTATE_NEW only happens when nothing was recorded.
  <2>8. (mstate' = "NEW" /\ cur' = cur) => nRecords'[cur] = 0
    <3>1. CASE iResult' = "UNKNOWN" /\ mstate' = ns /\ cur' = cur /\ ns = "NEW"
      <4>1. ~\E v \in Verdicts : SetPassResult(v) /\ (v = "UNKNOWN" => ns = "EXITING")
        BY <3>1 DEF SetPassResult
      <4>2. UNCHANGED nRecords
        BY <4>1, <2>5
      <4>3. QED
        BY <4>2, <2>2
    <3>2. QED
      BY <2>7, <3>1, <2>1 DEF Pairs
  <2>9. cur' \in Pairs /\ cur' >= cur
    BY <2>7, <2>1 DEF Pairs
  <2>10. \A p \in Pairs : p > cur' => nRecords'[p] = 0
    BY <2>6, <2>9, <2>1 DEF RecCore, Pairs
  <2>11. (mstate' \in {"INITIALIZE", "NEW", "RUNNING"} /\ returned' = "NO") => nRecords'[cur'] = 0
    <3>1. mstate' \in {"NEW", "EXITING"}
      BY <2>7
    <3>2. CASE cur' = cur + 1
      <4>1. cur' \in Pairs \ {cur} /\ cur' > cur
        BY <3>2, <2>9, <2>1 DEF Pairs
      <4>2. QED
        BY <4>1, <2>6 DEF RecCore
    <3>3. CASE cur' = cur
      BY <3>3, <3>1, <2>8
    <3>4. QED
      BY <2>7, <3>2, <3>3
  <2>12. QED
    BY <1>0, <2>3, <2>2, <2>6, <2>7, <2>10, <2>11 DEF RecCore
<1>4. CASE Exiting
  <2>1. mstate' = "COMPLETE" /\ returned' = "SUCCESS" /\ UNCHANGED <<cur, nRecords>>
    BY <1>4 DEF Exiting, hostVars
  <2>2. QED
    BY <2>1 DEF RecCore
<1>5. CASE UNCHANGED vars
  <2>1. UNCHANGED <<mstate, returned, cur, nRecords>>
    BY <1>5 DEF vars, hostVars
  <2>2. QED
    BY <2>1, <1>0 DEF RecCore
<1>6. QED
  BY <1>1, <1>2, <1>3, <1>4, <1>5 DEF Next

\* THEOREM: setPassResult is called at most once for each password, for
\* every number of pairs (AtMostOneVerdict): a redirect retries the pair
\* without recording it, and every recording path leaves the pair.
THEOREM RecordedAtMostOnce == Spec => []AtMostOneVerdict
<1>1. RecInv => AtMostOneVerdict
  BY DEF RecInv, RecCore, AtMostOneVerdict
<1>2. QED
  BY InitRec, NextRec, <1>1, PTL DEF Spec

\* A call of setPassResult on a pair with no record yet is, for HostRecord,
\* the recording of that verdict for the current pair.
LEMMA RecordMaps ==
    ASSUME TypeOK, cur \in Pairs, nRecords[cur] = 0,
           NEW v \in Verdicts, SetPassResult(v)
    PROVE  /\ RecOf[cur] = "NONE"
           /\ RecOf' = [RecOf EXCEPT ![cur] = v]
<1>1. /\ nRecords' = [nRecords EXCEPT ![cur] = 1]
      /\ verdictOf' = [verdictOf EXCEPT ![cur] = v]
  BY SetPassResultOnce
<1>2. /\ nRecords \in [Pairs -> 0..RecordCap]
      /\ DOMAIN verdictOf = Pairs
  BY DEF TypeOK
<1>3. RecOf[cur] = "NONE"
  BY DEF RecOf
<1>4. \A p \in Pairs \ {cur} : nRecords'[p] = nRecords[p] /\ verdictOf'[p] = verdictOf[p]
  BY <1>1, <1>2
<1>5. nRecords'[cur] = 1 /\ verdictOf'[cur] = v
  BY <1>1, <1>2
<1>6. RecOf' = [p \in Pairs |-> IF p = cur THEN v ELSE RecOf[p]]
  BY <1>4, <1>5 DEF RecOf
<1>7. [RecOf EXCEPT ![cur] = v] = [p \in Pairs |-> IF p = cur THEN v ELSE RecOf[p]]
  BY DEF RecOf
<1>8. QED
  BY <1>3, <1>6, <1>7

\* A step that leaves the record alone leaves HostRecord's record alone.
LEMMA RecordKept ==
    ASSUME UNCHANGED <<nRecords, verdictOf>>
    PROVE  RecOf' = RecOf
BY DEF RecOf

\* The initial states of initModule are initial states of HostRecord.
LEMMA InitMaps == Init => HR!Init
<1> SUFFICES ASSUME Init PROVE HR!Init
  OBVIOUS
<1>1. RecOf = [p \in 1..NPairs |-> "NONE"]
  BY DEF Init, RecOf, Pairs
<1>2. cur = 1
  BY DEF Init
<1>3. (returned # "NO") \in BOOLEAN
  OBVIOUS
<1>4. NPairs = 0 => returned # "NO"
  BY Zenon DEF Init
<1>5. QED
  BY <1>1, <1>2, <1>3, <1>4 DEF HR!Init

\* Every step of initModule is a HostRecord step or leaves its variables
\* alone, from a state of the record invariant.
LEMMA StepMaps == RecInv /\ [Next]_vars => [HR!Progress]_HR!avars
<1> SUFFICES ASSUME TypeInv, RecCore, [Next]_vars PROVE [HR!Progress]_HR!avars
  BY DEF RecInv
<1>0. TypeOK
  BY DEF TypeInv
<1>1. CASE Initialize
  <2>1. UNCHANGED <<nRecords, verdictOf, cur, returned>>
    BY <1>1 DEF Initialize, hostVars
  <2>2. QED
    BY <2>1, RecordKept DEF HR!avars
<1>2. CASE New
  <2>1. cur \in Pairs /\ returned = "NO" /\ mstate = "NEW"
    BY <1>2, <1>0, CurInPairs DEF New
  <2>2. nRecords[cur] = 0
    BY <2>1 DEF RecCore
  <2>3. CASE /\ mstate' = "RUNNING"
             /\ UNCHANGED <<returned, hostVars>>
    <3>1. UNCHANGED <<nRecords, verdictOf, cur, returned>>
      BY <2>3 DEF hostVars
    <3>2. QED
      BY <3>1, RecordKept DEF HR!avars
  <2>4. CASE /\ SetPassResult("UNKNOWN")
             /\ returned' = "FAILURE"
             /\ UNCHANGED <<mstate, cur>>
    <3>1. RecOf[cur] = "NONE" /\ RecOf' = [RecOf EXCEPT ![cur] = "UNKNOWN"]
      BY <2>4, <2>1, <2>2, <1>0, RecordMaps DEF Verdicts
    <3>2. cur' = cur
      BY <2>4
    <3>3. QED
      BY <3>1, <3>2, <2>1 DEF HR!Progress, HR!RecVerdicts
  <2>5. QED
    BY <1>2, <2>3, <2>4 DEF New
<1>3. CASE Running
  <2>1. cur \in Pairs /\ mstate = "RUNNING"
    BY <1>3, <1>0, CurInPairs DEF Running
  <2>2. returned = "NO" /\ nRecords[cur] = 0
    BY <2>1 DEF RecCore
  <2>3. PICK ns \in {"NEW", "EXITING"} : TryLogin(ns) /\ AfterTryLogin(ns)
    BY <1>3 DEF Running
  <2>4. \/ RecOf' = RecOf
        \/ \E v \in HR!RecVerdicts : /\ RecOf[cur] = "NONE"
                                     /\ RecOf' = [RecOf EXCEPT ![cur] = v]
    <3>1. CASE UNCHANGED <<nRecords, verdictOf>>
      BY <3>1, RecordKept
    <3>2. CASE \E v \in Verdicts : SetPassResult(v)
      <4>1. PICK v \in Verdicts : SetPassResult(v)
        BY <3>2
      <4>2. QED
        BY <4>1, <2>1, <2>2, <1>0, RecordMaps DEF HR!RecVerdicts, Verdicts
    <3>3. QED
      BY <2>3, TryLoginRecords, <3>1, <3>2
  <2>5. cur' \in {cur} \cup ({cur + 1} \cap 1..NPairs)
    BY <2>3, <2>1, AfterTryLoginMoves DEF Pairs
  <2>6. returned' = "NO"
    BY <1>3, <2>2 DEF Running
  <2>7. QED
    BY <2>2, <2>4, <2>5, <2>6 DEF HR!Progress
<1>4. CASE Exiting
  <2>1. UNCHANGED <<nRecords, verdictOf, cur>> /\ returned = "NO"
    BY <1>4 DEF Exiting, hostVars
  <2>2. RecOf' = RecOf
    BY <2>1, RecordKept
  <2>3. QED
    BY <2>1, <2>2 DEF HR!Progress
<1>5. CASE UNCHANGED vars
  <2>1. UNCHANGED <<nRecords, verdictOf, cur, returned>>
    BY <1>5 DEF vars, hostVars
  <2>2. QED
    BY <2>1, RecordKept DEF HR!avars
<1>6. QED
  BY <1>1, <1>2, <1>3, <1>4, <1>5 DEF Next

\* THEOREM: initModule implements HostRecord (ImplementsHostRecord) for
\* every number of pairs: it walks the pairs in order, records each at
\* most once and only at its turn, and records nothing once it returned.
THEOREM RefinesHostRecord == Spec => ImplementsHostRecord
<1>1. RecInv /\ [][Next]_vars => [][HR!Progress]_HR!avars
  BY NextRec, StepMaps, PTL
<1>2. QED
  BY InitRec, InitMaps, <1>1, PTL DEF Spec, ImplementsHostRecord, HR!Spec

-----------------------------------------------------------------------------
(* The descriptor discipline of initModule: with 0 not among the           *)
(* descriptors socket() can return, the one it holds open is hSocket, and *)
(* it is closed before each return. (With 0 possible, the hSocket > 0      *)
(* tests leak it: the run fd_zero_leak.)                                   *)

\* NoLeakAtReturn strengthened: at most hSocket is open.
LeakInv ==
    /\ RecInv
    /\ openFds \subseteq {hSocket}
    /\ NoLeakAtReturn

\* The descriptors kept open across a close of hSocket: none.
LEMMA KeptEmpty ==
    ASSUME TypeOK, 0 \notin Fds, openFds \subseteq {hSocket}
    PROVE  (IF hSocket > 0 THEN openFds \ {hSocket} ELSE openFds) = {}
<1>1. hSocket \in Fds \cup {-1} /\ openFds \subseteq Fds
  BY DEF TypeOK
<1>2. CASE hSocket > 0
  BY <1>2
<1>3. CASE ~(hSocket > 0)
  <2>1. hSocket \notin Fds
    BY <1>1, <1>3, FdsAssumption
  <2>2. QED
    BY <1>1, <1>3, <2>1
<1>4. QED
  BY <1>2, <1>3

LEMMA InitLeak == Init => LeakInv
<1> SUFFICES ASSUME Init PROVE LeakInv
  OBVIOUS
<1>1. RecInv
  BY InitRec
<1>2. openFds = {}
  BY DEF Init
<1>3. QED
  BY <1>1, <1>2 DEF LeakInv, NoLeakAtReturn

LEMMA NextLeak ==
    ASSUME 0 \notin Fds, LeakInv, [Next]_vars PROVE LeakInv'
<1>0. /\ RecInv' /\ TypeOK /\ RecCore
      /\ openFds \subseteq {hSocket} /\ NoLeakAtReturn
  BY NextRec DEF LeakInv, RecInv, TypeInv
<1>k. (IF hSocket > 0 THEN openFds \ {hSocket} ELSE openFds) = {}
  BY <1>0, KeptEmpty
<1> SUFFICES openFds' \subseteq {hSocket'} /\ (returned' # "NO" => openFds' = {})
  BY <1>0 DEF LeakInv, NoLeakAtReturn
<1>1. CASE Initialize
  BY <1>1, <1>0 DEF Initialize, RecCore, NoLeakAtReturn
<1>2. CASE New
  <2>1. CASE \E fd \in Fds \ (IF hSocket > 0 THEN openFds \ {hSocket} ELSE openFds) :
               /\ hSocket' = fd
               /\ openFds' = (IF hSocket > 0 THEN openFds \ {hSocket} ELSE openFds) \cup {fd}
               /\ UNCHANGED returned
    BY <2>1, <1>k, <1>2 DEF New
  <2>2. CASE openFds' = (IF hSocket > 0 THEN openFds \ {hSocket} ELSE openFds)
    BY <2>2, <1>k
  <2>3. QED
    BY <1>2, <2>1, <2>2 DEF New
<1>3. CASE Running
  BY <1>3, <1>0 DEF Running, NoLeakAtReturn
<1>4. CASE Exiting
  BY <1>4, <1>k DEF Exiting
<1>5. CASE UNCHANGED vars
  BY <1>5, <1>0 DEF vars, NoLeakAtReturn
<1>6. QED
  BY <1>1, <1>2, <1>3, <1>4, <1>5 DEF Next

\* THEOREM: when 0 is not a descriptor socket() returns, initModule never
\* returns, by MSTATE_EXITING or by the connect failure in MSTATE_NEW,
\* with a descriptor it opened still open (NoLeakAtReturn), for every
\* number of pairs and every set of descriptors.
THEOREM ClosesBeforeReturn ==
    ASSUME 0 \notin Fds PROVE Spec => []NoLeakAtReturn
<1>1. LeakInv /\ [Next]_vars => LeakInv'
  BY NextLeak
<1>2. LeakInv => NoLeakAtReturn
  BY DEF LeakInv
<1>3. QED
  BY InitLeak, <1>1, <1>2, PTL DEF Spec

=============================================================================
