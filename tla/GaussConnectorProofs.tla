----------------------- MODULE GaussConnectorProofs -----------------------
(***************************************************************************)
(* Proofs about GaussConnector, for every set of calls and buffers.        *)
(***************************************************************************)
EXTENDS GaussConnector, TLAPS

USE GaussAssumption DEF ErrmsgBuffers

\* The call inside PQexec has not returned, and a status that reports an effect is sent
\* only after the effect.
CallPending == current # NoCall => rc[current] = "none"
ReplyTrue   == current # NoCall /\ reply \in EffectStatuses => current \in applied

\* The inductive invariant.
IInv == /\ TypeOK
        /\ CallPending
        /\ ReplyTrue
        /\ ZeroMeansApplied
        /\ LeakIsSuccesses
        /\ ErrorsAccounted

\* The set of what a buffer holds, and of what it should hold.
TextsOf(s) == {s[i] : i \in DOMAIN s}
ToldIn(b)  == {k \in Failed : bufferOf[k] = b /\ outcome[k] \in ErrorStatuses}

\* strcat of a text the buffer does not hold yet: one more, and still none twice.
LEMMA AppendNew ==
  ASSUME NEW s \in Seq(Calls), NEW k \in Calls, k \notin TextsOf(s),
         \A i, j \in DOMAIN s : s[i] = s[j] => i = j
  PROVE  /\ Append(s, k) \in Seq(Calls)
         /\ TextsOf(Append(s, k)) = TextsOf(s) \cup {k}
         /\ \A i, j \in DOMAIN Append(s, k) : Append(s, k)[i] = Append(s, k)[j] => i = j
<1> DEFINE t == Append(s, k)
<1>1. /\ t \in Seq(Calls)
      /\ DOMAIN s = 1..Len(s)
      /\ Len(s) \in Nat
      /\ DOMAIN t = 1..Len(s) + 1
      /\ t[Len(s) + 1] = k
      /\ \A i \in 1..Len(s) : t[i] = s[i]
  OBVIOUS
<1> HIDE DEF t
<1>2. TextsOf(t) = TextsOf(s) \cup {k}
  <2>1. ASSUME NEW e \in TextsOf(t) PROVE e \in TextsOf(s) \cup {k}
    BY <1>1, <2>1 DEF TextsOf
  <2>2. ASSUME NEW e \in TextsOf(s) PROVE e \in TextsOf(t)
    BY <1>1, <2>2 DEF TextsOf
  <2>3. k \in TextsOf(t)
    BY <1>1 DEF TextsOf
  <2> QED BY <2>1, <2>2, <2>3
<1>3. ASSUME NEW i \in DOMAIN t, NEW j \in DOMAIN t, t[i] = t[j] PROVE i = j
  <2>1. CASE i = Len(s) + 1 \/ j = Len(s) + 1
    BY <1>1, <1>3, <2>1 DEF TextsOf
  <2>2. CASE i # Len(s) + 1 /\ j # Len(s) + 1
    BY <1>1, <1>3, <2>2
  <2> QED BY <2>1, <2>2
<1> QED BY <1>1, <1>2, <1>3 DEF t

\* The object, its buffers and the database begin in a state of the invariant.
THEOREM InitInvariant == Init => IInv
<1> SUFFICES ASSUME Init PROVE IInv
  OBVIOUS
<1>1. TypeOK
  BY DEF Init, TypeOK
<1>2. CallPending /\ ReplyTrue /\ ZeroMeansApplied /\ LeakIsSuccesses
  BY DEF Init, CallPending, ReplyTrue, ZeroMeansApplied, LeakIsSuccesses
<1>3. ErrorsAccounted
  BY DEF Init, ErrorsAccounted, Failed
<1> QED BY <1>1, <1>2, <1>3 DEF IInv

\* What every return of insert, update and omit has in common.
LEMMA Returning ==
  ASSUME IInv, NEW code \in {"0", "-1"}, Return(code)
  PROVE  /\ current \in Calls
         /\ rc[current] = "none"
         /\ rc' = [rc EXCEPT ![current] = code]
         /\ rc' \in [Calls -> {"none", "0", "-1"}]
         /\ Status \in ExecStatuses
         /\ outcome' = [outcome EXCEPT ![current] = Status]
         /\ outcome' \in [Calls -> {"none"} \cup ExecStatuses]
         /\ CallPending' /\ ReplyTrue'
<1>1. /\ current \in Calls /\ rc[current] = "none"
      /\ rc' = [rc EXCEPT ![current] = code]
      /\ outcome' = [outcome EXCEPT ![current] = Status]
      /\ current' = NoCall
  BY DEF IInv, TypeOK, CallPending, Return
<1>2. Status \in ExecStatuses
  BY DEF IInv, TypeOK, Return, Answered, Status, ExecStatuses, ErrorStatuses
<1>3. /\ rc' \in [Calls -> {"none", "0", "-1"}]
      /\ outcome' \in [Calls -> {"none"} \cup ExecStatuses]
  BY <1>1, <1>2 DEF IInv, TypeOK
<1> QED BY <1>1, <1>2, <1>3 DEF CallPending, ReplyTrue

\* ReturnOk: the statement took effect and its result stays allocated.
LEMMA ReturnOkStep == IInv /\ ReturnOk => IInv'
<1> SUFFICES ASSUME IInv, ReturnOk PROVE IInv'
  OBVIOUS
<1> USE DEF IInv
<1>1. Return("0") /\ errmsg' = errmsg /\ results' = results \cup {current}
  BY DEF ReturnOk
<1>2. /\ current \in Calls /\ rc[current] = "none"
      /\ rc' = [rc EXCEPT ![current] = "0"]
      /\ rc' \in [Calls -> {"none", "0", "-1"}]
      /\ outcome' = [outcome EXCEPT ![current] = Status]
      /\ outcome' \in [Calls -> {"none"} \cup ExecStatuses]
      /\ CallPending' /\ ReplyTrue'
  BY <1>1, Returning
<1>3. applied' = applied /\ bufferOf' = bufferOf /\ current' = NoCall
      /\ UNCHANGED <<object, link, reply>>
  BY <1>1 DEF Return
<1>4. TypeOK'
  BY <1>1, <1>2, <1>3 DEF TypeOK
<1>5. ZeroMeansApplied'
  <2>1. current \in applied
    BY <1>1 DEF ReturnOk, Succeeded, Return, Status, ReplyTrue, EffectStatuses
  <2> QED BY <1>2, <1>3, <2>1 DEF ZeroMeansApplied, TypeOK
<1>6. LeakIsSuccesses'
  BY <1>1, <1>2 DEF LeakIsSuccesses, TypeOK
<1>7. /\ Failed' = Failed
      /\ \A k \in Failed : outcome'[k] = outcome[k]
  BY <1>2 DEF Failed, TypeOK
<1>8. ErrorsAccounted'
  BY <1>1, <1>3, <1>7 DEF ErrorsAccounted
<1> QED BY <1>2, <1>4, <1>5, <1>6, <1>8

\* ReturnError: the call's error goes to the end of its buffer, if it has one.
LEMMA ReturnErrorStep == IInv /\ ReturnError => IInv'
<1> SUFFICES ASSUME IInv, ReturnError PROVE IInv'
  OBVIOUS
<1> USE DEF IInv
<1>1. /\ Return("-1") /\ results' = results
      /\ errmsg' = StrCat(bufferOf[current], PQerrorMessage)
  BY DEF ReturnError, PQclear
<1>2. /\ current \in Calls /\ rc[current] = "none"
      /\ rc' = [rc EXCEPT ![current] = "-1"]
      /\ rc' \in [Calls -> {"none", "0", "-1"}]
      /\ outcome' = [outcome EXCEPT ![current] = Status]
      /\ outcome' \in [Calls -> {"none"} \cup ExecStatuses]
      /\ CallPending' /\ ReplyTrue'
  BY <1>1, Returning
<1>3. applied' = applied /\ bufferOf' = bufferOf /\ current' = NoCall
      /\ UNCHANGED <<object, link, reply>>
  BY <1>1 DEF Return
<1>4. ZeroMeansApplied' /\ LeakIsSuccesses'
  BY <1>1, <1>2, <1>3 DEF ZeroMeansApplied, LeakIsSuccesses, TypeOK
<1>5. /\ Failed' = Failed \cup {current} /\ current \notin Failed
      /\ \A k \in Failed : outcome'[k] = outcome[k]
      /\ outcome'[current] = Status
  BY <1>2 DEF Failed, TypeOK
<1>6. ASSUME NEW b \in Buffers
      PROVE  /\ errmsg'[b] \in Seq(Calls)
             /\ TextsOf(errmsg'[b]) = ToldIn(b)'
             /\ \A i, j \in DOMAIN errmsg'[b] : errmsg'[b][i] = errmsg'[b][j] => i = j
  <2>1. /\ errmsg[b] \in Seq(Calls)
        /\ TextsOf(errmsg[b]) = ToldIn(b)
        /\ \A i, j \in DOMAIN errmsg[b] : errmsg[b][i] = errmsg[b][j] => i = j
    BY DEF ErrorsAccounted, TextsOf, ToldIn, TypeOK
  <2>2. CASE bufferOf[current] = b /\ Status \in ErrorStatuses
    <3>1. errmsg' = [errmsg EXCEPT ![b] = errmsg[b] \o <<current>>]
      BY <1>1, <2>2 DEF StrCat, PQerrorMessage
    <3>2. errmsg'[b] = errmsg[b] \o <<current>>
      BY <3>1 DEF TypeOK
    <3>3. errmsg'[b] = Append(errmsg[b], current)
      BY <1>2, <2>1, <3>2
    <3>4. current \notin TextsOf(errmsg[b])
      BY <1>5, <2>1 DEF ToldIn
    <3>5. ToldIn(b)' = ToldIn(b) \cup {current}
      BY <1>3, <1>5, <2>2 DEF ToldIn
    <3> QED BY <1>2, <2>1, <3>3, <3>4, <3>5, AppendNew
  <2>3. CASE ~(bufferOf[current] = b /\ Status \in ErrorStatuses)
    <3>1. errmsg'[b] = errmsg[b]
      <4>1. CASE bufferOf[current] # b
        BY <1>1, <4>1 DEF StrCat, TypeOK
      <4>2. CASE bufferOf[current] = b /\ Status \notin ErrorStatuses
        <5>1. errmsg' = [errmsg EXCEPT ![b] = errmsg[b] \o << >>]
          BY <1>1, <4>2 DEF StrCat, PQerrorMessage
        <5>2. errmsg'[b] = errmsg[b] \o << >>
          BY <5>1 DEF TypeOK
        <5> QED BY <2>1, <5>2
      <4> QED BY <2>3, <4>1, <4>2
    <3>2. ToldIn(b)' = ToldIn(b)
      BY <1>3, <1>5, <2>3 DEF ToldIn
    <3> QED BY <2>1, <3>1, <3>2
  <2> QED BY <2>2, <2>3
<1>7. ErrorsAccounted'
  BY <1>6 DEF ErrorsAccounted, TextsOf, ToldIn
<1>8. errmsg' \in [Buffers -> Seq(Calls)]
  <2>1. DOMAIN errmsg' = Buffers /\ errmsg' = [x \in DOMAIN errmsg' |-> errmsg'[x]]
    BY <1>1 DEF StrCat, TypeOK
  <2> QED BY <1>6, <2>1
<1>9. TypeOK'
  BY <1>1, <1>2, <1>3, <1>8 DEF TypeOK
<1> QED BY <1>2, <1>4, <1>7, <1>9

\* Every step keeps the invariant.
THEOREM InductiveStep == IInv /\ [Next]_vars => IInv'
<1> SUFFICES ASSUME IInv, [Next]_vars PROVE IInv'
  OBVIOUS
<1> USE DEF IInv, TypeOK, CallPending, ReplyTrue, ZeroMeansApplied, LeakIsSuccesses,
            ErrorsAccounted, Failed
<1>1. CASE Construct
  BY <1>1 DEF Construct, ConnStatuses
<1>2. ASSUME NEW k \in Calls, Exec(k) PROVE IInv'
  BY <1>2 DEF Exec, Reconnect, EffectStatuses
<1>3. ASSUME NEW status \in ExecStatuses, Reply(status) PROVE IInv'
  BY <1>3 DEF Reply, ExecStatuses, EffectStatuses, ErrorStatuses
<1>4. CASE Lose
  BY <1>4 DEF Lose, EffectStatuses
<1>5. CASE ReturnOk
  BY <1>5, ReturnOkStep
<1>6. CASE ReturnError
  BY <1>6, ReturnErrorStep
<1>7. CASE Destroy
  BY <1>7 DEF Destroy
<1>8. CASE UNCHANGED vars
  BY <1>8 DEF vars
<1> QED BY <1>1, <1>2, <1>3, <1>4, <1>5, <1>6, <1>7, <1>8 DEF Next

\* The invariant holds of every behaviour of the object and its callers.
THEOREM Invariance == Spec => []IInv
<1> QED BY InitInvariant, InductiveStep, PTL DEF Spec

\* Type correctness of the object, its callers' buffers and the database.
THEOREM TypeCorrect == Spec => []TypeOK
<1>1. IInv => TypeOK
  BY DEF IInv
<1> QED BY <1>1, Invariance, PTL

\* A return of 0 can be trusted, for any number of calls and buffers and wherever the
\* connection is lost.
THEOREM ZeroTrusted == Spec => []ZeroMeansApplied
<1>1. IInv => ZeroMeansApplied
  BY DEF IInv
<1> QED BY <1>1, Invariance, PTL

\* The error texts in the callers' buffers are those of the failed calls that libpq has a
\* text for, each once.
THEOREM ErrorsKept == Spec => []ErrorsAccounted
<1>1. IInv => ErrorsAccounted
  BY DEF IInv
<1> QED BY <1>1, Invariance, PTL

\* The PGresult objects that leak are exactly those of the successful calls.
THEOREM LeakExact == Spec => []LeakIsSuccesses
<1>1. IInv => LeakIsSuccesses
  BY DEF IInv
<1> QED BY <1>1, Invariance, PTL

\* The connection is lost and call k has not returned 0.
NeverOk(k) == link = "lost" /\ object # "none" /\ rc[k] # "0"

\* No step makes a connection that was lost again, or a call on it return 0.
LEMMA LostStep ==
  ASSUME NEW k \in Calls
  PROVE  IInv /\ NeverOk(k) /\ [Next]_vars => NeverOk(k)'
<1> SUFFICES ASSUME IInv, NeverOk(k), [Next]_vars PROVE NeverOk(k)'
  OBVIOUS
<1> USE DEF NeverOk
<1>1. CASE Construct
  BY <1>1 DEF Construct
<1>2. ASSUME NEW x \in Calls, Exec(x) PROVE NeverOk(k)'
  BY <1>2 DEF Exec, Reconnect
<1>3. ASSUME NEW status \in ExecStatuses, Reply(status) PROVE NeverOk(k)'
  BY <1>3 DEF Reply
<1>4. CASE Lose
  BY <1>4 DEF Lose
<1>5. CASE ReturnOk
  BY <1>5 DEF ReturnOk, Succeeded, Status
<1>6. CASE ReturnError
  BY <1>6 DEF ReturnError, Return, IInv, TypeOK
<1>7. CASE Destroy
  BY <1>7 DEF Destroy
<1>8. CASE UNCHANGED vars
  BY <1>8 DEF vars
<1> QED BY <1>1, <1>2, <1>3, <1>4, <1>5, <1>6, <1>7, <1>8 DEF Next

\* After the connection was lost no call succeeds any more, neither the one in progress
\* nor any later one: nothing makes the connection again.
THEOREM NoRecovery == Spec => LostForGood
<1>1. ASSUME NEW k \in Calls
      PROVE  Spec => [](NeverOk(k) => [](rc[k] # "0"))
  <2>1. IInv /\ NeverOk(k) /\ [Next]_vars => NeverOk(k)'
    BY LostStep
  <2>2. NeverOk(k) => rc[k] # "0"
    BY DEF NeverOk
  <2> QED BY Invariance, <2>1, <2>2, PTL DEF Spec
<1>2. ASSUME NEW k \in Calls
      PROVE  Spec => [](link = "lost" /\ object # "none" /\ rc[k] # "0" => [](rc[k] # "0"))
  BY <1>1 DEF NeverOk
<1> QED BY <1>2 DEF LostForGood
===========================================================================
