--------------------------- MODULE GaussConnector ---------------------------
(***************************************************************************)
(* class GaussConnector (inc/opengauss/GaussConnector.hpp and              *)
(* src/opengauss/GaussConnector.cpp): blocking calls of libpq for one      *)
(* connection.  The database is external: it executes a statement or       *)
(* refuses it, and the connection may be lost at any moment, also between  *)
(* the effect of a statement and the arrival of its result.                *)
(*                                                                         *)
(* A caller makes its calls one after the other and may pass the same      *)
(* errmsgBuffer to several of them.                                        *)
(***************************************************************************)
EXTENDS Naturals, Sequences, FiniteSets

CONSTANTS
  Calls,      \* the calls of insert, update and omit
  Buffers,    \* character arrays callers may pass as errmsgBuffer
  Null,       \* nullptr
  NoCall

ASSUME GaussAssumption == NoCall \notin Calls /\ Null \notin Buffers

\* What a call is given as errmsgBuffer: an array of its caller or, by default, nullptr.
ErrmsgBuffers == Buffers \cup {Null}

VARIABLES
  object,    \* "none", "open", "gone" (destroyed), or "exited" (the process)
  link,      \* the connection: "up" or "lost"
  current,   \* the call that is inside PQexec, or NoCall
  reply,     \* the status the database sends for it, "none" before it has
  applied,   \* calls whose statement took effect in the database
  rc,        \* what each call returned, "none" before that
  outcome,   \* history: the status PQresultStatus gave for each call
  results,   \* PGresult objects that exist, named by their calls
  errmsg,    \* the texts in each buffer, named by the calls they are about
  bufferOf   \* errmsgBuffer of each call

vars == <<object, link, current, reply, applied, rc, outcome, results, errmsg, bufferOf>>

\* A caller's array holds the empty string at first: strcat needs a string.
Init == /\ object = "none"
        /\ link = "lost"
        /\ current = NoCall
        /\ reply = "none"
        /\ applied = {}
        /\ rc = [k \in Calls |-> "none"]
        /\ outcome = [k \in Calls |-> "none"]
        /\ results = {}
        /\ errmsg = [b \in Buffers |-> <<>>]
        /\ bufferOf \in [Calls -> ErrmsgBuffers]
-----------------------------------------------------------------------------
\* What PQstatus says after PQconnectdb, which waits for the connection.
ConnStatuses == {"CONNECTION_OK", "CONNECTION_BAD"}

\* Any other status than CONNECTION_OK ends the process.
Construct ==
  /\ object = "none"
  /\ \E status \in ConnStatuses :
       IF status = "CONNECTION_OK" THEN object' = "open" /\ link' = "up"
                                   ELSE object' = "exited" /\ UNCHANGED link
  /\ UNCHANGED <<current, reply, applied, rc, outcome, results, errmsg, bufferOf>>

\* No call looks at PQstatus, or makes a lost connection again, before it uses it.
Reconnect_PQreset == link' = "up"
Reconnect == UNCHANGED link

\* insert, update and omit differ in nothing but the statement they are given: PQexec
\* sends it and waits.
Exec(k) == /\ object = "open"
           /\ current = NoCall
           /\ rc[k] = "none"
           /\ Reconnect
           /\ current' = k
           /\ reply' = "none"
           /\ UNCHANGED <<object, applied, rc, outcome, results, errmsg, bufferOf>>

\* The status of a statement that took effect: one that returns rows (INSERT ...
\* RETURNING) has another than one that does not.
EffectStatuses == {"COMMAND_OK", "TUPLES_OK"}

\* An answer libpq cannot make sense of, and an error: PQerrorMessage has a text for them.
ErrorStatuses == {"BAD_RESPONSE", "FATAL_ERROR"}

\* The statuses of a command that was answered: also of an empty string, and of a COPY, for
\* which nobody sends or takes the data.
ExecStatuses == EffectStatuses \cup ErrorStatuses
                  \cup {"EMPTY_QUERY", "COPY_OUT", "COPY_IN"}

\* The database executes the statement, or refuses it; behind an answer that makes no
\* sense may be either.
Reply(status) == /\ link = "up"
                 /\ current # NoCall
                 /\ reply = "none"
                 /\ reply' = status
                 /\ \/ /\ status \in EffectStatuses \cup {"BAD_RESPONSE"}
                       /\ applied' = applied \cup {current}
                    \/ status \notin EffectStatuses /\ UNCHANGED applied
                 /\ UNCHANGED <<object, link, current, rc, outcome, results, errmsg, bufferOf>>

\* Server or network fail: a result on its way is lost with the connection.
Lose == /\ object = "open"
        /\ link = "up"
        /\ link' = "lost"
        /\ reply' = "none"
        /\ UNCHANGED <<object, current, applied, rc, outcome, results, errmsg, bufferOf>>

\* PQexec returns: the result the database sent, or an error result of libpq's own.
Answered == link = "lost" \/ reply # "none"
Status == IF link = "lost" THEN "FATAL_ERROR" ELSE reply

Return(code) == /\ current # NoCall
                /\ Answered
                /\ rc' = [rc EXCEPT ![current] = code]
                /\ outcome' = [outcome EXCEPT ![current] = Status]
                /\ current' = NoCall
                /\ UNCHANGED <<object, link, reply, applied, bufferOf>>

Succeeded_Always == TRUE
Succeeded == Status = "COMMAND_OK"

\* The result is not cleared.
ReturnOk == /\ Succeeded
            /\ Return("0")
            /\ results' = results \cup {current}
            /\ UNCHANGED errmsg

\* The text about the call that has just failed, as the sequence of what it is about:
\* an empty string if its status is no error to libpq.
PQerrorMessage == IF Status \in ErrorStatuses THEN <<current>> ELSE <<>>

StrCat_Overwrites(b, text) == IF b = Null THEN errmsg ELSE [errmsg EXCEPT ![b] = text]
StrCat_AfterReset(b, text) == IF b = Null THEN errmsg
                              ELSE [errmsg EXCEPT ![b] = Append(@, NoCall)]

\* strcat appends to what the buffer holds, if there is one.
StrCat(b, text) == IF b = Null THEN errmsg ELSE [errmsg EXCEPT ![b] = @ \o text]

PQclear_Missing == results' = results \cup {current}
PQclear == UNCHANGED results

ReturnError == /\ ~Succeeded
               /\ Return("-1")
               /\ errmsg' = StrCat(bufferOf[current], PQerrorMessage)
               /\ PQclear

\* PQfinish; results that were not cleared stay allocated.
Destroy == /\ object = "open"
           /\ current = NoCall
           /\ object' = "gone"
           /\ link' = "lost"
           /\ UNCHANGED <<current, reply, applied, rc, outcome, results, errmsg, bufferOf>>

Next == \/ Construct
        \/ \E k \in Calls : Exec(k)
        \/ \E status \in ExecStatuses : Reply(status)
        \/ Lose
        \/ ReturnOk \/ ReturnError
        \/ Destroy

Spec == Init /\ [][Next]_vars
-----------------------------------------------------------------------------
Failed == {k \in Calls : rc[k] = "-1"}

\* The variables keep their types.
TypeOK == /\ object \in {"none", "open", "gone", "exited"}
          /\ link \in {"up", "lost"}
          /\ current \in Calls \cup {NoCall}
          /\ reply \in {"none"} \cup ExecStatuses
          /\ applied \subseteq Calls
          /\ rc \in [Calls -> {"none", "0", "-1"}]
          /\ outcome \in [Calls -> {"none"} \cup ExecStatuses]
          /\ results \subseteq Calls
          /\ errmsg \in [Buffers -> Seq(Calls)]
          /\ bufferOf \in [Calls -> ErrmsgBuffers]

\* A return of 0 can be trusted: the statement took effect, wherever the connection
\* was lost before or after.
ZeroMeansApplied == \A k \in Calls : rc[k] = "0" => k \in applied

\* A buffer holds the texts of the failed calls that were given it and that libpq has a
\* text for, once each: none is lost when calls share a buffer or the connection goes, and
\* none is left by a call that succeeded or that failed with a status that is no error.
ErrorsAccounted ==
  \A b \in Buffers :
    /\ {errmsg[b][i] : i \in DOMAIN errmsg[b]}
         = {k \in Failed : bufferOf[k] = b /\ outcome[k] \in ErrorStatuses}
    /\ \A i, j \in DOMAIN errmsg[b] : errmsg[b][i] = errmsg[b][j] => i = j

\* The results that leak are those of the successful calls, and only those: they
\* are never cleared, also not by the destructor.
LeakIsSuccesses == results = {k \in Calls : rc[k] = "0"}

\* Once the connection was lost, no call that has not returned yet will ever return 0,
\* the one inside PQexec and all that are still to be made: nothing makes the connection
\* again, for as long as the object lives.
LostForGood ==
  \A k \in Calls : [](link = "lost" /\ object # "none" /\ rc[k] # "0" => [](rc[k] # "0"))

\* inc/opengauss/GaussConnector.hpp:20, "returns 0 for a successful insert, -1 for a
\* failed one": a statement reported as failed did not take effect.
FailureMeansNotApplied == Failed \cap applied = {}

\* inc/opengauss/GaussConnector.hpp:18, "on failure, if this parameter points to an
\* allocated char array, the error information is saved in it": each failed call that was
\* given a buffer has left a text there.
FailureIsExplained ==
  \A k \in Failed : bufferOf[k] # Null => \E i \in DOMAIN errmsg[bufferOf[k]] :
                                            errmsg[bufferOf[k]][i] = k
=============================================================================
