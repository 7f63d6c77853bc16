----------------------------- MODULE ChatClient -----------------------------
(***************************************************************************)
(* apps/client.cpp, the terminal client, composed with the server of       *)
(* module Reactor: every client of the server is now a process that runs   *)
(* this program.  It sends a line, reads until recv() returns 0, prints    *)
(* what it read and starts again, on the same connection.                  *)
(*                                                                         *)
(* The server answers once and closes.  The client sees the end of the     *)
(* stream or, when the server closed with bytes of it unread, a reset;     *)
(* lines it sends after that are lost, and provoke a reset themselves.     *)
(***************************************************************************)
EXTENDS Reactor

CONSTANTS
  ClientBufLen,   \* BUFFER_LENGTH of apps/client.cpp
  MaxLines,       \* bound: the user of c types MaxLines[c] lines
  MaxSent         \* bound: the bytes c sends

\* A client sends strlen() bytes of its buffer, so that none of them is '\0'.
ASSUME ClientAssumption == /\ ClientBufLen \in Nat \ {0}
                           /\ MaxLines \in [Clients -> Nat]
                           /\ MaxSent \in [Clients -> 0..MaxBytes]
                           /\ NulAt = [c \in Clients |-> 0]

\* The process of each client, a record of
\*   phase    "start", "input" (in fgets), "recv", or how it ended: "exit" (errif),
\*            "quit" (by its user) or "sigpipe"
\*   sock     "ok", "reset" (error pending), "reported" (the reset, to the program) or
\*            "poked" (reset by a line sent after the end of the stream)
\*   first    how its first fgets ended: "none" (not yet), "typed" (with a line) or "eof"
\*   line1, outN, gotN   the length of what it sent first, the bytes sent, and received
\*   buffer, rlen        the variables of main(), buffer up to its first '\0'
\*   printed  what it printed for each line
VARIABLE proc

allVars == <<vars, proc>>

\* What the buffer holds before anything is stored in it.
Unwritten == <<Garbage>>

CInit == /\ Init
         /\ proc = [c \in Clients |->
                      [phase |-> "start", sock |-> "ok", first |-> "none", line1 |-> 0, outN |-> 0,
                       gotN |-> 0, buffer |-> Unwritten, rlen |-> 0, printed |-> <<>>]]
-----------------------------------------------------------------------------
(* The server's process and the network. *)

\* The server is stopped or crashes: the kernel closes its descriptors.
ServerStops == /\ server \in {"listening", "up"}
               /\ server' = "failed"
               /\ UNCHANGED <<tcpVars, epollVars, conn, openFds, batch, cur, loop, proc>>

\* The server's end of the connection is closed: by sendCallback or with the process.
Closed(c) == link[c] = "closed" \/ (Ended /\ link[c] # "idle")

\* It was closed with a reset: never accepted, or with bytes unread.
ClosedHard(c) == Closed(c) /\ (link[c] = "queued" \/ Unread(c) > 0)

\* What the client has sent reaches the server, and so does the end of its process.
BytesArrive(c) == /\ sentN[c] < proc[c].outN
                  /\ Arrival(c)
                  /\ sentN'[c] = sentN[c] + 1
                  /\ UNCHANGED proc

Hangup(c) == /\ proc[c].phase \in {"quit", "sigpipe"}
             /\ sentN[c] = proc[c].outN
             /\ Arrival(c)
             /\ peer'[c] = "fin"
             /\ UNCHANGED proc

\* A reset comes back: the server's own, or the answer to bytes that found it closed.
ResetArrives(c) == /\ proc[c].phase \in {"input", "recv"}
                   /\ proc[c].sock = "ok"
                   /\ Closed(c)
                   /\ ClosedHard(c) \/ proc[c].outN > sentN[c]
                   /\ proc' = [proc EXCEPT ![c].sock = IF ClosedHard(c) THEN "reset" ELSE "poked"]
                   /\ UNCHANGED vars
-----------------------------------------------------------------------------
(* main() *)

\* connect(): to a listening server, or errif exits.
ConnectOk(c) == /\ proc[c].phase = "start"
                /\ Connect(c)
                /\ proc' = [proc EXCEPT ![c].phase = "input"]

ConnectFails(c) == /\ proc[c].phase = "start"
                   /\ server \notin {"listening", "up"}
                   /\ proc' = [proc EXCEPT ![c].phase = "exit"]
                   /\ UNCHANGED vars

MaxLine_Full == ClientBufLen
MaxLine == ClientBufLen - 1   \* fgets(buffer, BUFFER_LENGTH, stdin)

Length_WithNul(n) == n + 1
Length(n) == n                \* strlen(buffer)

Bzeroed_Not(buf) == buf
Bzeroed(buf) == <<>>

\* send() of the n bytes of the buffer, which then holds buf; `how` is how fgets ended.
\* A pending error makes send() return -1, which clears it.
Send(c, how, buf, n) ==
  /\ proc[c].phase = "input"
  /\ proc[c].sock \in {"ok", "reset"}
  /\ proc[c].outN + n <= MaxSent[c]   \* bound
  /\ proc' = [proc EXCEPT
       ![c].phase = "recv",
       ![c].sock = IF @ = "reset" THEN "reported" ELSE @,
       ![c].outN = IF proc[c].sock = "ok" THEN @ + Length(n) ELSE @,
       ![c].line1 = IF proc[c].printed = <<>> THEN n ELSE @,
       ![c].first = IF proc[c].printed = <<>> THEN how ELSE @,
       ![c].rlen = 0,
       ![c].buffer = Bzeroed(buf)]
  /\ UNCHANGED vars

\* fgets stores the line: no bytes when it starts with '\0'.
SendLine(c, n) == Send(c, "typed", [i \in 1..n |-> proc[c].outN + i], n)

\* At the end of input fgets leaves the buffer as it is.  What strlen() then finds is
\* anything if nobody has written to it, and lies beyond it if it is full.
OldLengths(buf) == IF buf = Unwritten THEN 0..MaxBytes   \* bound
                   ELSE IF Len(buf) < ClientBufLen THEN {Len(buf)}
                   ELSE ClientBufLen..MaxBytes           \* bound

SendOld(c) == \E n \in OldLengths(proc[c].buffer) : Send(c, "eof", proc[c].buffer, n)

\* send() on a connection known to be broken: SIGPIPE, also for no bytes.
ClientKilled(c) == /\ proc[c].phase = "input"
                   /\ proc[c].sock \in {"reported", "poked"}
                   /\ proc' = [proc EXCEPT ![c].phase = "sigpipe"]
                   /\ UNCHANGED vars

\* A buffer after the bytes s are stored from index `at` on.
Stored(buf, at, s) == SubSeq(buf, 1, at) \o s \o SubSeq(buf, at + Len(s) + 1, Len(buf))

\* recv() returns the next k bytes of the answer: all there is room for, or fewer when
\* the rest is still on its way.
RecvData(c, k) == /\ proc[c].phase = "recv"
                  /\ proc[c].sock # "reported"
                  /\ k <= Len(echoed[c]) - proc[c].gotN
                  /\ k <= ClientBufLen - proc[c].rlen
                  /\ proc' = [proc EXCEPT
                       ![c].buffer = Stored(@, proc[c].rlen,
                                            SubSeq(echoed[c], proc[c].gotN + 1, proc[c].gotN + k)),
                       ![c].gotN = @ + k,
                       ![c].rlen = @ + k]
                  /\ UNCHANGED vars

\* ECONNRESET: the loop goes on with rlen + (-1).
RecvFails(c) == /\ proc[c].phase = "recv"
                /\ proc[c].sock = "reset"
                /\ proc' = [proc EXCEPT ![c].sock = "reported", ![c].rlen = @ - 1]
                /\ UNCHANGED vars

\* recv() returns 0: the end of the stream, or no room in the buffer.
EndOfStream(c) == \/ proc[c].sock = "reported"
                  \/ Closed(c) /\ ~ClosedHard(c) /\ proc[c].gotN = Len(echoed[c])

Breaks_NonBlocking(c) == TRUE
Breaks_WhenFull(c) == proc[c].rlen = ClientBufLen
Breaks(c) == EndOfStream(c) \/ proc[c].rlen = ClientBufLen

RecvDone(c) == /\ proc[c].phase = "recv"
               /\ Breaks(c)
               /\ proc' = [proc EXCEPT ![c].phase = "input",
                                       ![c].printed = Append(@, proc[c].buffer)]
               /\ UNCHANGED vars

\* The user ends the program: the one way out of its loop but SIGPIPE.
Interrupt(c) == /\ proc[c].phase \in {"input", "recv"}
                /\ proc' = [proc EXCEPT ![c].phase = "quit"]
                /\ UNCHANGED vars
-----------------------------------------------------------------------------
UserStep(c) == \/ ConnectOk(c) \/ ConnectFails(c) \/ Interrupt(c)
               \/ /\ Len(proc[c].printed) < MaxLines[c]   \* bound
                  /\ ClientKilled(c) \/ SendOld(c) \/ \E n \in 0..MaxLine : SendLine(c, n)

\* What the thread of the client does by itself once a line is typed.
ClientStep(c) == \/ \E k \in 1..ClientBufLen : RecvData(c, k)
                 \/ RecvFails(c) \/ RecvDone(c)

NetworkStep(c) == BytesArrive(c) \/ Hangup(c) \/ ResetArrives(c)

CNext == \/ ServerStep /\ UNCHANGED proc
         \/ ServerStops
         \/ \E c \in Clients : UserStep(c) \/ ClientStep(c) \/ NetworkStep(c)

CSpec == CInit /\ [][CNext]_allVars

\* Both programs' threads are scheduled and the network delivers; users owe nothing.
CFairSpec == /\ CSpec
             /\ WF_allVars(ServerStep /\ UNCHANGED proc)
             /\ \A c \in Clients : /\ WF_allVars(ClientStep(c))
                                   /\ WF_allVars(BytesArrive(c))
                                   /\ WF_allVars(ResetArrives(c))
-----------------------------------------------------------------------------
(* Correctness. *)

Processes == [phase : {"start", "input", "recv", "exit", "quit", "sigpipe"},
              sock : {"ok", "reset", "reported", "poked"},
              first : {"none", "typed", "eof"},
              line1 : 0..MaxBytes, outN : 0..MaxBytes, gotN : 0..MaxBytes,
              buffer : Seq(1..MaxBytes) \cup {Unwritten}, rlen : -1..ClientBufLen,
              printed : Seq(Seq(1..MaxBytes))]

\* The client's variables keep their types; rlen is -1 after a reset.
CTypeOK == proc \in [Clients -> Processes]

\* printf("%s", buffer) finds a terminating '\0' in the client of a user who types: the
\* answer never fills the buffer, as the server can only have read one line when it
\* answers.  (A client whose input ends at once may send more than any line holds.)
AnswerFits ==
  \A c \in Clients : proc[c].first = "typed" => Len(proc[c].buffer) < ClientBufLen

\* Only what a client sends first reaches the server: what it sends later meets a closed
\* connection, since it waits for the answer, or for the end of the stream, in between.
OnlyFirstLineArrives == \A c \in Clients : sentN[c] <= proc[c].line1

\* What a client prints after its first line are its own first bytes in order, no more
\* than it sent first, and the whole answer unless a reset cut it off or it is longer
\* than the buffer; but for the rest of such an answer it prints nothing after later
\* lines, neither an old answer nor its own line.
AnswerPrintedOnce ==
  \A c \in Clients : \A i \in DOMAIN proc[c].printed :
    LET n   == Len(proc[c].printed[i])
        fit == Len(echoed[c]) <= ClientBufLen
    IN  IF i = 1 THEN /\ proc[c].printed[1] = [k \in 1..n |-> k]
                      /\ n <= proc[c].line1
                      /\ fit /\ ~ClosedHard(c) => n = Len(echoed[c])
                 ELSE fit => n = 0

\* A client that has sent something to a server that has accepted it does not wait
\* for ever: it prints, unless its user stops it.
SenderIsAnswered ==
  \A c \in Clients : (proc[c].phase = "recv" /\ proc[c].outN > 0 /\ link[c] # "queued")
                       ~> proc[c].phase # "recv"
=============================================================================
