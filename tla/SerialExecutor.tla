---------------------------- MODULE SerialExecutor ----------------------------
(***************************************************************************)
(* What the driver event queue promises to its callers: requests run one   *)
(* at a time in the order they were accepted, each exactly once; a caller  *)
(* that waits is given the result of its own request, or gives up before   *)
(* there is one.                                                           *)
(***************************************************************************)
EXTENDS Naturals, Sequences

CONSTANTS Callers, Tickets, Answers, NoTicket, NoAnswer

VARIABLES
    line,      \* the accepted requests that have not started, oldest first
    running,   \* the request that runs now, or NoTicket
    answer,    \* what each request that has run returned
    waiting    \* the request each caller waits for, or NoTicket

svars == <<line, running, answer, waiting>>

InLine(t)    == \E i \in 1..Len(line) : line[i] = t
Awaited(t)   == \E c \in Callers : waiting[c] = t
Fresh(t)     == ~InLine(t) /\ running # t /\ ~Awaited(t)

SInit ==
    /\ line = <<>>
    /\ running = NoTicket
    /\ answer = [t \in Tickets |-> NoAnswer]
    /\ waiting = [c \in Callers |-> NoTicket]

\* A caller submits a request and waits for it or not.
Submit(c, t) ==
    /\ waiting[c] = NoTicket
    /\ Fresh(t)
    /\ line' = Append(line, t)
    /\ waiting' \in {waiting, [waiting EXCEPT ![c] = t]}
    /\ UNCHANGED <<running, answer>>

\* The oldest request starts, when no other one runs.
Start ==
    /\ running = NoTicket
    /\ line # <<>>
    /\ running' = Head(line)
    /\ line' = Tail(line)
    /\ UNCHANGED <<answer, waiting>>

\* The running request ends, with an answer if somebody waits for it; the
\* next one may start at once.
Finish(a) ==
    /\ running # NoTicket
    /\ IF Awaited(running)
          THEN answer' = [answer EXCEPT ![running] = a]
          ELSE UNCHANGED answer
    /\ \/ running' = NoTicket /\ UNCHANGED line
       \/ line # <<>> /\ running' = Head(line) /\ line' = Tail(line)
    /\ UNCHANGED waiting

\* A caller is given the answer to its request, whose ticket is returned.
Answered(c) ==
    /\ waiting[c] # NoTicket
    /\ answer[waiting[c]] # NoAnswer
    /\ answer' = [answer EXCEPT ![waiting[c]] = NoAnswer]
    /\ waiting' = [waiting EXCEPT ![c] = NoTicket]
    /\ UNCHANGED <<line, running>>

\* A caller stops waiting for a request that has no answer yet.
Abandon(c) ==
    /\ waiting[c] # NoTicket
    /\ answer[waiting[c]] = NoAnswer
    /\ waiting' = [waiting EXCEPT ![c] = NoTicket]
    /\ UNCHANGED <<line, running, answer>>

SNext ==
    \/ \E c \in Callers : Answered(c) \/ Abandon(c)
    \/ \E c \in Callers, t \in Tickets : Submit(c, t)
    \/ Start
    \/ \E a \in Answers : Finish(a)

SSpec == SInit /\ [][SNext]_svars

=============================================================================
