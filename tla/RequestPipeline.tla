---------------------------- MODULE RequestPipeline ----------------------------
(***************************************************************************)
(* The path of a request through the server: a connection goroutine        *)
(* (network/server.go) reads it, sends it on the channel Requests and      *)
(* waits for the answer on the request's own channel RespChan; the         *)
(* dispatcher (transaction/manager.go) takes it from Requests, takes a     *)
(* token of the semaphore and starts a handler goroutine; the handler      *)
(* runs the operation, offers the answer and gives the token back.         *)
(*                                                                         *)
(* RespChan is unbuffered and the handler's send is a select with a        *)
(* default: it succeeds only if the connection goroutine has reached its   *)
(* receive, and drops the answer otherwise.  A request is the pair of a    *)
(* connection and the number of the request on it; what the operation does *)
(* to the storage is the subject of the other modules.                     *)
(***************************************************************************)
EXTENDS Naturals, Sequences, FiniteSets

CONSTANTS
    Conn,        \* connections
    QueueCap,    \* capacity of Requests (100 in the code)
    MaxWorkers,  \* capacity of the semaphore (100 in the code)
    MaxReq       \* bound of the model on the requests sent on each connection

ASSUME CapacityAssumption ==
    QueueCap \in Nat \ {0} /\ MaxWorkers \in Nat \ {0} /\ MaxReq \in [Conn -> Nat]

VARIABLES
    client,   \* what the client of a connection does
    wire,     \* the message the connection has still to read, if any
    cur,      \* number of the last request sent on a connection
    conn,     \* where the connection goroutine is
    reply,    \* the answer the connection goroutine has received
    requests, \* the channel Requests
    held,     \* the requests (at most one) the dispatcher has taken
    tokens,   \* tokens taken from the semaphore
    running,  \* requests a handler goroutine works on
    done      \* requests whose handler has offered the answer

vars == <<client, wire, cur, conn, reply, requests, held, tokens, running, done>>

Request == [conn : Conn, n : Nat \ {0}]
Current(c) == [conn |-> c, n |-> cur[c]]

Init ==
    /\ client = [c \in Conn |-> "idle"]
    /\ wire = [c \in Conn |-> "none"]
    /\ cur = [c \in Conn |-> 0]
    /\ conn = [c \in Conn |-> "reading"]
    /\ reply = [c \in Conn |-> 0]
    /\ requests = << >> /\ held = {} /\ tokens = 0 /\ running = {} /\ done = {}

-------------------------------------------------------------------------------
(***************************************************************************)
(* The client sends a request and waits for the answer, or goes away.      *)
(* Kind "op" is a request the server can decode and map to an operation,   *)
(* kind "bad" one that does not unmarshal or names no operation.           *)
(***************************************************************************)
ClientSend(c, kind) ==
    /\ client[c] = "idle" /\ cur[c] < MaxReq[c]
    /\ client' = [client EXCEPT ![c] = "waiting"]
    /\ wire' = [wire EXCEPT ![c] = kind]
    /\ cur' = [cur EXCEPT ![c] = @ + 1]
    /\ UNCHANGED <<conn, reply, requests, held, tokens, running, done>>

ClientClose(c) ==
    /\ client[c] # "gone"
    /\ client' = [client EXCEPT ![c] = "gone"]
    /\ UNCHANGED <<wire, cur, conn, reply, requests, held, tokens, running, done>>

-------------------------------------------------------------------------------
(***************************************************************************)
(* handleConnection.                                                       *)
(***************************************************************************)
ReadRequest(c) ==
    /\ conn[c] = "reading" /\ wire[c] = "op"
    /\ wire' = [wire EXCEPT ![c] = "none"]
    /\ conn' = [conn EXCEPT ![c] = "sending"]
    /\ UNCHANGED <<client, cur, reply, requests, held, tokens, running, done>>

\* The loop continues with the next message and sends no answer.
SkipRequest(c) ==
    /\ conn[c] = "reading" /\ wire[c] = "bad"
    /\ wire' = [wire EXCEPT ![c] = "none"]
    /\ UNCHANGED <<client, cur, conn, reply, requests, held, tokens, running, done>>

ReadEOF(c) ==
    /\ conn[c] = "reading" /\ wire[c] = "none" /\ client[c] = "gone"
    /\ conn' = [conn EXCEPT ![c] = "closed"]
    /\ UNCHANGED <<client, wire, cur, reply, requests, held, tokens, running, done>>

SendToTxManager(c) ==
    /\ conn[c] = "sending" /\ Len(requests) < QueueCap
    /\ requests' = Append(requests, Current(c))
    /\ conn' = [conn EXCEPT ![c] = "sent"]
    /\ UNCHANGED <<client, wire, cur, reply, held, tokens, running, done>>

Mut_WaitForResponse(c) ==
    /\ conn[c] = "sent"
    /\ \E s \in {"waiting", "reading"} : conn' = [conn EXCEPT ![c] = s]
    /\ UNCHANGED <<client, wire, cur, reply, requests, held, tokens, running, done>>

WaitForResponse(c) ==
    /\ conn[c] = "sent"
    /\ conn' = [conn EXCEPT ![c] = "waiting"]
    /\ UNCHANGED <<client, wire, cur, reply, requests, held, tokens, running, done>>

\* The answer goes to the client, if it is still there.
WriteResponse(c) ==
    /\ conn[c] = "writing"
    /\ client' = [client EXCEPT ![c] = IF @ = "waiting" THEN "idle" ELSE @]
    /\ conn' = [conn EXCEPT ![c] = "reading"]
    /\ UNCHANGED <<wire, cur, reply, requests, held, tokens, running, done>>

\* Marshal or a write to the connection fails, and the connection is closed.
WriteFails(c) ==
    /\ conn[c] = "writing"
    /\ conn' = [conn EXCEPT ![c] = "closed"]
    /\ UNCHANGED <<client, wire, cur, reply, requests, held, tokens, running, done>>

-------------------------------------------------------------------------------
(***************************************************************************)
(* dispatch and handle.                                                    *)
(***************************************************************************)
DispatchReceive ==
    /\ held = {} /\ requests # << >>
    /\ held' = {Head(requests)}
    /\ requests' = Tail(requests)
    /\ UNCHANGED <<client, wire, cur, conn, reply, tokens, running, done>>

DispatchStart ==
    /\ held # {} /\ tokens < MaxWorkers
    /\ tokens' = tokens + 1
    /\ running' = running \cup held
    /\ held' = {}
    /\ UNCHANGED <<client, wire, cur, conn, reply, requests, done>>

\* The connection goroutine is at its receive on the RespChan of this request.
Receives(r) == conn[r.conn] = "waiting" /\ r = Current(r.conn)

\* handle has run the operation, or has recovered from a panic in it, and the
\* connection goroutine receives the answer.
Respond(r) ==
    /\ r \in running /\ Receives(r)
    /\ conn' = [conn EXCEPT ![r.conn] = "writing"]
    /\ reply' = [reply EXCEPT ![r.conn] = r.n]
    /\ running' = running \ {r} /\ done' = done \cup {r}
    /\ UNCHANGED <<client, wire, cur, requests, held, tokens>>

\* The default branch of the select: nobody receives and the answer is dropped.
DropResponse(r) ==
    /\ r \in running /\ ~Receives(r)
    /\ running' = running \ {r} /\ done' = done \cup {r}
    /\ UNCHANGED <<client, wire, cur, conn, reply, requests, held, tokens>>

Mut_Release(r) ==
    /\ r \in done
    /\ done' = done \ {r}
    /\ UNCHANGED <<client, wire, cur, conn, reply, requests, held, tokens, running>>

\* The deferred receive from the semaphore, run even after a panic.
Release(r) ==
    /\ r \in done
    /\ done' = done \ {r}
    /\ tokens' = tokens - 1
    /\ UNCHANGED <<client, wire, cur, conn, reply, requests, held, running>>

-------------------------------------------------------------------------------
ConnectionStep(c) ==
    \/ ReadRequest(c) \/ SkipRequest(c) \/ ReadEOF(c)
    \/ SendToTxManager(c) \/ WaitForResponse(c) \/ WriteResponse(c) \/ WriteFails(c)

Next ==
    \/ \E c \in Conn : \/ \E kind \in {"op", "bad"} : ClientSend(c, kind)
                       \/ ClientClose(c)
                       \/ ConnectionStep(c)
    \/ DispatchReceive \/ DispatchStart
    \/ \E r \in running : Respond(r) \/ DropResponse(r)
    \/ \E r \in done : Release(r)

Spec == Init /\ [][Next]_vars

(***************************************************************************)
(* The Go scheduler runs every goroutine that can run, and an operation    *)
(* ends; nothing is assumed of the clients.  A sender blocked on a full    *)
(* channel is served in turn, and the number of requests is bounded, so    *)
(* weak fairness is enough.                                                *)
(***************************************************************************)
Fairness ==
    /\ \A c \in Conn : WF_vars(ConnectionStep(c))
    /\ WF_vars(DispatchReceive) /\ WF_vars(DispatchStart)
    /\ WF_vars(\E r \in running : Respond(r) \/ DropResponse(r))
    /\ WF_vars(\E r \in done : Release(r))

FairSpec == Spec /\ Fairness

-------------------------------------------------------------------------------
(***************************************************************************)
(* Properties.                                                             *)
(***************************************************************************)
\* Every variable has the type of what it stands for, and the channel Requests
\* never holds more than its capacity.
TypeOK ==
    /\ client \in [Conn -> {"idle", "waiting", "gone"}]
    /\ wire \in [Conn -> {"none", "op", "bad"}]
    /\ cur \in [Conn -> Nat]
    /\ conn \in [Conn -> {"reading", "sending", "sent", "waiting", "writing", "closed"}]
    /\ reply \in [Conn -> Nat]
    /\ requests \in Seq(Request) /\ Len(requests) <= QueueCap
    /\ held \in SUBSET Request
    /\ tokens \in Nat
    /\ running \in SUBSET Request /\ done \in SUBSET Request

\* Requests the transaction manager has accepted and not answered.
Accepted == {requests[i] : i \in 1 .. Len(requests)} \cup held \cup running

\* Answers never cross: a request in the transaction manager is the last one of
\* its connection and the connection goroutine stands between its send and its
\* receive, and the answer it writes is the one to the client's last request.
AnswersMatch ==
    /\ \A r \in Accepted : r = Current(r.conn) /\ conn[r.conn] \in {"sent", "waiting"}
    /\ \A c \in Conn : conn[c] = "writing" => reply[c] = cur[c]

\* "This prevents spawning unlimited goroutines under heavy load": the tokens
\* taken are the handler goroutines alive, through answers, drops and panics,
\* and there are never more of them than the semaphore holds.
HandlersBounded ==
    /\ tokens = Cardinality(running) + Cardinality(done)
    /\ tokens <= MaxWorkers

\* No connection blocks another: whatever a connection sends to the transaction
\* manager is handled, also while other connections wait for lost answers.
RequestsHandled ==
    \A c \in Conn : (conn[c] = "sending" \/ Current(c) \in Accepted)
                        ~> (conn[c] # "sending" /\ Current(c) \notin Accepted)

\* docs/low_level_design.md: "TxManager: Sends Success to RespChan. Network:
\* Reads RespChan": the connection goroutine receives an answer to each request.
ResponseReceived == \A c \in Conn : conn[c] = "sending" ~> conn[c] = "writing"
===============================================================================
