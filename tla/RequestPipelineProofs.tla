------------------------ MODULE RequestPipelineProofs ------------------------
(***************************************************************************)
(* The safety of the request pipeline for any connections and capacities:  *)
(* answers do not cross, and the semaphore counts the handlers.            *)
(***************************************************************************)
EXTENDS RequestPipeline, FiniteSetTheorems, TLAPS

(* A leaf is tried with Zenon, then with the SMT solver. *)
USE ZenonT(5), SMTT(30)

(* The requests in the channel.                                            *)
Queued == {requests[i] : i \in 1 .. Len(requests)}

(* Every request that has not yet given its token back.                    *)
Known == Queued \cup held \cup running \cup done

(* A client sends only when the connection goroutine is back at its read,  *)
(* and one that has read a message has left nothing behind it.             *)
Turns ==
  \A c \in Conn :
    /\ client[c] = "idle" => conn[c] = "reading" /\ wire[c] = "none"
    /\ conn[c] # "reading" => wire[c] = "none"

(* A request still on its way to the channel is not in the transaction     *)
(* manager yet, and no request has a number that was not given.            *)
Fresh ==
  /\ \A r \in Known : r.n <= cur[r.conn]
  /\ \A c \in Conn : wire[c] # "none" \/ conn[c] = "sending"
       => cur[c] # 0 /\ Current(c) \notin Known

(* A request is in one place only.                                         *)
OnePlace ==
  /\ \A i, j \in 1 .. Len(requests) : requests[i] = requests[j] => i = j
  /\ \A r, s \in held : r = s
  /\ Queued \cap (held \cup running \cup done) = {}
  /\ held \cap (running \cup done) = {}
  /\ running \cap done = {}

(* The inductive invariant.                                                *)
PipelineInv ==
  /\ TypeOK /\ Turns /\ Fresh /\ OnePlace /\ AnswersMatch
  /\ IsFiniteSet(running) /\ IsFiniteSet(done) /\ HandlersBounded

(* The invariant holds before the first client connects.                   *)
LEMMA InitInv == Init => PipelineInv
<1> SUFFICES ASSUME Init PROVE PipelineInv
  OBVIOUS
<1> USE DEF Init
<1>1. TypeOK
  BY CapacityAssumption DEF TypeOK
<1>2. Known = {} /\ Accepted = {}
  BY DEF Known, Queued, Accepted
<1>3. Turns /\ Fresh /\ OnePlace /\ AnswersMatch
  BY <1>2 DEF Turns, Fresh, OnePlace, AnswersMatch, Queued
<1>4. IsFiniteSet({}) /\ Cardinality({}) = 0
  BY FS_EmptySet
<1> QED  BY <1>1, <1>3, <1>4, CapacityAssumption DEF PipelineInv, HandlersBounded

(* Steps of clients and connection goroutines that leave the transaction   *)
(* manager alone.                                                          *)
LEMMA OutsideStep ==
  ASSUME PipelineInv, NEW c \in Conn,
         \/ \E kind \in {"op", "bad"} : ClientSend(c, kind)
         \/ ClientClose(c) \/ ReadRequest(c) \/ SkipRequest(c) \/ ReadEOF(c)
         \/ WaitForResponse(c) \/ WriteResponse(c) \/ WriteFails(c)
  PROVE  PipelineInv'
<1> USE DEF PipelineInv
<1>1. UNCHANGED <<requests, held, tokens, running, done>>
  BY DEF ClientSend, ClientClose, ReadRequest, SkipRequest, ReadEOF,
         WaitForResponse, WriteResponse, WriteFails
<1>2. Known' = Known /\ Queued' = Queued /\ Accepted' = Accepted
  BY <1>1 DEF Known, Queued, Accepted
<1>3. /\ OnePlace' /\ HandlersBounded'
      /\ IsFiniteSet(running)' /\ IsFiniteSet(done)'
  BY <1>1, <1>2 DEF OnePlace, HandlersBounded
<1>4. Known \subseteq Request /\ Accepted \subseteq Known
  BY DEF TypeOK, Known, Queued, Accepted
<1> SUFFICES TypeOK' /\ Turns' /\ Fresh' /\ AnswersMatch'
  BY <1>3
<1>5. CASE \E kind \in {"op", "bad"} : ClientSend(c, kind)
  <2>1. PICK kind \in {"op", "bad"} : ClientSend(c, kind)
    BY <1>5
  <2>2. /\ conn[c] = "reading" /\ wire[c] = "none"
        /\ cur[c] \in Nat /\ cur'[c] = cur[c] + 1 /\ cur' \in [Conn -> Nat]
        /\ \A d \in Conn \ {c} : cur'[d] = cur[d] /\ wire'[d] = wire[d]
                                 /\ client'[d] = client[d]
        /\ client'[c] = "waiting" /\ conn' = conn /\ reply' = reply
    BY <2>1 DEF ClientSend, TypeOK, Turns
  <2>3. TypeOK'
    BY <1>1, <2>1, <2>2 DEF ClientSend, TypeOK
  <2>4. Turns'
    BY <2>2 DEF Turns
  <2>5. Fresh'
    <3>1. \A r \in Known : r.conn \in Conn /\ r.n \in Nat /\ r.n <= cur'[r.conn]
      <4>1. \A r \in Known : r.conn \in Conn /\ r.n \in Nat /\ r.n <= cur[r.conn]
        BY <1>4 DEF Fresh, Request
      <4>2. \A d \in Conn : cur[d] \in Nat /\ cur'[d] \in Nat /\ cur[d] <= cur'[d]
        <5>1. cur \in [Conn -> Nat]
          BY DEF TypeOK
        <5>2. \A d \in Conn : cur'[d] = cur[d] \/ cur'[d] = cur[d] + 1
          BY <2>2
        <5> QED  BY <5>1, <5>2
      <4> QED  BY <4>1, <4>2
    <3>2. Current(c)' \notin Known
      BY <2>2 DEF Current, Fresh
    <3> QED  BY <1>2, <2>2, <3>1, <3>2 DEF Fresh, Current
  <2>6. AnswersMatch'
    <3>1. \A r \in Accepted : r.conn # c /\ r.conn \in Conn
      BY <1>4, <2>2 DEF AnswersMatch, Request
    <3> QED  BY <1>2, <2>2, <3>1 DEF AnswersMatch, Current
  <2> QED  BY <2>3, <2>4, <2>5, <2>6
<1>6. CASE ClientClose(c)
  BY <1>2, <1>4, <1>6 DEF ClientClose, TypeOK, Turns, Fresh, AnswersMatch, Current
<1>7. CASE ReadRequest(c)
  <2>1. TypeOK' /\ Turns'
    BY <1>7 DEF ReadRequest, TypeOK, Turns
  <2>2. Fresh'
    BY <1>2, <1>7 DEF ReadRequest, TypeOK, Fresh, Current
  <2>3. AnswersMatch'
    BY <1>2, <1>4, <1>7 DEF ReadRequest, TypeOK, AnswersMatch, Current, Request
  <2> QED  BY <2>1, <2>2, <2>3
<1>8. CASE SkipRequest(c)
  BY <1>2, <1>4, <1>8 DEF SkipRequest, TypeOK, Turns, Fresh, AnswersMatch, Current
<1>9. CASE ReadEOF(c)
  <2>1. TypeOK' /\ Turns'
    BY <1>9 DEF ReadEOF, TypeOK, Turns
  <2>2. Fresh'
    BY <1>2, <1>9 DEF ReadEOF, TypeOK, Fresh, Current
  <2>3. AnswersMatch'
    BY <1>2, <1>4, <1>9 DEF ReadEOF, TypeOK, AnswersMatch, Current, Request
  <2> QED  BY <2>1, <2>2, <2>3
<1>10. CASE WaitForResponse(c)
  <2>1. TypeOK' /\ Turns'
    BY <1>10 DEF WaitForResponse, TypeOK, Turns
  <2>2. Fresh'
    BY <1>2, <1>10 DEF WaitForResponse, TypeOK, Fresh, Current
  <2>3. AnswersMatch'
    BY <1>2, <1>4, <1>10 DEF WaitForResponse, TypeOK, AnswersMatch, Current, Request
  <2> QED  BY <2>1, <2>2, <2>3
<1>11. CASE WriteResponse(c)
  <2>1. TypeOK' /\ Turns'
    BY <1>11 DEF WriteResponse, TypeOK, Turns
  <2>2. Fresh'
    BY <1>2, <1>11 DEF WriteResponse, TypeOK, Fresh, Current
  <2>3. AnswersMatch'
    BY <1>2, <1>4, <1>11 DEF WriteResponse, TypeOK, AnswersMatch, Current, Request
  <2> QED  BY <2>1, <2>2, <2>3
<1>12. CASE WriteFails(c)
  <2>1. TypeOK' /\ Turns'
    BY <1>12 DEF WriteFails, TypeOK, Turns
  <2>2. Fresh'
    BY <1>2, <1>12 DEF WriteFails, TypeOK, Fresh, Current
  <2>3. AnswersMatch'
    BY <1>2, <1>4, <1>12 DEF WriteFails, TypeOK, AnswersMatch, Current, Request
  <2> QED  BY <2>1, <2>2, <2>3
<1> QED  BY <1>5, <1>6, <1>7, <1>8, <1>9, <1>10, <1>11, <1>12

(* What the dispatcher and the handlers need of the types.                 *)
LEMMA Places ==
  ASSUME TypeOK
  PROVE  /\ Len(requests) \in Nat /\ tokens \in Nat
         /\ Queued \subseteq Request /\ Known \subseteq Request
         /\ Accepted = Queued \cup held \cup running
         /\ \A r \in Request : r.conn \in Conn /\ r.n \in Nat
<1>1. Len(requests) \in Nat /\ tokens \in Nat /\ Queued \subseteq Request
  BY DEF TypeOK, Queued
<1>2. Known \subseteq Request
  BY <1>1 DEF TypeOK, Known
<1>3. Accepted = Queued \cup held \cup running
  BY DEF Queued, Accepted
<1>4. \A r \in Request : r.conn \in Conn /\ r.n \in Nat
  BY DEF Request
<1> QED  BY <1>1, <1>2, <1>3, <1>4

(* The request of a connection enters the channel Requests.                *)
LEMMA SendStep ==
  ASSUME PipelineInv, NEW c \in Conn, SendToTxManager(c)
  PROVE  PipelineInv'
<1> USE DEF PipelineInv
<1>1. /\ conn[c] = "sending" /\ requests' = Append(requests, Current(c))
      /\ conn'[c] = "sent" /\ \A d \in Conn \ {c} : conn'[d] = conn[d]
      /\ UNCHANGED <<client, wire, cur, reply, held, tokens, running, done>>
      /\ Len(requests) < QueueCap
  BY DEF SendToTxManager, TypeOK
<1>2. Current(c) \in Request /\ Current(c) \notin Known /\ Current(c)' = Current(c)
  BY <1>1 DEF Fresh, Current, Request, TypeOK
<1>3. /\ requests' \in Seq(Request) /\ Len(requests') = Len(requests) + 1
      /\ \A i \in 1 .. Len(requests) : requests'[i] = requests[i]
      /\ requests'[Len(requests) + 1] = Current(c)
  BY <1>1, <1>2 DEF TypeOK
<1>4. \A i \in 1 .. Len(requests) + 1 : i \in 1 .. Len(requests) \/ i = Len(requests) + 1
  BY Places
<1>5. Queued' = Queued \cup {Current(c)}
  BY <1>3, <1>4, Places DEF Queued
<1>6. /\ Known' = Known \cup {Current(c)}
      /\ Accepted' = Accepted \cup {Current(c)}
  <2>1. TypeOK'
    BY <1>1, <1>3, CapacityAssumption DEF TypeOK, SendToTxManager
  <2>2. Accepted' = (Queued \cup held \cup running)'
    BY <2>1, <1>1 DEF Accepted, Queued
  <2> QED  BY <1>1, <1>5, <2>2, Places DEF Known
<1>7. TypeOK'
  BY <1>1, <1>3, CapacityAssumption DEF TypeOK, SendToTxManager
<1>8. Turns'
  BY <1>1 DEF Turns
<1>9. Fresh'
  <2>1. Current(c).conn = c /\ Current(c).n = cur[c] /\ cur[c] \in Nat
    BY DEF Current, TypeOK
  <2>2. \A r \in Known' : r.n <= cur'[r.conn]
    BY <1>1, <1>6, <2>1 DEF Fresh
  <2>3. wire[c] = "none"
    BY <1>1 DEF Turns
  <2>4. \A d \in Conn \ {c} : Current(d)' = Current(d) /\ Current(d) # Current(c)
    BY <1>1 DEF Current
  <2> QED  BY <1>1, <1>6, <2>2, <2>3, <2>4 DEF Fresh
<1>10. OnePlace'
  <2>1. \A i, j \in 1 .. Len(requests') : requests'[i] = requests'[j] => i = j
    BY <1>2, <1>3, <1>4 DEF OnePlace, Known, Queued
  <2> QED  BY <1>1, <1>2, <1>5, <2>1 DEF OnePlace, Known
<1>11. AnswersMatch'
  <2>1. \A r \in Accepted : r.conn \in Conn /\ r.conn # c
    BY <1>1, Places DEF AnswersMatch, Known
  <2>2. \A r \in Accepted : r = Current(r.conn)' /\ conn'[r.conn] \in {"sent", "waiting"}
    BY <1>1, <2>1 DEF AnswersMatch, Current
  <2>3. Current(c).conn = c
    BY DEF Current
  <2>4. \A d \in Conn : conn'[d] = "writing" => reply'[d] = cur'[d]
    BY <1>1 DEF AnswersMatch
  <2> QED  BY <1>1, <1>2, <1>6, <2>2, <2>3, <2>4 DEF AnswersMatch
<1> QED  BY <1>1, <1>7, <1>8, <1>9, <1>10, <1>11 DEF HandlersBounded

(* The dispatcher takes the oldest request from the channel.               *)
LEMMA ReceiveStep ==
  ASSUME PipelineInv, DispatchReceive
  PROVE  PipelineInv'
<1> USE DEF PipelineInv
<1>1. /\ held = {} /\ requests # << >> /\ requests \in Seq(Request)
      /\ held' = {Head(requests)} /\ requests' = Tail(requests)
      /\ UNCHANGED <<client, wire, cur, conn, reply, tokens, running, done>>
  BY DEF DispatchReceive, TypeOK
<1>2. /\ Len(requests) \in Nat \ {0} /\ Len(requests') = Len(requests) - 1
      /\ Head(requests) = requests[1] /\ requests' \in Seq(Request)
      /\ \A i \in 1 .. Len(requests') : requests'[i] = requests[i + 1]
      /\ Head(requests) \in Request
  BY <1>1
<1>3. Queued = Queued' \cup {Head(requests)} /\ Head(requests) \notin Queued'
  <2>1. \A i \in 1 .. Len(requests) : i = 1 \/ i - 1 \in 1 .. Len(requests')
    BY <1>2
  <2>2. \A i \in 1 .. Len(requests') : i + 1 \in 1 .. Len(requests) /\ i + 1 # 1
    BY <1>2
  <2>3. Head(requests) \notin Queued'
    BY <1>2, <2>2 DEF Queued, OnePlace
  <2>4. \A i \in 1 .. Len(requests) : requests[i] \in Queued' \cup {Head(requests)}
    <3> SUFFICES ASSUME NEW i \in 1 .. Len(requests), i # 1
                 PROVE  requests[i] \in Queued'
      BY <1>2
    <3>1. i - 1 \in 1 .. Len(requests') /\ requests'[i - 1] = requests[(i - 1) + 1]
      BY <1>2, <2>1
    <3>2. (i - 1) + 1 = i
      BY <1>2
    <3> QED  BY <3>1, <3>2 DEF Queued
  <2>5. Queued' \cup {Head(requests)} \subseteq Queued
    BY <1>2, <2>2 DEF Queued
  <2> QED  BY <2>3, <2>4, <2>5 DEF Queued
<1>4. TypeOK'
  BY <1>1, <1>2, CapacityAssumption DEF TypeOK
<1>5. Known' = Known
  BY <1>1, <1>3 DEF Known
<1>6. Accepted' = Accepted
  <2>1. Accepted' = (Queued \cup held \cup running)'
    BY DEF Accepted, Queued
  <2> QED  BY <1>1, <1>3, <2>1, Places
<1>7. OnePlace'
  <2>1. \A i, j \in 1 .. Len(requests') : requests'[i] = requests'[j] => i = j
    <3> SUFFICES ASSUME NEW i \in 1 .. Len(requests'), NEW j \in 1 .. Len(requests'),
                        requests'[i] = requests'[j]
                 PROVE  i = j
      OBVIOUS
    <3>1. i + 1 \in 1 .. Len(requests) /\ j + 1 \in 1 .. Len(requests)
      BY <1>2
    <3>2. i + 1 = j + 1
      BY <1>2, <3>1 DEF OnePlace
    <3> QED  BY <1>2, <3>2
  <2> QED  BY <1>1, <1>3, <2>1 DEF OnePlace
<1>8. Turns' /\ Fresh' /\ AnswersMatch' /\ HandlersBounded'
  BY <1>1, <1>5, <1>6 DEF Turns, Fresh, AnswersMatch, HandlersBounded, Current
<1> QED  BY <1>1, <1>4, <1>7, <1>8

(* A token is taken and a handler started.                                 *)
LEMMA StartStep ==
  ASSUME PipelineInv, DispatchStart
  PROVE  PipelineInv'
<1> USE DEF PipelineInv
<1>1. PICK r \in Request : held = {r}
  BY DEF DispatchStart, OnePlace, TypeOK
<1>2. /\ tokens < MaxWorkers /\ tokens' = tokens + 1
      /\ running' = running \cup {r} /\ held' = {} /\ r \notin running
      /\ UNCHANGED <<client, wire, cur, conn, reply, requests, done>>
  BY <1>1 DEF DispatchStart, OnePlace
<1>3. Queued' = Queued /\ Known' = Known /\ Accepted' = Accepted
  BY <1>1, <1>2 DEF Queued, Known, Accepted
<1>4. IsFiniteSet(running') /\ Cardinality(running') = Cardinality(running) + 1
  BY <1>2, FS_AddElement
<1>5. Cardinality(running) \in Nat /\ Cardinality(done) \in Nat
  BY FS_CardinalityType
<1>6. HandlersBounded'
  <2>1. Cardinality(done') = Cardinality(done) /\ MaxWorkers \in Nat /\ tokens \in Nat
    BY <1>2, CapacityAssumption DEF TypeOK
  <2>2. tokens = Cardinality(running) + Cardinality(done)
    BY DEF HandlersBounded
  <2>3. tokens' = Cardinality(running') + Cardinality(done') /\ tokens' <= MaxWorkers
    BY <1>2, <1>4, <1>5, <2>1, <2>2
  <2> QED  BY <2>3 DEF HandlersBounded
<1>7. TypeOK'
  BY <1>1, <1>2 DEF TypeOK
<1>8. Turns' /\ Fresh' /\ AnswersMatch' /\ OnePlace'
  BY <1>1, <1>2, <1>3 DEF Turns, Fresh, AnswersMatch, OnePlace, Current
<1> QED  BY <1>2, <1>4, <1>6, <1>7, <1>8

(* A handler has offered its answer, received or not.                      *)
LEMMA OfferStep ==
  ASSUME PipelineInv, NEW r \in running, Respond(r) \/ DropResponse(r)
  PROVE  PipelineInv'
<1> USE DEF PipelineInv
<1>1. /\ running' = running \ {r} /\ done' = done \cup {r}
      /\ UNCHANGED <<client, wire, cur, requests, held, tokens>>
  BY DEF Respond, DropResponse
<1>2. r \in Request /\ r \notin done /\ r \notin Queued /\ r \notin held /\ r.conn \in Conn
  BY Places DEF OnePlace, TypeOK
<1>3. Queued' = Queued /\ Known' = Known /\ Accepted' = Accepted \ {r}
  <2>1. Queued' = Queued
    BY <1>1 DEF Queued
  <2>2. Accepted' = (Queued \cup held \cup running)'
    BY DEF Accepted, Queued
  <2> QED  BY <1>1, <1>2, <2>1, <2>2, Places DEF Known
<1>4. OnePlace'
  BY <1>1, <1>2, <1>3 DEF OnePlace
<1>5. /\ IsFiniteSet(running') /\ IsFiniteSet(done')
      /\ Cardinality(running') = Cardinality(running) - 1
      /\ Cardinality(done') = Cardinality(done) + 1
  BY <1>1, <1>2, FS_AddElement, FS_RemoveElement
<1>6. HandlersBounded'
  <2>1. Cardinality(running) \in Nat /\ Cardinality(done) \in Nat
    BY FS_CardinalityType
  <2>2. tokens = Cardinality(running) + Cardinality(done) /\ tokens <= MaxWorkers
    BY DEF HandlersBounded
  <2>3. tokens' = Cardinality(running') + Cardinality(done') /\ tokens' <= MaxWorkers
    BY <1>1, <1>5, <2>1, <2>2
  <2> QED  BY <2>3 DEF HandlersBounded
<1>7. r = Current(r.conn) /\ conn[r.conn] \in {"sent", "waiting"}
  BY Places DEF AnswersMatch
<1>8. /\ \A d \in Conn \ {r.conn} : conn'[d] = conn[d] /\ reply'[d] = reply[d]
      /\ \/ conn'[r.conn] = conn[r.conn]
         \/ conn'[r.conn] = "writing" /\ reply'[r.conn] = r.n
      /\ conn' \in [Conn -> {"reading", "sending", "sent", "waiting", "writing", "closed"}]
      /\ reply' \in [Conn -> Nat]
  <2>1. CASE Respond(r)
    BY <1>2, <2>1, Places DEF Respond, TypeOK
  <2>2. CASE DropResponse(r)
    BY <2>2 DEF DropResponse, TypeOK
  <2> QED  BY <2>1, <2>2
<1>9. TypeOK'
  BY <1>1, <1>2, <1>8 DEF TypeOK
<1>10. wire[r.conn] = "none" /\ client[r.conn] # "idle"
  BY <1>2, <1>7 DEF Turns
<1>11. Turns'
  BY <1>1, <1>8, <1>10 DEF Turns
<1>12. Fresh'
  BY <1>1, <1>3, <1>7, <1>8, <1>10 DEF Fresh, Current
<1>13. AnswersMatch'
  <2>1. \A s \in Accepted \ {r} : s.conn \in Conn /\ s.conn # r.conn
    <3>1. \A s \in Accepted : s = Current(s.conn) /\ s.conn \in Conn
      BY Places DEF AnswersMatch, Known
    <3> QED  BY <1>7, <3>1
  <2>2. r.n = cur[r.conn]
    BY <1>7 DEF Current
  <2>3. \A s \in Accepted \ {r} : s = Current(s.conn)' /\ conn'[s.conn] \in {"sent", "waiting"}
    BY <1>1, <1>8, <2>1 DEF AnswersMatch, Current
  <2>4. \A d \in Conn : conn'[d] = "writing" => reply'[d] = cur'[d]
    BY <1>1, <1>7, <1>8, <2>2 DEF AnswersMatch
  <2> QED  BY <1>3, <2>3, <2>4 DEF AnswersMatch
<1> QED  BY <1>4, <1>5, <1>6, <1>9, <1>11, <1>12, <1>13

(* The token of a handler is given back.                                   *)
LEMMA ReleaseStep ==
  ASSUME PipelineInv, NEW r \in done, Release(r)
  PROVE  PipelineInv'
<1> USE DEF PipelineInv
<1>1. /\ done' = done \ {r} /\ tokens' = tokens - 1
      /\ UNCHANGED <<client, wire, cur, conn, reply, requests, held, running>>
  BY DEF Release
<1>2. Queued' = Queued /\ Known' \subseteq Known /\ Accepted' = Accepted
  BY <1>1 DEF Queued, Known, Accepted
<1>3. IsFiniteSet(done') /\ Cardinality(done') = Cardinality(done) - 1
  BY <1>1, FS_RemoveElement
<1>4. /\ Cardinality(running) \in Nat /\ Cardinality(done) \in Nat
      /\ Cardinality(done') \in Nat
  BY <1>3, FS_CardinalityType
<1>5. /\ tokens = Cardinality(running) + Cardinality(done)
      /\ tokens <= MaxWorkers /\ MaxWorkers \in Nat
  BY CapacityAssumption DEF HandlersBounded
<1>6. /\ tokens' = Cardinality(running) + Cardinality(done')
      /\ tokens' <= MaxWorkers /\ tokens' \in Nat
  BY <1>1, <1>3, <1>4, <1>5
<1>7. TypeOK'
  BY <1>1, <1>6 DEF TypeOK
<1>8. HandlersBounded'
  BY <1>1, <1>6 DEF HandlersBounded
<1>9. Turns' /\ Fresh' /\ OnePlace' /\ AnswersMatch'
  BY <1>1, <1>2 DEF Turns, Fresh, OnePlace, AnswersMatch, Current
<1> QED  BY <1>1, <1>3, <1>7, <1>8, <1>9

(* Every step keeps the invariant.                                         *)
LEMMA PipelineStep == PipelineInv /\ [Next]_vars => PipelineInv'
<1> SUFFICES ASSUME PipelineInv, [Next]_vars PROVE PipelineInv'
  OBVIOUS
<1>1. CASE UNCHANGED vars
  <2>1. Known' = Known /\ Queued' = Queued /\ Accepted' = Accepted
    BY <1>1 DEF vars, Known, Queued, Accepted
  <2>2. TypeOK' /\ Turns' /\ HandlersBounded'
    BY <1>1 DEF vars, PipelineInv, TypeOK, Turns, HandlersBounded
  <2>3. Fresh' /\ OnePlace'
    BY <1>1, <2>1 DEF vars, PipelineInv, Fresh, OnePlace, Current
  <2>4. AnswersMatch'
    BY <1>1, <2>1 DEF vars, PipelineInv, AnswersMatch, Current
  <2> QED  BY <1>1, <2>2, <2>3, <2>4 DEF vars, PipelineInv
<1>2. CASE Next
  BY <1>2, OutsideStep, SendStep, ReceiveStep, StartStep, OfferStep, ReleaseStep
     DEF Next, ConnectionStep
<1> QED  BY <1>1, <1>2

(* The invariant holds in every state.                                     *)
LEMMA PipelineInvariant == Spec => []PipelineInv
BY InitInv, PipelineStep, PTL DEF Spec

(* The channel Requests never exceeds its capacity and every variable      *)
(* keeps its type, for any number of connections.                          *)
THEOREM PipelineTypes == Spec => []TypeOK
<1>1. PipelineInv => TypeOK
  BY DEF PipelineInv
<1> QED  BY PipelineInvariant, <1>1, PTL

(* Answers never cross, although handlers finish in any order and drop     *)
(* answers that nobody receives: handleConnection writes the answer to the *)
(* request its client sent last.                                           *)
THEOREM AnswersNeverCross == Spec => []AnswersMatch
<1>1. PipelineInv => AnswersMatch
  BY DEF PipelineInv
<1> QED  BY PipelineInvariant, <1>1, PTL

(* The tokens of the semaphore are the handler goroutines alive, and never *)
(* more than its capacity, through answers, drops and panics.              *)
THEOREM SemaphoreCounts == Spec => []HandlersBounded
<1>1. PipelineInv => HandlersBounded
  BY DEF PipelineInv
<1> QED  BY PipelineInvariant, <1>1, PTL
==============================================================================
