---------------------------- MODULE ServerProofs ----------------------------
(***************************************************************************)
(* Theorems about the accept loop, for any number of clients, descriptors  *)
(* and places in the queue.                                                *)
(***************************************************************************)
EXTENDS Server, SequenceTheorems, WellFoundedInduction, TLAPS

-----------------------------------------------------------------------------
(* The inductive invariant.                                                *)

(* A connection is in the queue once, and only while it waits there.       *)
QueuedOnce ==
  /\ \A i \in DOMAIN backlog : conn[backlog[i]] = "queued"
  /\ \A i, j \in DOMAIN backlog : backlog[i] = backlog[j] => i = j

(* The only descriptor open on a client is client_fd, on the connection    *)
(* accept returned last.                                                   *)
OneSocket ==
  \A n \in 1 .. FdMax :
    fds[n] \in Clients => n = fd /\ fds[n] = cur /\ conn[cur] = "open" /\ pc # "accept"

(* Until the first close the socket is open; before the second it is open  *)
(* or closed.                                                              *)
SocketHeld ==
  /\ pc \notin {"accept", "dead"} => cur \in Clients
  /\ pc \in {"read", "route", "auth", "handler", "close"} => fds[fd] = cur
  /\ pc = "end" => fds[fd] \in {cur, "free"}

(* The lines of the account table.                                         *)
Lines(t) == t \in Seq({"row", "tail"}) /\ Len(t) <= MaxLines

(* What is routed came out of what this client sent.                       *)
OwnRequest ==
  /\ pc \in {"route", "auth", "handler"} =>
       sent[cur] # NoRequest /\ req \in Delivered(sent[cur])
  /\ pc \in {"auth", "handler"} => req # BadLine /\ req.path \in Paths
  /\ pc = "handler" /\ req.path \in Protected => req.token = "good"

LowerCase(r) == r.path \in {"/login", "/register"} /\ r.method \in {"get", "post"}

(* Nobody is answered before asking; who is about to be closed was.        *)
AnswersFollow ==
  /\ \A c \in Clients : sent[c] = NoRequest => answers[c] = <<>>
  /\ pc \in {"close", "end"} /\ fds[fd] = cur =>
       /\ sent[cur] # NoRequest
       /\ answers[cur] # <<>> \/ cur \in gone \/ LowerCase(sent[cur])

ServerInv ==
  /\ TypeOK /\ QueuedOnce /\ OneSocket /\ SocketHeld /\ OwnRequest /\ AnswersFollow
  /\ AuthGate
  /\ pc = "accept" => Free # {}

-----------------------------------------------------------------------------
(* Descriptors and requests.                                               *)

(* open and accept return a number that is free.                           *)
LEMMA LowestIsFree ==
  ASSUME Free # {}
  PROVE  Lowest \in 1 .. FdMax /\ fds[Lowest] = "free"
<1>1. Free \subseteq Nat
  BY ServerAssumption DEF Free
<1>2. IsWellFoundedOn(OpToRel(<, Nat), Nat)
  BY NatLessThanWellFounded
<1>3. \E n \in Free : \A m \in Free : ~ (<<m, n>> \in OpToRel(<, Nat))
  BY <1>1, <1>2, WFMin, Zenon
<1>4. \A m, n \in Nat : m < n => <<m, n>> \in OpToRel(<, Nat)
  BY Zenon DEF OpToRel
<1>5. PICK n \in Free : \A m \in Free : ~ (m < n)
  BY <1>1, <1>3, <1>4, Zenon
<1>6. \A m \in Free : n <= m
  BY <1>1, <1>5
<1>7. Lowest \in Free
  BY <1>5, <1>6 DEF Lowest
<1> QED BY <1>7 DEF Free

(* A read that returns less never raises the token or changes the line.    *)
LEMMA DeliveredIsPart ==
  ASSUME NEW r \in Requests, NEW q \in Delivered(r)
  PROVE  /\ q \in RequestType \cup {BadLine}
         /\ q # BadLine =>
              /\ r # BadLine /\ q.path = r.path /\ q.method = r.method
              /\ q.token = "good" => r.token = "good"
<1>1. CASE r = BadLine
  BY <1>1 DEF Delivered
<1>2. CASE r # BadLine
  <2>1. r \in RequestType
    BY <1>2, ServerAssumption
  <2> QED BY <1>2, <2>1 DEF Delivered, RequestType
<1> QED BY <1>1, <1>2

(* A request is not the absence of one.                                    *)
LEMMA RequestIsNot ==
  ASSUME NEW r \in Requests
  PROVE  r # NoRequest
<1>1. CASE r = BadLine
  BY <1>1 DEF BadLine, NoRequest, Blank
<1>2. CASE r \in RequestType
  <2>1. r.path # "(nothing)"
    BY <1>2 DEF RequestType, Paths
  <2> QED BY <2>1 DEF NoRequest, Blank
<1> QED BY <1>1, <1>2, ServerAssumption

-----------------------------------------------------------------------------
(* Every action keeps the invariant.                                       *)

LEMMA ServerInvInit == Init => ServerInv
<1> SUFFICES ASSUME Init PROVE ServerInv
  OBVIOUS
<1> USE ServerAssumption DEF Init
<1>1. TypeOK
  BY DEF TypeOK
<1>2. QueuedOnce /\ SocketHeld /\ OwnRequest /\ AnswersFollow
  BY DEF QueuedOnce, SocketHeld, OwnRequest, AnswersFollow
<1>3. OneSocket
  BY DEF OneSocket
<1>4. AuthGate
  BY DEF AuthGate
<1>5. Free # {}
  <2>1. 1 \in Free
    BY DEF Free
  <2> QED BY <2>1
<1> QED BY <1>1, <1>2, <1>3, <1>4, <1>5 DEF ServerInv

(* What TypeOK says of the queue.                                          *)
LEMMA QueueTyped ==
  ASSUME TypeOK
  PROVE  /\ backlog \in Seq(Clients) /\ Len(backlog) \in Nat
         /\ DOMAIN backlog = 1 .. Len(backlog)
         /\ \A i \in DOMAIN backlog : backlog[i] \in Clients
BY DEF TypeOK

LEMMA ConnectKeepsInv ==
  ASSUME ServerInv, NEW c \in Clients, Connect(c)
  PROVE  ServerInv'
<1> USE ServerAssumption DEF Connect
<1>1. TypeOK /\ QueuedOnce /\ OneSocket /\ SocketHeld /\ OwnRequest /\ AnswersFollow /\ AuthGate
  BY DEF ServerInv
<1>2. /\ backlog' \in Seq(Clients) /\ Len(backlog') = Len(backlog) + 1
      /\ \A i \in 1 .. Len(backlog) : backlog'[i] = backlog[i]
      /\ backlog'[Len(backlog) + 1] = c
      /\ DOMAIN backlog' = 1 .. Len(backlog) + 1
  BY <1>1, QueueTyped
<1>3. TypeOK'
  <2>1. Len(backlog') <= Backlog
    BY <1>1, <1>2, QueueTyped DEF TypeOK
  <2>2. conn' \in [Clients -> {"none", "queued", "open", "closed"}]
    BY <1>1 DEF TypeOK
  <2>3. sent' \in [Clients -> Requests \cup {NoRequest}] /\ gone' \subseteq Clients
    BY <1>1 DEF TypeOK
  <2>4. answers' \in [Clients -> Seq({0, 200, 204, 302, 400, 401, 404, 405})]
    BY <1>1 DEF TypeOK
  <2> QED BY <1>1, <1>2, <2>1, <2>2, <2>3, <2>4 DEF TypeOK
<1>4. conn' \in [Clients -> {"none", "queued", "open", "closed"}] /\ conn'[c] = "queued"
      /\ \A d \in Clients \ {c} : conn'[d] = conn[d]
  BY <1>1 DEF TypeOK
<1>5. QueuedOnce'
  <2>1. \A i \in 1 .. Len(backlog) : conn[backlog[i]] = "queued" /\ backlog[i] \in Clients
    BY <1>1, QueueTyped DEF QueuedOnce
  <2>2. \A i \in 1 .. Len(backlog) : backlog[i] # c
    BY <2>1
  <2>3. \A i \in DOMAIN backlog' : conn'[backlog'[i]] = "queued"
    BY <1>1, <1>2, <1>4, <2>1, <2>2, QueueTyped
  <2>4. \A i, j \in DOMAIN backlog' : backlog'[i] = backlog'[j] => i = j
    BY <1>1, <1>2, <2>2, QueueTyped DEF QueuedOnce
  <2> QED BY <2>3, <2>4 DEF QueuedOnce
<1>6. \A n \in 1 .. FdMax : fds[n] \in Clients => fds[n] = cur /\ cur # c
  BY <1>1 DEF OneSocket
<1>7. OneSocket'
  BY <1>1, <1>4, <1>6 DEF OneSocket
<1>8. SocketHeld'
  BY <1>1 DEF SocketHeld
<1>9. pc \notin {"accept", "dead"} => fd \in 1 .. FdMax
  BY <1>1 DEF TypeOK
<1>10. pc \in {"read", "route", "auth", "handler", "close", "end"} /\ fds[fd] = cur => cur # c
  BY <1>1, <1>6, <1>9 DEF SocketHeld
<1>11. OwnRequest'
  <2>1. pc \in {"route", "auth", "handler"} => sent'[cur] = sent[cur]
    BY <1>1, <1>10 DEF SocketHeld, TypeOK
  <2> QED BY <1>1, <2>1 DEF OwnRequest
<1>12. AnswersFollow'
  BY <1>1, <1>10 DEF AnswersFollow, SocketHeld, TypeOK
<1>13. AuthGate'
  BY <1>1 DEF AuthGate, TypeOK
<1>14. pc' = "accept" => Free' # {}
  BY DEF ServerInv, Free
<1> QED BY <1>3, <1>5, <1>7, <1>8, <1>11, <1>12, <1>13, <1>14 DEF ServerInv

LEMMA SendKeepsInv ==
  ASSUME ServerInv, NEW c \in Clients, NEW r \in Requests, Send(c, r)
  PROVE  ServerInv'
<1> USE DEF Send, server
<1>1. TypeOK /\ QueuedOnce /\ OneSocket /\ SocketHeld /\ OwnRequest /\ AnswersFollow /\ AuthGate
  BY DEF ServerInv
<1>2. TypeOK'
  BY <1>1 DEF TypeOK
<1>3. QueuedOnce' /\ OneSocket' /\ SocketHeld'
  BY <1>1 DEF QueuedOnce, OneSocket, SocketHeld
<1>4. r # NoRequest
  BY RequestIsNot
<1>5. sent'[c] = r /\ \A d \in Clients \ {c} : sent'[d] = sent[d]
  BY <1>1 DEF TypeOK
<1>6. OwnRequest'
  BY <1>1, <1>5 DEF OwnRequest, SocketHeld, Delivered
<1>7. AnswersFollow'
  BY <1>1, <1>4, <1>5 DEF AnswersFollow, SocketHeld
<1>8. answers[c] = <<>>
  BY <1>1 DEF AnswersFollow
<1>9. AuthGate'
  BY <1>1, <1>5, <1>8 DEF AuthGate
<1>10. pc' = "accept" => Free' # {}
  BY DEF ServerInv, Free
<1> QED BY <1>2, <1>3, <1>6, <1>7, <1>9, <1>10 DEF ServerInv

LEMMA LeaveKeepsInv ==
  ASSUME ServerInv, NEW c \in Clients, Leave(c)
  PROVE  ServerInv'
<1> USE DEF Leave, server
<1>1. TypeOK /\ QueuedOnce /\ OneSocket /\ SocketHeld /\ OwnRequest /\ AnswersFollow /\ AuthGate
  BY DEF ServerInv
<1>2. TypeOK'
  BY <1>1 DEF TypeOK
<1>3. QueuedOnce' /\ OneSocket' /\ SocketHeld' /\ AuthGate'
  BY <1>1 DEF QueuedOnce, OneSocket, SocketHeld, AuthGate
<1>4. OwnRequest' /\ AnswersFollow'
  BY <1>1 DEF OwnRequest, AnswersFollow, Delivered
<1>5. pc' = "accept" => Free' # {}
  BY DEF ServerInv, Free
<1> QED BY <1>2, <1>3, <1>4, <1>5 DEF ServerInv

LEMMA AcceptKeepsInv ==
  ASSUME ServerInv, Accept
  PROVE  ServerInv'
<1> USE ServerAssumption DEF Accept
<1>1. TypeOK /\ QueuedOnce /\ OneSocket /\ SocketHeld /\ OwnRequest /\ AnswersFollow /\ AuthGate
  BY DEF ServerInv
<1>2. Lowest \in 1 .. FdMax /\ fds[Lowest] = "free"
  BY LowestIsFree
<1>3. /\ Len(backlog) \in Nat /\ Len(backlog) > 0 /\ Head(backlog) = backlog[1]
      /\ backlog' \in Seq(Clients) /\ Len(backlog') = Len(backlog) - 1
      /\ DOMAIN backlog' = 1 .. Len(backlog) - 1
      /\ \A i \in 1 .. Len(backlog) - 1 : backlog'[i] = backlog[i + 1]
  BY <1>1, QueueTyped
<1>4. cur' \in Clients /\ cur' = backlog[1] /\ conn[cur'] = "queued"
  BY <1>1, <1>3, QueueTyped DEF QueuedOnce
<1>5. /\ conn' \in [Clients -> {"none", "queued", "open", "closed"}]
      /\ conn'[cur'] = "open" /\ \A d \in Clients \ {cur'} : conn'[d] = conn[d]
  BY <1>1, <1>4 DEF TypeOK
<1>6. /\ fds' \in [1 .. FdMax -> Clients \cup {"free", "template"}]
      /\ fds'[Lowest] = cur' /\ \A n \in (1 .. FdMax) \ {Lowest} : fds'[n] = fds[n]
  BY <1>1, <1>2, <1>4 DEF TypeOK
<1>7. TypeOK'
  <2>1. Len(backlog') <= Backlog
    BY <1>1, <1>3 DEF TypeOK
  <2> QED BY <1>1, <1>2, <1>3, <1>4, <1>5, <1>6, <2>1 DEF TypeOK
<1>8. QueuedOnce'
  <2>1. \A i \in DOMAIN backlog' : backlog[i + 1] \in Clients /\ conn[backlog[i + 1]] = "queued"
                                   /\ backlog[i + 1] # cur'
    BY <1>1, <1>3, <1>4, QueueTyped DEF QueuedOnce
  <2>2. \A i \in DOMAIN backlog' : conn'[backlog'[i]] = "queued"
    BY <1>3, <1>5, <2>1
  <2>3. \A i, j \in DOMAIN backlog' : backlog'[i] = backlog'[j] => i = j
    BY <1>1, <1>3, QueueTyped DEF QueuedOnce
  <2> QED BY <2>2, <2>3 DEF QueuedOnce
<1>9. OneSocket'
  BY <1>1, <1>2, <1>5, <1>6 DEF OneSocket
<1>10. SocketHeld' /\ OwnRequest'
  BY <1>2, <1>4, <1>6 DEF SocketHeld, OwnRequest
<1>11. AnswersFollow' /\ AuthGate'
  BY <1>1 DEF AnswersFollow, AuthGate
<1> QED BY <1>7, <1>8, <1>9, <1>10, <1>11 DEF ServerInv

LEMMA AcceptFailsKeepsInv ==
  ASSUME ServerInv, AcceptFails
  PROVE  ServerInv'
<1> USE ServerAssumption DEF AcceptFails
<1>1. TypeOK /\ QueuedOnce /\ OneSocket /\ SocketHeld /\ OwnRequest /\ AnswersFollow /\ AuthGate
  BY DEF ServerInv
<1>2. /\ Len(backlog) \in Nat /\ Len(backlog) > 0 /\ Head(backlog) = backlog[1]
      /\ backlog' \in Seq(Clients) /\ Len(backlog') = Len(backlog) - 1
      /\ DOMAIN backlog' = 1 .. Len(backlog) - 1
      /\ \A i \in 1 .. Len(backlog) - 1 : backlog'[i] = backlog[i + 1]
  BY <1>1, QueueTyped
<1>3. /\ Head(backlog) \in Clients
      /\ conn' \in [Clients -> {"none", "queued", "open", "closed"}]
      /\ \A d \in Clients \ {Head(backlog)} : conn'[d] = conn[d]
  BY <1>1, <1>2, QueueTyped DEF TypeOK
<1>4. TypeOK'
  <2>1. Len(backlog') <= Backlog
    BY <1>1, <1>2 DEF TypeOK
  <2> QED BY <1>1, <1>2, <1>3, <2>1 DEF TypeOK
<1>5. QueuedOnce'
  <2>1. \A i \in DOMAIN backlog' : backlog[i + 1] \in Clients /\ conn[backlog[i + 1]] = "queued"
                                   /\ backlog[i + 1] # Head(backlog)
    BY <1>1, <1>2, QueueTyped DEF QueuedOnce
  <2>2. \A i \in DOMAIN backlog' : conn'[backlog'[i]] = "queued"
    BY <1>2, <1>3, <2>1
  <2>3. \A i, j \in DOMAIN backlog' : backlog'[i] = backlog'[j] => i = j
    BY <1>1, <1>2, QueueTyped DEF QueuedOnce
  <2> QED BY <2>2, <2>3 DEF QueuedOnce
<1>6. OneSocket'
  BY <1>1 DEF OneSocket
<1>7. SocketHeld' /\ OwnRequest' /\ AnswersFollow' /\ AuthGate'
  BY <1>1 DEF SocketHeld, OwnRequest, AnswersFollow, AuthGate
<1>8. Free' # {}
  BY DEF ServerInv, Free
<1> QED BY <1>4, <1>5, <1>6, <1>7, <1>8 DEF ServerInv

(* The three ways to close: at the end of the input, and twice at the end  *)
(* of a request.                                                           *)
LEMMA CloseKeepsInv ==
  ASSUME ServerInv, Close, pc \in {"read", "close", "end"}, pc' \in {"accept", "end"},
         params' \in {"none", "held", "freed"},
         UNCHANGED <<backlog, fd, cur, req, sent, gone, answers, accounts>>
  PROVE  ServerInv'
<1> USE ServerAssumption
<1>1. TypeOK /\ QueuedOnce /\ OneSocket /\ SocketHeld /\ OwnRequest /\ AnswersFollow /\ AuthGate
  BY DEF ServerInv
<1>2. fd \in 1 .. FdMax /\ cur \in Clients /\ fds[fd] \in {cur, "free"}
  BY <1>1 DEF TypeOK, SocketHeld
<1>3. /\ fds' \in [1 .. FdMax -> Clients \cup {"free", "template"}]
      /\ fds'[fd] = "free" /\ \A n \in (1 .. FdMax) \ {fd} : fds'[n] = fds[n]
  BY <1>1, <1>2 DEF TypeOK, Close
<1>4. /\ conn' \in [Clients -> {"none", "queued", "open", "closed"}]
      /\ \A d \in Clients : conn[d] = "queued" => conn'[d] = "queued"
  BY <1>1, <1>2 DEF TypeOK, Close, OneSocket
<1>5. TypeOK'
  BY <1>1, <1>2, <1>3, <1>4 DEF TypeOK
<1>6. QueuedOnce'
  <2>1. \A i \in DOMAIN backlog : backlog[i] \in Clients
    BY <1>1, QueueTyped
  <2> QED BY <1>1, <1>4, <2>1 DEF QueuedOnce
<1>7. OneSocket' /\ SocketHeld'
  BY <1>1, <1>2, <1>3 DEF OneSocket, SocketHeld
<1>8. OwnRequest' /\ AuthGate'
  BY <1>1 DEF OwnRequest, AuthGate
<1>9. AnswersFollow'
  BY <1>1, <1>2, <1>3 DEF AnswersFollow
<1>10. Free' # {}
  <2>1. fd \in Free'
    BY <1>2, <1>3 DEF Free
  <2> QED BY <2>1
<1> QED BY <1>5, <1>6, <1>7, <1>8, <1>9, <1>10 DEF ServerInv

LEMMA ReadEofKeepsInv == ServerInv /\ ReadEof => ServerInv'
<1>1. ServerInv => params \in {"none", "held", "freed"}
  BY DEF ServerInv, TypeOK
<1> QED BY <1>1, CloseKeepsInv DEF ReadEof

LEMMA EndKeepsInv == ServerInv /\ (EndStopped \/ End) => ServerInv'
<1>1. ServerInv => params \in {"none", "held", "freed"}
  BY DEF ServerInv, TypeOK
<1> QED BY <1>1, CloseKeepsInv DEF EndStopped, End, Release

LEMMA ReadRequestKeepsInv ==
  ASSUME ServerInv, ReadRequest
  PROVE  ServerInv'
<1> USE ServerAssumption DEF ReadRequest, clients
<1>1. TypeOK /\ QueuedOnce /\ OneSocket /\ SocketHeld /\ OwnRequest /\ AnswersFollow /\ AuthGate
  BY DEF ServerInv
<1>2. sent[cur] \in Requests
  BY <1>1 DEF TypeOK, SocketHeld
<1>3. req' \in RequestType \cup {BadLine}
  BY <1>2, DeliveredIsPart
<1>4. TypeOK'
  BY <1>1, <1>3 DEF TypeOK
<1>5. QueuedOnce' /\ OneSocket' /\ SocketHeld' /\ AuthGate'
  BY <1>1 DEF QueuedOnce, OneSocket, SocketHeld, AuthGate
<1>6. OwnRequest' /\ AnswersFollow'
  BY <1>1 DEF OwnRequest, AnswersFollow
<1> QED BY <1>4, <1>5, <1>6 DEF ServerInv

(* Every response, from the router, the middleware or a handler: what it   *)
(* must show is that its status is one a stopped request may get.          *)
LEMMA RespondKeepsInv ==
  ASSUME ServerInv, pc \in {"route", "auth", "handler"},
         NEW status \in {0, 200, 204, 302, 400, 401, 404, 405},
         NEW next \in {"close", "end"},
         Respond(status, next),
         fds' \in [1 .. FdMax -> Clients \cup {"free", "template"}],
         \A n \in 1 .. FdMax : fds'[n] = fds[n] \/ (fds[n] = "free" /\ fds'[n] = "template"),
         params' \in {"none", "held", "freed"}, Lines(accounts'),
         sent[cur].path \in Protected /\ sent[cur].token # "good" /\ sent[cur] # BadLine
           => status \in {302, 400, 405}
  PROVE  ServerInv'
<1> USE ServerAssumption DEF Respond
<1>1. TypeOK /\ QueuedOnce /\ OneSocket /\ SocketHeld /\ OwnRequest /\ AnswersFollow /\ AuthGate
  BY DEF ServerInv
<1>2. fd \in 1 .. FdMax /\ cur \in Clients /\ fds[fd] = cur /\ fds'[fd] = cur /\ pc' \in {"close", "end", "dead"}
  BY <1>1 DEF TypeOK, SocketHeld
<1>3. /\ answers[cur] \in Seq({0, 200, 204, 302, 400, 401, 404, 405})
      /\ answers' \in [Clients -> Seq({0, 200, 204, 302, 400, 401, 404, 405})]
      /\ \A d \in Clients \ {cur} : answers'[d] = answers[d]
      /\ cur \in gone \/ answers'[cur] = Append(answers[cur], status)
      /\ answers'[cur] = answers[cur] \/ answers'[cur] = Append(answers[cur], status)
  BY <1>1, <1>2 DEF TypeOK
<1>4. TypeOK'
  <2>1. accounts' \in Seq({"row", "tail"}) /\ Len(accounts') <= MaxLines
    BY DEF Lines
  <2> HIDE DEF Lines
  <2> QED BY <1>1, <1>2, <1>3, <2>1 DEF TypeOK
<1>5. QueuedOnce' /\ SocketHeld' /\ OwnRequest'
  BY <1>1, <1>2 DEF QueuedOnce, SocketHeld, OwnRequest
<1>6. OneSocket'
  BY <1>1, <1>2 DEF OneSocket
<1>7. sent[cur] # NoRequest
  BY <1>1 DEF OwnRequest
<1>8. AnswersFollow'
  <2>1. Append(answers[cur], status) # <<>>
    <3> DEFINE Statuses == {0, 200, 204, 302, 400, 401, 404, 405}
    <3>1. answers[cur] \in Seq(Statuses) /\ status \in Statuses
      BY <1>3
    <3> HIDE DEF Statuses
    <3> QED BY <3>1, AppendProperties
  <2> QED BY <1>1, <1>2, <1>3, <1>7, <2>1 DEF AnswersFollow
<1>9. AuthGate'
  <2> SUFFICES ASSUME NEW c \in Clients, sent[c] \notin {NoRequest, BadLine},
                      sent[c].path \in Protected, sent[c].token # "good",
                      NEW i \in DOMAIN answers'[c]
               PROVE  answers'[c][i] \in {302, 400, 405}
    BY DEF AuthGate
  <2>1. CASE answers'[c] = answers[c]
    BY <1>1, <2>1 DEF AuthGate
  <2>2. CASE c = cur /\ answers'[c] = Append(answers[c], status)
    <3>1. status \in {302, 400, 405}
      BY <2>2
    <3>2. /\ DOMAIN answers'[c] = 1 .. Len(answers[c]) + 1
          /\ DOMAIN answers[c] = 1 .. Len(answers[c]) /\ Len(answers[c]) \in Nat
          /\ \A k \in 1 .. Len(answers[c]) : answers'[c][k] = answers[c][k]
          /\ answers'[c][Len(answers[c]) + 1] = status
      BY <1>3, <2>2
    <3>3. CASE i = Len(answers[c]) + 1
      BY <3>1, <3>2, <3>3
    <3>4. CASE i \in DOMAIN answers[c]
      BY <1>1, <3>2, <3>4 DEF AuthGate
    <3> QED BY <3>2, <3>3, <3>4
  <2> QED BY <1>3, <2>1, <2>2
<1> QED BY <1>2, <1>4, <1>5, <1>6, <1>8, <1>9 DEF ServerInv

(* The request being answered, as its client sent it.                      *)
LEMMA AsSent ==
  ASSUME ServerInv, pc \in {"route", "auth", "handler"}
  PROVE  /\ cur \in Clients /\ sent[cur] \in Requests
         /\ req # BadLine =>
              /\ req.path = sent[cur].path /\ req.method = sent[cur].method
              /\ req.token = "good" => sent[cur].token = "good"
         /\ pc = "handler" /\ sent[cur].path \in Protected => sent[cur].token = "good"
         /\ fds \in [1 .. FdMax -> Clients \cup {"free", "template"}]
         /\ params \in {"none", "held", "freed"} /\ Lines(accounts)
<1>1. TypeOK /\ SocketHeld /\ OwnRequest
  BY DEF ServerInv
<1>2. cur \in Clients /\ sent[cur] \in Requests
  BY <1>1 DEF TypeOK, SocketHeld, OwnRequest
<1>3. /\ req # BadLine => /\ req.path = sent[cur].path /\ req.method = sent[cur].method
                          /\ req.token = "good" => sent[cur].token = "good"
  BY <1>1, <1>2, DeliveredIsPart DEF OwnRequest
<1> QED BY <1>1, <1>2, <1>3 DEF OwnRequest, TypeOK, Lines

LEMMA UnroutableKeepsInv ==
  ASSUME ServerInv, Unroutable
  PROVE  ServerInv'
<1> USE DEF Unroutable
<1>1. PICK status \in {400, 404, 405} :
        /\ Respond(status, "end")
        /\ status = 404 => req # BadLine /\ req.path \notin Paths
  OBVIOUS
<1>2. sent[cur].path \in Protected => status \in {302, 400, 405}
  BY <1>1, AsSent DEF Protected, Paths
<1>3. Lines(accounts')
  BY AsSent DEF Lines
<1> QED BY <1>1, <1>2, <1>3, AsSent, RespondKeepsInv

LEMMA UnauthorizedKeepsInv ==
  ASSUME ServerInv, Unauthorized
  PROVE  ServerInv'
<1>1. Lines(accounts')
  BY AsSent DEF Unauthorized, Lines
<1> QED BY <1>1, AsSent, RespondKeepsInv DEF Unauthorized

(* A registration adds a row, a torn row or nothing.                       *)
LEMMA RegisteredTyped ==
  ASSUME Lines(accounts), Registered
  PROVE  Lines(accounts')
<1> DEFINE Kinds == {"row", "tail"}
<1>1. accounts \in Seq(Kinds) /\ "row" \in Kinds /\ "tail" \in Kinds
  BY DEF Lines
<1>2. accounts' \in {accounts, Append(accounts, "row"), accounts \o <<"row", "tail">>}
      /\ Len(accounts') <= MaxLines
  BY DEF Registered
<1> HIDE DEF Kinds
<1>3. <<"row", "tail">> \in Seq(Kinds)
  BY <1>1
<1>4. Append(accounts, "row") \in Seq(Kinds)
  BY <1>1, AppendProperties
<1>5. accounts \o <<"row", "tail">> \in Seq(Kinds)
  BY <1>1, <1>3, ConcatProperties
<1>6. accounts' \in Seq(Kinds)
  BY <1>1, <1>2, <1>4, <1>5, Zenon
<1> QED BY <1>2, <1>6 DEF Lines, Kinds

LEMMA HandlersKeepInv ==
  ASSUME ServerInv, Page \/ Form \/ RedirectLoggedIn \/ Api
  PROVE  ServerInv'
<1>1. pc = "handler"
  BY DEF Page, Form, RedirectLoggedIn, Api
<1>2. ~ (sent[cur].path \in Protected /\ sent[cur].token # "good")
  BY <1>1, AsSent
<1>3. CASE Page
  <2>1. Lowest \in 1 .. FdMax /\ fds[Lowest] = "free"
    BY <1>3, LowestIsFree DEF Page
  <2>2. /\ fds' \in [1 .. FdMax -> Clients \cup {"free", "template"}]
        /\ \A n \in 1 .. FdMax : fds'[n] = fds[n] \/ (fds[n] = "free" /\ fds'[n] = "template")
    BY <1>1, <1>3, <2>1, AsSent DEF Page
  <2>3. Lines(accounts')
    BY <1>1, <1>3, AsSent DEF Page, Lines
  <2> QED BY <1>1, <1>2, <1>3, <2>2, <2>3, AsSent, RespondKeepsInv DEF Page
<1>4. CASE Form \/ RedirectLoggedIn \/ Api
  <2>1. PICK status \in {0, 200, 204, 302, 400, 401} :
          /\ Respond(status, "end") /\ UNCHANGED <<fds, params>>
          /\ UNCHANGED accounts \/ Registered
    BY <1>4 DEF Form, RedirectLoggedIn, Api
  <2>2. Lines(accounts')
    BY <1>1, <2>1, AsSent, RegisteredTyped DEF Lines
  <2> QED BY <1>1, <1>2, <2>1, <2>2, AsSent, RespondKeepsInv
<1> QED BY <1>3, <1>4

LEMMA InsideStepsKeepInv ==
  ASSUME ServerInv, Route \/ Authorized \/ Silent \/ HandlerFaults \/ DoubleFree
  PROVE  ServerInv'
<1>1. TypeOK /\ QueuedOnce /\ OneSocket /\ SocketHeld /\ OwnRequest /\ AnswersFollow /\ AuthGate
  BY DEF ServerInv
<1>2. CASE Route
  <2> USE <1>2 DEF Route, clients
  <2>1. TypeOK'
    BY <1>1 DEF TypeOK
  <2>2. QueuedOnce' /\ OneSocket' /\ SocketHeld' /\ AnswersFollow' /\ AuthGate'
    BY <1>1 DEF QueuedOnce, OneSocket, SocketHeld, AnswersFollow, AuthGate
  <2>3. OwnRequest'
    BY <1>1 DEF OwnRequest
  <2> QED BY <2>1, <2>2, <2>3 DEF ServerInv
<1>3. CASE Authorized
  <2> USE <1>3 DEF Authorized, clients
  <2>1. TypeOK'
    BY <1>1 DEF TypeOK
  <2>2. QueuedOnce' /\ OneSocket' /\ SocketHeld' /\ AnswersFollow' /\ AuthGate'
    BY <1>1 DEF QueuedOnce, OneSocket, SocketHeld, AnswersFollow, AuthGate
  <2>3. OwnRequest'
    BY <1>1 DEF OwnRequest
  <2> QED BY <2>1, <2>2, <2>3 DEF ServerInv
<1>4. CASE Silent
  <2> USE <1>4 DEF Silent, clients
  <2>1. TypeOK'
    BY <1>1 DEF TypeOK
  <2>2. QueuedOnce' /\ OneSocket' /\ SocketHeld' /\ OwnRequest' /\ AuthGate'
    BY <1>1 DEF QueuedOnce, OneSocket, SocketHeld, OwnRequest, AuthGate
  <2>3. req # BadLine /\ sent[cur] # NoRequest
    BY <1>1 DEF OwnRequest
  <2>4. LowerCase(sent[cur])
    BY <2>3, AsSent DEF IsSilent, LowerCase
  <2>5. AnswersFollow'
    BY <1>1, <2>3, <2>4 DEF AnswersFollow
  <2> QED BY <2>1, <2>2, <2>5 DEF ServerInv
<1>5. CASE HandlerFaults \/ DoubleFree
  <2> USE <1>5 DEF HandlerFaults, DoubleFree, clients
  <2>1. TypeOK'
    BY <1>1 DEF TypeOK
  <2>2. QueuedOnce' /\ OneSocket' /\ SocketHeld' /\ OwnRequest' /\ AnswersFollow' /\ AuthGate'
    BY <1>1 DEF QueuedOnce, OneSocket, SocketHeld, OwnRequest, AnswersFollow, AuthGate
  <2> QED BY <2>1, <2>2 DEF ServerInv
<1> QED BY <1>2, <1>3, <1>4, <1>5

LEMMA RestartKeepsInv ==
  ASSUME ServerInv, Restart
  PROVE  ServerInv'
<1> USE ServerAssumption DEF Restart
<1>1. TypeOK /\ AnswersFollow /\ AuthGate
  BY DEF ServerInv
<1>2. TypeOK'
  BY <1>1 DEF TypeOK
<1>3. QueuedOnce' /\ SocketHeld' /\ OwnRequest' /\ AnswersFollow' /\ AuthGate'
  BY <1>1 DEF QueuedOnce, SocketHeld, OwnRequest, AnswersFollow, AuthGate
<1>4. OneSocket'
  BY DEF OneSocket
<1>5. Free' # {}
  <2>1. 1 \in Free'
    BY DEF Free
  <2> QED BY <2>1
<1> QED BY <1>2, <1>3, <1>4, <1>5 DEF ServerInv

LEMMA ServerInvNext == ServerInv /\ [Next]_vars => ServerInv'
<1> SUFFICES ASSUME ServerInv, [Next]_vars PROVE ServerInv'
  OBVIOUS
<1>1. ASSUME NEW c \in Clients, Connect(c) PROVE ServerInv'
  BY <1>1, ConnectKeepsInv
<1>2. ASSUME NEW c \in Clients, Leave(c) PROVE ServerInv'
  BY <1>2, LeaveKeepsInv
<1>3. ASSUME NEW c \in Clients, NEW r \in Requests, Send(c, r) PROVE ServerInv'
  BY <1>3, SendKeepsInv
<1>4. CASE Accept \/ AcceptFails
  BY <1>4, AcceptKeepsInv, AcceptFailsKeepsInv
<1>5. CASE ReadEof \/ ReadRequest
  BY <1>5, ReadEofKeepsInv, ReadRequestKeepsInv
<1>6. CASE Unroutable \/ Unauthorized
  BY <1>6, UnroutableKeepsInv, UnauthorizedKeepsInv
<1>7. CASE Page \/ Form \/ RedirectLoggedIn \/ Api
  BY <1>7, HandlersKeepInv
<1>8. CASE Route \/ Authorized \/ Silent \/ HandlerFaults \/ DoubleFree
  BY <1>8, InsideStepsKeepInv
<1>9. CASE EndStopped \/ End
  BY <1>9, EndKeepsInv
<1>10. CASE Restart
  BY <1>10, RestartKeepsInv
<1>11. CASE UNCHANGED vars
  BY <1>11 DEF vars, server, clients, ServerInv, TypeOK, QueuedOnce, OneSocket, SocketHeld,
               OwnRequest, AnswersFollow, AuthGate, Free, Delivered
<1> QED BY <1>1, <1>2, <1>3, <1>4, <1>5, <1>6, <1>7, <1>8, <1>9, <1>10, <1>11 DEF Next, Loop

LEMMA ServerInvariant == Spec => []ServerInv
<1> QED BY ServerInvInit, ServerInvNext, PTL DEF Spec

-----------------------------------------------------------------------------
(* The theorems.                                                           *)

(* Every variable of the accept loop keeps its type: a descriptor in hand  *)
(* is always one of the process's own, between 1 and FdMax.                *)
THEOREM ServerTypes == Spec => []TypeOK
<1>1. ServerInv => TypeOK
  BY DEF ServerInv
<1> QED BY <1>1, ServerInvariant, PTL

(* auth_middleware gates every protected route: whatever part of a request *)
(* the read returned, without a good token its client gets a redirect or   *)
(* an error, and never the answer of the request before.                   *)
THEOREM ProtectedRoutesAreGated == Spec => []AuthGate
<1>1. ServerInv => AuthGate
  BY DEF ServerInv
<1> QED BY <1>1, ServerInvariant, PTL

(* On every path of the loop back to accept the socket was closed, and     *)
(* accept has a descriptor to return.                                      *)
THEOREM SocketsNeverLeak == Spec => []NoSocketLeft
<1>1. ServerInv => NoSocketLeft
  BY DEF ServerInv, TypeOK, OneSocket, NoSocketLeft
<1> QED BY <1>1, ServerInvariant, PTL

(* end_client_conn, run twice for a request a middleware stopped, never    *)
(* closes somebody else's descriptor.                                      *)
THEOREM SecondCloseIsHarmless == Spec => []ClosesOwn
<1>1. ServerInv => ClosesOwn
  BY DEF ServerInv, SocketHeld, ClosesOwn
<1> QED BY <1>1, ServerInvariant, PTL

(* A client that asked and waits is answered before its connection is      *)
(* closed, whichever of the two closes does it; only /login and /register  *)
(* with a method in lower case end without a response.                     *)
THEOREM WaitingClientsAreAnswered == Spec => AnsweredBeforeClose
<1>1. ASSUME ServerInv, Next,
             NEW c \in Clients, conn[c] = "open", conn'[c] = "closed", pc # "dead",
             sent[c] # NoRequest, c \notin gone
      PROVE  answers[c] # <<>> \/ LowerCase(sent[c])
  <2>1. TypeOK /\ QueuedOnce /\ OneSocket /\ SocketHeld /\ AnswersFollow
    BY <1>1 DEF ServerInv
  <2>2. ASSUME NEW d \in Clients, Connect(d) PROVE FALSE
    BY <1>1, <2>1, <2>2 DEF Connect, TypeOK
  <2>3. ~ AcceptFails
    <3>1. ASSUME AcceptFails PROVE FALSE
      <4>1. Head(backlog) = backlog[1] /\ 1 \in DOMAIN backlog /\ backlog[1] \in Clients
        BY <2>1, <3>1, QueueTyped DEF AcceptFails
      <4>2. conn[Head(backlog)] = "queued"
        BY <2>1, <4>1 DEF QueuedOnce
      <4> QED BY <1>1, <2>1, <3>1, <4>1, <4>2 DEF AcceptFails, TypeOK
    <3> QED BY <3>1
  <2>4. ~ Accept
    <3>1. ASSUME Accept PROVE FALSE
      <4>1. conn' = [conn EXCEPT ![cur'] = "open"]
        BY <3>1 DEF Accept
      <4>2. conn \in [Clients -> {"none", "queued", "open", "closed"}]
        BY <2>1 DEF TypeOK
      <4>3. conn'[c] \in {conn[c], "open"}
        BY <1>1, <4>1, <4>2
      <4> QED BY <1>1, <4>3
    <3> QED BY <3>1
  <2>5. Close /\ pc \in {"read", "close", "end"} /\ (pc = "read" => sent[cur] = NoRequest)
    BY <1>1, <2>2, <2>3, <2>4 DEF Next, Loop, Leave, Send, ReadEof, ReadRequest, Unroutable, Route,
       Authorized, Unauthorized, Page, Form, RedirectLoggedIn, Api, Silent, HandlerFaults,
       EndStopped, End, Release, DoubleFree, Restart, Respond, server, clients
  <2>6. fd \in 1 .. FdMax /\ fds[fd] = c
    BY <1>1, <2>1, <2>5 DEF Close, TypeOK
  <2>7. c = cur
    BY <2>1, <2>6 DEF OneSocket
  <2> QED BY <1>1, <2>1, <2>5, <2>6, <2>7 DEF AnswersFollow
<1>2. ServerInv /\ [Next]_vars =>
        [\A c \in Clients :
           /\ conn[c] = "open" /\ conn'[c] = "closed" /\ pc # "dead"
           /\ sent[c] # NoRequest /\ c \notin gone
           => \/ answers[c] # <<>>
              \/ /\ sent[c].path \in {"/login", "/register"}
                 /\ sent[c].method \in {"get", "post"}]_vars
  BY <1>1 DEF LowerCase
<1> QED BY <1>2, ServerInvariant, PTL DEF Spec, AnsweredBeforeClose

-----------------------------------------------------------------------------
(* When the process survives.                                              *)

(* Who asked has not left, requests are handled as sent, and a stopped     *)
(* request holds no parameters.                                            *)
AliveInv ==
  /\ ServerInv /\ StaysAlive
  /\ \A c \in gone : sent[c] = NoRequest
  /\ pc \in {"route", "auth", "handler"} => req = sent[cur]
  /\ pc = "auth" => req.path \in Protected /\ params = IF req.form THEN "held" ELSE "none"
  /\ pc = "route" \/ pc = "close" => params = "none"
  /\ pc \in {"handler", "end"} => params # "freed"

LEMMA AliveInvNext ==
  ASSUME AliveInv, [Next]_vars, GoodClients
  PROVE  AliveInv'
<1>1. ServerInv /\ ServerInv'
  BY ServerInvNext DEF AliveInv
<1>2. /\ pc \in {"route", "auth", "handler"} =>
           /\ sent[cur] \in Requests /\ ~ Lethal(req) /\ cur \in Clients /\ cur \notin gone
           /\ sent[cur] # NoRequest
  <2>1. pc \in {"route", "auth", "handler"} => sent[cur] # NoRequest
    BY <1>1 DEF ServerInv, OwnRequest
  <2> QED BY <1>1, <2>1, AsSent DEF AliveInv, GoodClients
<1> USE DEF AliveInv, StaysAlive
<1>3. ASSUME NEW c \in Clients, Connect(c) \/ Leave(c) \/ \E r \in Requests : Send(c, r)
      PROVE  AliveInv'
  <2>1. \A d \in gone' : sent'[d] = NoRequest
    BY <1>1, <1>3 DEF Connect, Leave, Send, GoodClients, ServerInv, TypeOK
  <2>2. UNCHANGED <<pc, fds, fd, cur, req, params, accounts>>
    BY <1>3 DEF Connect, Leave, Send, server
  <2>3. pc \in {"route", "auth", "handler"} => sent'[cur] = req
    <3>1. pc \in {"route", "auth", "handler"} => cur \in Clients /\ conn[cur] = "open"
      BY <1>1 DEF ServerInv, SocketHeld, OneSocket, TypeOK
    <3>2. CASE Connect(c) \/ Leave(c)
      <4>1. \/ sent' = sent
            \/ conn[c] # "open" /\ sent' = [sent EXCEPT ![c] = NoRequest]
        <5>1. CASE Connect(c)
          BY <5>1 DEF Connect
        <5>2. CASE Leave(c)
          BY <5>2 DEF Leave
        <5> QED BY <3>2, <5>1, <5>2
      <4>2. sent \in [Clients -> Requests \cup {NoRequest}]
        BY <1>1 DEF ServerInv, TypeOK
      <4> QED BY <1>2, <3>1, <4>1, <4>2
    <3>3. ASSUME NEW r \in Requests, Send(c, r)
          PROVE  pc \in {"route", "auth", "handler"} => sent'[cur] = req
      BY <1>1, <1>2, <3>1, <3>3 DEF Send, ServerInv, TypeOK
    <3> QED BY <1>3, <3>2, <3>3
  <2> QED BY <1>1, <2>1, <2>2, <2>3 DEF Free, LineTooShort, Overflows
<1>4. CASE Accept \/ AcceptFails \/ ReadEof \/ EndStopped \/ End \/ Restart
  BY <1>1, <1>4 DEF Accept, AcceptFails, ReadEof, EndStopped, End, Release, Restart
<1>5. CASE ReadRequest
  <2>1. req' = sent[cur]
    BY <1>5 DEF ReadRequest, Delivered, GoodClients
  <2> QED BY <1>1, <1>5, <2>1 DEF ReadRequest, clients
<1>6. CASE Unroutable \/ Unauthorized
  <2>1. pc' \in {"end", "close"} /\ params' = params /\ UNCHANGED <<sent, gone>>
    BY <1>2, <1>6 DEF Unroutable, Unauthorized, Respond
  <2>2. params = "none"
    BY <1>2, <1>6 DEF Unroutable, Unauthorized, Lethal
  <2> QED BY <1>1, <2>1, <2>2
<1>7. CASE Route \/ Authorized
  BY <1>1, <1>7 DEF Route, Authorized, clients
<1>8. CASE Page \/ Form \/ RedirectLoggedIn \/ Api \/ Silent
  <2>1. pc = "handler" /\ pc' = "end" /\ params' = params /\ UNCHANGED <<sent, gone>>
    BY <1>2, <1>8 DEF Page, Form, RedirectLoggedIn, Api, Silent, Respond, clients
  <2> QED BY <1>1, <2>1
<1>9. CASE HandlerFaults
  <2>1. Free = {} \/ LineTooShort \/ Overflows
    <3>1. req.path \in Protected => req.token = "good"
      BY <1>1, <1>9 DEF HandlerFaults, ServerInv, OwnRequest
    <3> QED BY <1>2, <1>9, <3>1 DEF HandlerFaults, IsMissing, IsForm, Lethal, Protected
  <2> QED BY <1>1, <1>9, <2>1 DEF HandlerFaults, Free, LineTooShort, Overflows, clients
<1>10. ~ DoubleFree
  BY DEF DoubleFree
<1>11. CASE UNCHANGED vars
  BY <1>1, <1>11 DEF vars, server, clients, Free, LineTooShort, Overflows
<1> QED BY <1>3, <1>4, <1>5, <1>6, <1>7, <1>8, <1>9, <1>10, <1>11 DEF Next, Loop

(* The process dies only with every descriptor taken by the templates it   *)
(* never closed, or with an account table that list_accounts cannot list,  *)
(* provided clients send whole requests, none lethal, and do not hang up   *)
(* while they wait. The hypothesis is what the run server_browser gives    *)
(* its constants.                                                          *)
THEOREM GoodClientsKeepItAlive ==
  ASSUME GoodClients
  PROVE  Spec => []StaysAlive
<1>1. Init => AliveInv
  BY ServerInvInit DEF AliveInv, StaysAlive, Init
<1>2. AliveInv /\ [Next]_vars => AliveInv'
  BY AliveInvNext
<1>3. AliveInv => StaysAlive
  BY DEF AliveInv
<1> QED BY <1>1, <1>2, <1>3, PTL DEF Spec

=============================================================================
