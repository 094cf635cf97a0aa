------------------------------- MODULE Dialogue -------------------------------
(***************************************************************************)
(* The dialogue of SOCKETS/clientSocket.c with doService: num_it times the *)
(* client writes a request and reads, and the server answers whatever it   *)
(* reads until the client closes.  One server serves its clients one after *)
(* the other, the others all at once, each in a process or in a thread of  *)
(* its own.                                                                *)
(*                                                                         *)
(* A connection is two streams of bytes: a read returns some of the bytes  *)
(* that have arrived, which need not be what one write sent.  A client may *)
(* so close with answers still to come; the server's next reads and writes *)
(* then may fail, and a write that does raises SIGPIPE.                    *)
(*                                                                         *)
(* No server closes a connection: once its descriptors are used up accept  *)
(* fails, at once and not with the next client, and the server ends.  A    *)
(* pthread_create that fails leaves its connection to nobody.              *)
(***************************************************************************)
EXTENDS Integers, FiniteSets

CONSTANTS
  Clients,
  num_it,    \* requests each client makes
  Request,   \* bytes of a request, "hola "
  Answer,    \* bytes of an answer, "caracola"
  Kinds,     \* the servers: "sequential", "forked", "threads"
  Limits     \* connections a process may have descriptors for

ASSUME DialogueAssumption ==
  /\ num_it \in Nat /\ Request \in Nat \ {0} /\ Answer \in Nat \ {0}
  /\ Kinds \subseteq {"sequential", "forked", "threads"}
  /\ Limits \subseteq Nat

VARIABLES
  kind,      \* which server it is
  whole,     \* whether messages arrive whole: a read returns all there is
  limit,     \* connections the server has descriptors for
  creates,   \* whether every pthread_create succeeds
  client,    \* where each client is
  i,         \* its iterations
  up, down,  \* bytes on the way to the server, to the client
  service,   \* where its service is
  server     \* the server's process: "up", or "down" once it has ended

setting == <<kind, whole, limit, creates>>
vars == <<setting, client, i, up, down, service, server>>

In(s) == {c \in Clients : service[c] = s}

Busy == In("read") \cup In("write")

Init ==
  /\ kind \in Kinds
  /\ whole \in BOOLEAN
  /\ limit \in Limits
  /\ creates \in IF kind = "threads" THEN BOOLEAN ELSE {TRUE}
  /\ client = [c \in Clients |-> "connect"]
  /\ i = [c \in Clients |-> 0]
  /\ up = [c \in Clients |-> 0]
  /\ down = [c \in Clients |-> 0]
  /\ service = [c \in Clients |-> "none"]
  /\ server = "up"

\* Children inherit the listening socket: clients connect as long as one runs.
Listening(s, process) ==
  \/ process = "up"
  \/ kind = "forked" /\ \E c \in Clients : s[c] \in {"read", "write"}

\* The services s once a process has ended: with the last that listens the
\* connections nobody has accepted are reset.
Left(s, process) ==
  [c \in Clients |->
     IF s[c] = "queued" /\ ~ Listening(s, process) THEN "over" ELSE s[c]]

Ended(c) == Left([service EXCEPT ![c] = "over"], server)

\* How many bytes a read may return of n that are there.
Piece(n) == IF whole THEN {n} ELSE 1..n

Goes(c, s) == client' = [client EXCEPT ![c] = s]

\* The client's next iteration, or its end.
Iterated(c) ==
  /\ i' = [i EXCEPT ![c] = @ + 1]
  /\ Goes(c, IF i[c] + 1 < num_it THEN "write" ELSE "closed")

clientConnection(c) ==
  /\ client[c] = "connect"
  /\ \/ /\ Listening(service, server)
        /\ Goes(c, IF num_it = 0 THEN "closed" ELSE "write")
        /\ service' = [service EXCEPT ![c] = "queued"]
     \/ ~ Listening(service, server) /\ Goes(c, "failed") /\ UNCHANGED service
  /\ UNCHANGED <<i, up, down, server>>

ClientWrite(c) ==
  /\ client[c] = "write"
  /\ \/ Goes(c, "read") /\ up' = [up EXCEPT ![c] = @ + Request]
     \/ service[c] = "over" /\ Goes(c, "failed") /\ UNCHANGED up
  /\ UNCHANGED <<i, down, service, server>>

\* Nobody tells an end of file (0) from an answer.
ClientRead(c) ==
  /\ client[c] = "read"
  /\ \/ /\ \E n \in Piece(down[c]) \ {0} : down' = [down EXCEPT ![c] = @ - n]
        /\ Iterated(c)
     \/ service[c] = "over" /\ down[c] = 0 /\ Iterated(c) /\ UNCHANGED down
     \/ service[c] = "over" /\ Goes(c, "failed") /\ UNCHANGED <<i, down>>
  /\ UNCHANGED <<up, service, server>>

\* The server calls accept.
Accepting == server = "up" /\ (kind = "sequential" => Busy = {})

\* Connections the server's process has open.
open == Cardinality({c \in Clients : service[c] \notin {"none", "queued"}})

\* Where a service begins.  pthread_create fails with a positive number, of which
\* doServiceThr takes no notice: nobody serves the connection, which stays open.
doServiceThr == {"read"} \cup IF creates THEN {} ELSE {"lost"}

Accept(c) ==
  /\ Accepting /\ open < limit
  /\ service[c] = "queued"
  /\ \E s \in doServiceThr : service' = [service EXCEPT ![c] = s]
  /\ UNCHANGED <<client, i, up, down, server>>

\* The server's process ends, and with it every service but its children's.
ServerEnds ==
  /\ server' = "down"
  /\ service' = Left([c \in Clients |->
                       IF kind = "forked" \/ service[c] \in {"none", "queued"}
                       THEN service[c] ELSE "over"], "down")

\* accept takes a descriptor before it looks for a connection, and there is none.
AcceptFails ==
  /\ Accepting /\ open >= limit
  /\ ServerEnds
  /\ UNCHANGED <<setting, client, i, up, down>>

Closed(c) == client[c] \in {"closed", "failed"}

\* (Variants: it answers a whole request only and drops a part; it goes on
\* reading at the end of the stream; it answers the end of the stream.)
doService_read_Exact(c) ==
  /\ service[c] = "read"
  /\ \/ \E n \in Piece(up[c]) \ {0} :
          /\ up' = [up EXCEPT ![c] = @ - n]
          /\ service' = [service EXCEPT ![c] = IF n = Request THEN "write" ELSE "read"]
     \/ /\ Closed(c) /\ up[c] = 0
        /\ service' = [service EXCEPT ![c] = "over"] /\ UNCHANGED up
  /\ UNCHANGED <<client, i, down, server>>
doService_read_IgnoresEnd(c) ==
  /\ service[c] = "read"
  /\ \E n \in Piece(up[c]) \ {0} : up' = [up EXCEPT ![c] = @ - n]
  /\ service' = [service EXCEPT ![c] = "write"]
  /\ UNCHANGED <<client, i, down, server>>
doService_read_AnswersEnd(c) ==
  /\ service[c] = "read"
  /\ up[c] > 0 \/ Closed(c)
  /\ up' = [up EXCEPT ![c] = 0]
  /\ service' = [service EXCEPT ![c] = "write"]
  /\ UNCHANGED <<client, i, down, server>>

\* ret = read(...): some bytes; or the end of the stream, or the error of one
\* that the client has reset.
doService_read(c) ==
  /\ service[c] = "read"
  /\ \/ \E n \in Piece(up[c]) \ {0} :
          /\ up' = [up EXCEPT ![c] = @ - n]
          /\ service' = [service EXCEPT ![c] = "write"]
     \/ /\ Closed(c) /\ (up[c] = 0 \/ down[c] > 0)
        /\ service' = Ended(c) /\ UNCHANGED up
  /\ UNCHANGED <<client, i, down, server>>

\* A write the client no longer takes raises SIGPIPE, which ends the process.
Killed(c) ==
  IF kind = "forked" THEN service' = Ended(c) /\ UNCHANGED server
  ELSE ServerEnds

doService_write(c) ==
  /\ service[c] = "write"
  /\ \/ /\ down' = [down EXCEPT ![c] = @ + Answer]
        /\ service' = [service EXCEPT ![c] = "read"]
        /\ UNCHANGED server
     \/ Closed(c) /\ Killed(c) /\ UNCHANGED down
  /\ UNCHANGED <<client, i, up>>

ClientStep(c) ==
  /\ clientConnection(c) \/ ClientWrite(c) \/ ClientRead(c)
  /\ UNCHANGED setting

ServiceStep(c) ==
  /\ Accept(c) \/ doService_read(c) \/ doService_write(c)
  /\ UNCHANGED setting

Next ==
  \/ \E c \in Clients : ClientStep(c) \/ ServiceStep(c)
  \/ AcceptFails

\* Every process and thread is scheduled.
Spec ==
  /\ Init /\ [][Next]_vars
  /\ WF_vars(AcceptFails)
  /\ \A c \in Clients : WF_vars(ClientStep(c)) /\ WF_vars(ServiceStep(c))

-----------------------------------------------------------------------------
TypeOK ==
  /\ kind \in Kinds
  /\ whole \in BOOLEAN
  /\ limit \in Limits
  /\ creates \in BOOLEAN
  /\ client \in [Clients -> {"connect", "write", "read", "closed", "failed"}]
  /\ i \in [Clients -> 0..num_it]
  /\ up \in [Clients -> Nat]
  /\ down \in [Clients -> Nat]
  /\ service \in [Clients -> {"none", "queued", "read", "write", "lost", "over"}]
  /\ server \in {"up", "down"}

\* The two never wait for each other, whatever pieces the streams come in: while
\* a client waits to read and its service too, there are bytes on the way.
NoMutualWait ==
  \A c \in Clients :
    client[c] = "read" /\ service[c] = "read" => up[c] > 0 \/ down[c] > 0

\* With messages that arrive whole the dialogue alternates for as long as the
\* service lasts: one message is on the way at most, and nothing is when the
\* client closes, so every read fits its buffer and no write meets a closed
\* connection.
Alternates ==
  whole =>
    \A c \in Clients : service[c] # "over" =>
      /\ <<up[c], down[c]>> \in {<<0, 0>>, <<Request, 0>>, <<0, Answer>>}
      /\ Closed(c) => up[c] + down[c] = 0 /\ service[c] # "write"

\* Every client ends, served or not, whether its service, its server or the
\* descriptors end first; only one whose connection has no thread may wait for
\* ever, and only while the server goes on.
ClientsEnd ==
  \A c \in Clients : <>Closed(c) \/ <>[](service[c] = "lost" /\ server = "up")

\* With messages that arrive whole, a descriptor for each and a thread for each,
\* every client is served to its last request, also behind others in the queue
\* of the sequential server.  The server of threads needs a descriptor more: with
\* accept failing after its last client it ends under the others.  (The sequential
\* one then has served them all, and the children of the forked one go on.)
AllServed ==
  /\ whole /\ creates
  /\ Cardinality(Clients) + (IF kind = "threads" THEN 1 ELSE 0) <= limit
  => \A c \in Clients : <>(client[c] = "closed" /\ i[c] = num_it)
=============================================================================
