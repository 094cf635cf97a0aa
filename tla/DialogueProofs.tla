---------------------------- MODULE DialogueProofs ----------------------------
(***************************************************************************)
(* For any number of clients, iterations and bytes: client and service     *)
(* never wait for each other, and with messages that arrive whole they     *)
(* alternate, whichever process or descriptor ends first.                  *)
(***************************************************************************)
EXTENDS Dialogue, TLAPS

Typed ==
  /\ client \in [Clients -> {"connect", "write", "read", "closed", "failed"}]
  /\ up \in [Clients -> Nat]
  /\ down \in [Clients -> Nat]
  /\ service \in [Clients -> {"none", "queued", "read", "write", "lost", "over"}]

\* A client that waits for a service still to come, or one that reads too, has
\* something on the way.
Flow(c) ==
  /\ client[c] = "connect" => service[c] = "none" /\ up[c] = 0 /\ down[c] = 0
  /\ client[c] = "read" /\ service[c] \in {"queued", "read", "lost"} =>
       up[c] > 0 \/ down[c] > 0

\* What is on the way with whole messages: nothing, the request, or the answer.
Exchange(c) ==
  \/ /\ client[c] \in {"connect", "write", "closed", "failed"}
     /\ service[c] # "write" /\ up[c] = 0 /\ down[c] = 0
  \/ /\ client[c] = "read" /\ service[c] # "write"
     /\ up[c] = Request /\ down[c] = 0
  \/ client[c] = "read" /\ service[c] = "write" /\ up[c] = 0 /\ down[c] = 0
  \/ client[c] = "read" /\ service[c] = "read" /\ up[c] = 0 /\ down[c] = Answer

Connection(c) == Flow(c) /\ (whole /\ service[c] # "over" => Exchange(c))

IInv == Typed /\ \A c \in Clients : Connection(c)

\* A step of c leaves every other connection as it is, but for services it ends.
Aside(c) ==
  \A d \in Clients \ {c} :
    /\ client'[d] = client[d] /\ up'[d] = up[d] /\ down'[d] = down[d]
    /\ \/ service'[d] = service[d]
       \/ service[d] # "none" /\ service'[d] = "over"

\* The invariant holds at the start.
LEMMA InitIInv == Init => IInv
BY DEF Init, IInv, Typed, Connection, Flow, Exchange

\* The end of a process turns services to "over", and no others.
LEMMA LeftTyped ==
  ASSUME NEW s \in [Clients -> {"none", "queued", "read", "write", "lost", "over"}],
         NEW p
  PROVE  /\ Left(s, p) \in [Clients -> {"none", "queued", "read", "write", "lost", "over"}]
         /\ \A c \in Clients : \/ Left(s, p)[c] = s[c]
                               \/ s[c] # "none" /\ Left(s, p)[c] = "over"
BY DEF Left

\* A read returns bytes that are there, with whole messages all of them.
LEMMA PieceFits ==
  ASSUME NEW n \in Nat, NEW k \in Piece(n) \ {0}
  PROVE  k \in Nat /\ k > 0 /\ n - k \in Nat /\ (whole => k = n)
BY DEF Piece

\* ServerEnds ends services and touches nothing else.
LEMMA ServerEndsAside ==
  ASSUME Typed, ServerEnds
  PROVE  /\ service' \in [Clients -> {"none", "queued", "read", "write", "lost", "over"}]
         /\ \A d \in Clients : \/ service'[d] = service[d]
                               \/ service[d] # "none" /\ service'[d] = "over"
<1> DEFINE s == [c \in Clients |->
                   IF kind = "forked" \/ service[c] \in {"none", "queued"}
                   THEN service[c] ELSE "over"]
<1>1. s \in [Clients -> {"none", "queued", "read", "write", "lost", "over"}]
  BY DEF Typed
<1>2. service' = Left(s, "down")
  BY DEF ServerEnds
<1>3. \A d \in Clients : s[d] = service[d] \/ (service[d] # "none" /\ s[d] = "over")
  OBVIOUS
<1> HIDE DEF s
<1> QED
  BY <1>1, <1>2, <1>3, LeftTyped

\* Ended(c) ends the service of c.
LEMMA EndedAside ==
  ASSUME Typed, NEW c \in Clients, service[c] # "none", service' = Ended(c)
  PROVE  /\ service' \in [Clients -> {"none", "queued", "read", "write", "lost", "over"}]
         /\ service'[c] = "over"
         /\ \A d \in Clients : \/ service'[d] = service[d]
                               \/ service[d] # "none" /\ service'[d] = "over"
<1> DEFINE s == [service EXCEPT ![c] = "over"]
<1>1. s \in [Clients -> {"none", "queued", "read", "write", "lost", "over"}]
  BY DEF Typed
<1>2. service' = Left(s, server)
  BY DEF Ended
<1>3. s[c] = "over" /\ \A d \in Clients \ {c} : s[d] = service[d]
  BY DEF Typed
<1> HIDE DEF s
<1>4. service'[c] = "over"
  BY <1>1, <1>2, <1>3, LeftTyped
<1> QED
  BY <1>1, <1>2, <1>3, <1>4, LeftTyped

\* Steps of the client.
LEMMA ClientKeeps ==
  ASSUME IInv, NEW c \in Clients, ClientStep(c)
  PROVE  Typed' /\ Connection(c)' /\ Aside(c)
<1> USE DialogueAssumption DEF IInv, Typed, Aside, Connection, Flow, Exchange, setting
<1>1. CASE clientConnection(c)
  BY <1>1 DEF ClientStep, clientConnection, Goes
<1>2. CASE ClientWrite(c)
  BY <1>2 DEF ClientStep, ClientWrite, Goes
<1>3. CASE ClientRead(c)
  <2>1. ASSUME NEW n \in Piece(down[c]) \ {0}, down' = [down EXCEPT ![c] = @ - n],
               Iterated(c)
        PROVE  Typed' /\ Connection(c)' /\ Aside(c)
    <3>1. n \in Nat /\ n > 0 /\ down[c] - n \in Nat /\ (whole => n = down[c])
      BY <2>1, PieceFits
    <3> QED
      BY <1>3, <2>1, <3>1 DEF ClientStep, ClientRead, Iterated, Goes
  <2>2. ASSUME service[c] = "over", UNCHANGED down, Iterated(c) \/ Goes(c, "failed")
        PROVE  Typed' /\ Connection(c)' /\ Aside(c)
    BY <1>3, <2>2 DEF ClientStep, ClientRead, Iterated, Goes
  <2> QED
    BY <1>3, <2>1, <2>2 DEF ClientRead
<1> QED
  BY <1>1, <1>2, <1>3 DEF ClientStep

\* accept fails: services end, and nothing else changes.
LEMMA AcceptFailsKeeps ==
  ASSUME IInv, AcceptFails
  PROVE  IInv'
<1>1. /\ service' \in [Clients -> {"none", "queued", "read", "write", "lost", "over"}]
      /\ \A d \in Clients : \/ service'[d] = service[d]
                            \/ service[d] # "none" /\ service'[d] = "over"
  BY ServerEndsAside DEF IInv, AcceptFails
<1>2. UNCHANGED <<whole, client, up, down>>
  BY DEF AcceptFails, setting
<1>3. ASSUME NEW d \in Clients PROVE Connection(d)'
  BY <1>1, <1>2 DEF IInv, Connection, Flow, Exchange
<1> QED
  BY <1>1, <1>2, <1>3 DEF IInv, Typed

\* Steps of the service.
LEMMA ServiceKeeps ==
  ASSUME IInv, NEW c \in Clients, ServiceStep(c)
  PROVE  Typed' /\ Connection(c)' /\ Aside(c)
<1> USE DialogueAssumption DEF IInv, Typed, Aside, Connection, Flow, Exchange, setting
<1>0. whole' = whole
  BY DEF ServiceStep
<1>1. CASE Accept(c)
  BY <1>0, <1>1 DEF Accept, doServiceThr
<1>3. CASE doService_read(c)
  <2>1. ASSUME NEW n \in Piece(up[c]) \ {0}, up' = [up EXCEPT ![c] = @ - n],
               service' = [service EXCEPT ![c] = "write"]
        PROVE  Typed' /\ Connection(c)' /\ Aside(c)
    <3>1. n \in Nat /\ n > 0 /\ up[c] - n \in Nat /\ (whole => n = up[c])
      BY <2>1, PieceFits
    <3> QED
      BY <1>0, <1>3, <2>1, <3>1 DEF doService_read
  <2>2. ASSUME service' = Ended(c), UNCHANGED up
        PROVE  Typed' /\ Connection(c)' /\ Aside(c)
    <3>1. service[c] # "none"
      BY <1>3 DEF doService_read
    <3> QED
      BY <1>0, <1>3, <2>2, <3>1, EndedAside DEF doService_read
  <2> QED
    BY <1>3, <2>1, <2>2 DEF doService_read
<1>4. CASE doService_write(c)
  <2>1. ASSUME down' = [down EXCEPT ![c] = @ + Answer],
               service' = [service EXCEPT ![c] = "read"]
        PROVE  Typed' /\ Connection(c)' /\ Aside(c)
    BY <1>0, <1>4, <2>1 DEF doService_write
  <2>2. ASSUME Closed(c), Killed(c), UNCHANGED down
        PROVE  Typed' /\ Connection(c)' /\ Aside(c)
    <3>1. service[c] = "write"
      BY <1>4 DEF doService_write
    <3>2. CASE kind = "forked"
      BY <1>0, <1>4, <2>2, <3>1, <3>2, EndedAside DEF doService_write, Killed, Closed
    <3>3. CASE kind # "forked"
      BY <1>0, <1>4, <2>2, <3>1, <3>3, ServerEndsAside DEF doService_write, Killed, Closed
    <3> QED
      BY <3>2, <3>3
  <2> QED
    BY <1>4, <2>1, <2>2 DEF doService_write
<1> QED
  BY <1>1, <1>3, <1>4 DEF ServiceStep

\* Every step keeps the invariant.
LEMMA StepIInv == IInv /\ [Next]_vars => IInv'
<1> SUFFICES ASSUME IInv, [Next]_vars PROVE IInv'
  OBVIOUS
<1>1. ASSUME NEW c \in Clients, ClientStep(c) \/ ServiceStep(c) PROVE IInv'
  <2>1. Typed' /\ Connection(c)' /\ Aside(c)
    BY <1>1, ClientKeeps, ServiceKeeps
  <2>2. whole' = whole
    BY <1>1 DEF ClientStep, ServiceStep, setting
  <2>3. ASSUME NEW d \in Clients \ {c} PROVE Connection(d)'
    BY <2>1, <2>2 DEF IInv, Aside, Connection, Flow, Exchange
  <2> QED
    BY <2>1, <2>3 DEF IInv
<1>2. CASE UNCHANGED vars
  BY <1>2 DEF vars, setting, IInv, Typed, Connection, Flow, Exchange
<1> QED
  BY <1>1, <1>2, AcceptFailsKeeps DEF Next

LEMMA IInvHolds == Spec => []IInv
BY InitIInv, StepIInv, PTL DEF Spec

\* Client and service never both read with nothing on the way, in whatever
\* pieces the streams come.
THEOREM NeverBothWait == Spec => []NoMutualWait
<1>1. IInv => NoMutualWait
  BY DEF IInv, Connection, Flow, NoMutualWait
<1> QED
  BY <1>1, IInvHolds, PTL

\* With whole messages one is on the way at most, until the service is over, and
\* none is when the client closes.
THEOREM TheyAlternate == Spec => []Alternates
<1>1. IInv => Alternates
  BY DialogueAssumption DEF IInv, Typed, Connection, Flow, Exchange, Alternates, Closed
<1> QED
  BY <1>1, IInvHolds, PTL

-----------------------------------------------------------------------------
\* The other variables: nobody changes the setting, a client counts its requests
\* and makes one only while there are some left.
Counting ==
  /\ kind \in Kinds /\ whole \in BOOLEAN /\ limit \in Limits /\ creates \in BOOLEAN
  /\ i \in [Clients -> 0..num_it]
  /\ \A c \in Clients : /\ client[c] = "connect" => i[c] = 0
                        /\ client[c] \in {"write", "read"} => i[c] < num_it
  /\ server \in {"up", "down"}

LEMMA NextCounting == IInv /\ Counting /\ [Next]_vars => Counting'
<1> SUFFICES ASSUME IInv, Counting, [Next]_vars PROVE Counting'
  OBVIOUS
<1>1. CASE UNCHANGED vars
  BY <1>1 DEF vars, setting, Counting
<1>2. ASSUME NEW c \in Clients, ClientStep(c) PROVE Counting'
  <2>1. UNCHANGED setting /\ UNCHANGED server
    BY <1>2 DEF ClientStep, clientConnection, ClientWrite, ClientRead
  <2>2. i' = i \/ (client[c] = "read" /\ i' = [i EXCEPT ![c] = @ + 1])
    BY <1>2 DEF ClientStep, clientConnection, ClientWrite, ClientRead, Iterated
  <2>3. i' \in [Clients -> 0..num_it]
    BY <2>2, DialogueAssumption DEF Counting
  <2>4. ASSUME NEW d \in Clients
        PROVE  /\ client'[d] = "connect" => i'[d] = 0
               /\ client'[d] \in {"write", "read"} => i'[d] < num_it
    <3> USE DialogueAssumption DEF IInv, Typed, Counting
    <3>1. CASE clientConnection(c)
      BY <1>2, <3>1 DEF clientConnection, Goes
    <3>2. CASE ClientWrite(c)
      BY <1>2, <3>2 DEF ClientWrite, Goes
    <3>3. CASE ClientRead(c)
      <4>1. Iterated(c) \/ (i' = i /\ Goes(c, "failed"))
        BY <3>3 DEF ClientRead
      <4>2. client[c] = "read" /\ i[c] < num_it /\ i[c] \in 0..num_it
        BY <3>3 DEF ClientRead
      <4>3. CASE d = c
        BY <4>1, <4>2, <4>3 DEF Iterated, Goes
      <4>4. CASE d # c
        BY <4>1, <4>4 DEF Iterated, Goes
      <4> QED
        BY <4>3, <4>4
    <3> QED
      BY <1>2, <3>1, <3>2, <3>3 DEF ClientStep
  <2> QED
    BY <2>1, <2>3, <2>4 DEF Counting, setting
<1>3. ASSUME NEW c \in Clients, ServiceStep(c) PROVE Counting'
  <2>1. UNCHANGED setting /\ UNCHANGED <<client, i>>
    BY <1>3 DEF ServiceStep, Accept, doService_read, doService_write
  <2>2. server' = server \/ server' = "down"
    BY <1>3 DEF ServiceStep, Accept, ServerEnds, doService_read, doService_write, Killed
  <2> QED
    BY <2>1, <2>2 DEF Counting, setting
<1>4. CASE AcceptFails
  BY <1>4 DEF AcceptFails, ServerEnds, Counting, setting
<1> QED
  BY <1>1, <1>2, <1>3, <1>4 DEF Next

\* No client of clientSocket.c makes more requests than it was asked to, even when
\* an answer comes in pieces and every piece counts as one, and the streams hold
\* no less than nothing.
THEOREM RequestsInRange == Spec => []TypeOK
<1>1. Init => Counting
  <2> SUFFICES ASSUME Init PROVE Counting
    OBVIOUS
  <2>1. creates \in BOOLEAN
    BY DEF Init
  <2> QED
    BY <2>1, DialogueAssumption DEF Init, Counting
<1>2. IInv /\ Counting => TypeOK
  BY DEF IInv, Typed, Counting, TypeOK
<1> QED
  BY <1>1, <1>2, IInvHolds, NextCounting, PTL DEF Spec
=============================================================================
