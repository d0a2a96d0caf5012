---------------------------- MODULE SerialProofs ----------------------------
(***************************************************************************)
(* Proofs about SerialSession, for any number of clients, any buffer sizes, *)
(* and any number of chunks and reconnects.                                 *)
(*                                                                          *)
(* What Close leaves behind rests on its wait for the goroutines: past it   *)
(* the adapter loop, the accept loop and every client are at their end      *)
(* (InvQuiet), and each of them has released by then what it held (InvPort, *)
(* InvGone, InvConns).  What a client sees is followed through the channel, *)
(* the goroutine's hand and the socket as one sequence (Seen), which only   *)
(* the fan-out extends.                                                     *)
(*                                                                          *)
(* Proofs about SerialOwner, for every finite set of processes, whichever   *)
(* of them are the TUI or `yoe serial send`, and any number of starts and   *)
(* kills.                                                                   *)
(*                                                                          *)
(* SoleOwner is not inductive: that a process may remove a socket without   *)
(* taking it from its owner rests on nobody serving while any process is    *)
(* about to change the path, and that in turn on at most one process being  *)
(* about to.  A client is known by what its peer does, since its peer's     *)
(* place is all that a step of another process can disturb.                 *)
(***************************************************************************)
EXTENDS SerialSession, SerialOwner, SequenceTheorems, FiniteSetTheorems, TLAPS

(* The session *)

AdapterSteps == {"connect", "opened", "connected", "reading", "got", "logged", "drop", "dropped",
                 "lost", "failed", "sleep", "ended"}
ClosingSteps == {"idle", "cancel", "close", "wait", "flush", "file", "returned"}
ClientSteps == {"none", "accepted", "subscribed", "serving", "writing", "leaving", "left", "done"}

Chunks == Seq(Nat)
ClientStates == [pc : ClientSteps, open : BOOLEAN, sub : {"none", "open", "closed"}, q : Chunks,
                 hand : Chunks, got : Chunks, unread : 0 .. SockCap, since : Nat]

(* The types of the adapter loop, of Close and of the log. *)
InvAdapter ==
    /\ pc \in AdapterSteps /\ cl \in ClosingSteps /\ srv \in {"accept", "busy", "ended"}
    /\ mine \in 0 .. MaxOpens /\ clT \in 0 .. MaxOpens
    /\ port \in [open : SUBSET (1 .. MaxOpens), live : SUBSET (1 .. MaxOpens), opens : 0 .. MaxOpens]
    /\ port.live \subseteq port.open
    /\ log \in [lines : Chunks, partial : Chunks, open : BOOLEAN]
    /\ nread \in 0 .. MaxChunks /\ dropped \in Nat
    /\ pc \in {"got", "logged"} => nread > 0

SessionStates == [kind : {"waiting", "connected", "closed"}, transport : 0 .. MaxOpens, ctxDone : BOOLEAN,
                  listening : BOOLEAN, conns : SUBSET Clients, clients : Nat]

(* The types of the session and of the clients. *)
InvClients ==
    /\ ses \in SessionStates
    /\ cli \in [Clients -> ClientStates]
    /\ \A c \in Clients : Len(cli[c].q) <= SubCap

SessionTypes == InvAdapter /\ InvClients

(* The port the adapter loop opened is the only one, and it is closed when  *)
(* the loop waits to open another.                                          *)
InvPort ==
    /\ port.open \subseteq {mine}
    /\ pc \in {"connect", "lost", "failed", "sleep", "ended"} => port.open = {}

(* The session counts the clients whose goroutine runs. *)
Registered == {c \in Clients : cli[c].pc \in {"serving", "writing", "leaving", "left"}}
InvConns == ses.conns = Registered /\ ses.clients = Cardinality(Registered)

(* A client that was never accepted has no channel; one that is done has    *)
(* given up its channel and its connection.                                 *)
InvGone ==
    \A c \in Clients :
        /\ cli[c].pc = "none" => cli[c].sub = "none"
        /\ cli[c].pc \in {"left", "done"} => cli[c].sub = "closed"
        /\ cli[c].pc = "done" => ~cli[c].open

(* Past its wait, Close is alone. *)
Waited == cl \in {"flush", "file", "returned"}
InvQuiet == Waited => pc = "ended" /\ srv = "ended" /\ \A c \in Clients : ~Running(c)

(* The file stays open until Close has flushed the last line. *)
InvFile ==
    /\ cl # "returned" => log.open
    /\ cl \in {"file", "returned"} => log.partial = <<>>

CloseInv == SessionTypes /\ InvPort /\ InvConns /\ InvGone /\ InvQuiet /\ InvFile

-----------------------------------------------------------------------------
(* The sequences of chunks *)

Logged == IF pc = "got" THEN nread - 1 ELSE nread

Seen(c) == cli[c].got \o cli[c].hand \o cli[c].q

(* What a client has seen ends at the last chunk fanned out, in order, and, *)
(* once it is counted and nothing was dropped, misses nothing.              *)
Ordered(s, last) ==
    /\ \A i \in 1 .. Len(s) : s[i] <= last
    /\ \A i \in 1 .. Len(s) - 1 : s[i] < s[i + 1]
Holds(s, first, last) == \A n \in first + 1 .. last : \E i \in 1 .. Len(s) : s[i] = n
Unhanded == {"none", "accepted", "subscribed", "serving"}
Counted(c) == cli[c].pc \in {"serving", "writing"} /\ cli[c].sub = "open" /\ dropped = 0

SeenBy(c) ==
    /\ cli[c].pc \in Unhanded => cli[c].hand = <<>>
    /\ Ordered(Seen(c), Fanned)
    /\ Counted(c) => Holds(Seen(c), cli[c].since, Fanned)
InvSeen == \A c \in Clients : SeenBy(c)

StreamInv == CloseInv /\ LogComplete /\ InvSeen

-----------------------------------------------------------------------------
(* Types *)

(* Flushing keeps the log's type, leaves the file open or closed, and       *)
(* empties the partial line.                                                *)
LEMMA FlushedType ==
  ASSUME NEW l \in [lines : Chunks, partial : Chunks, open : BOOLEAN]
  PROVE  /\ Flushed(l) \in [lines : Chunks, partial : Chunks, open : BOOLEAN]
         /\ Flushed(l).open = l.open /\ Flushed(l).partial = <<>>
         /\ l.open => Flushed(l).lines = l.lines \o l.partial
<1>1. l.lines \o l.partial \in Chunks /\ <<>> \in Chunks
  BY ConcatProperties, EmptySeq DEF Chunks
<1> QED
  BY <1>1 DEF Flushed

(* A loop's steps keep the types of the adapter loop, of Close and of the   *)
(* log.                                                                     *)
LEMMA NextAdapter == SessionTypes /\ [Next]_vars => InvAdapter'
<1> SUFFICES ASSUME InvAdapter, InvClients, [Next]_vars PROVE InvAdapter'
  BY DEF SessionTypes
<1> USE SerialAssumption DEF InvAdapter, AdapterSteps, ClosingSteps
<1>1. CASE Connect
  <2>1. CASE pc' = "opened"
    <3>1. port.opens \in 0 .. MaxOpens /\ port.opens < MaxOpens /\ MaxOpens \in Nat
      BY <1>1, <2>1 DEF Connect
    <3>2. port.opens + 1 \in 1 .. MaxOpens /\ port.opens + 1 \in 0 .. MaxOpens
      BY ONLY <3>1
    <3>3. /\ port' = [port EXCEPT !.open = @ \union {port.opens + 1}, !.live = {port.opens + 1}, !.opens = @ + 1]
          /\ mine' = port.opens + 1
      BY <1>1, <2>1 DEF Connect
    <3> QED
      BY <1>1, <3>2, <3>3 DEF Connect
  <2>2. CASE pc' = "failed"
    BY <1>1, <2>2 DEF Connect
  <2> QED
    BY <1>1, <2>1, <2>2 DEF Connect
<1>2. CASE SetConnected
  BY <1>2 DEF SetConnected
<1>3. CASE Marker \/ IdleFire \/ CloseLog
  <2>1. log' \in [lines : Chunks, partial : Chunks, open : BOOLEAN]
    BY <1>3, FlushedType DEF Marker, IdleFire, CloseLog
  <2> QED
    BY <1>3, <2>1 DEF Marker, IdleFire, CloseLog
<1>4. CASE Read
  BY <1>4 DEF Read
<1>5. CASE LogWrite
  <2>1. Append(log.partial, nread) \in Chunks
    BY AppendProperties DEF Chunks
  <2>2. [log EXCEPT !.partial = Append(@, nread)] \in [lines : Chunks, partial : Chunks, open : BOOLEAN]
    BY <2>1
  <2>3. log' \in [lines : Chunks, partial : Chunks, open : BOOLEAN]
    BY <1>5, <2>2, FlushedType DEF LogWrite
  <2> QED
    BY <1>5, <2>3 DEF LogWrite
<1>6. CASE Fanout
  <2>1. Full \subseteq Clients
    BY DEF Full, Open
  <2>2. Cardinality(Full) \in Nat
    BY <2>1, FS_Subset, FS_CardinalityType
  <2>3. dropped' \in Nat
    BY <1>6, <2>2 DEF Fanout
  <2> QED
    BY <1>6, <2>3 DEF Fanout
<1>7. CASE DropTransport
  BY <1>7, ZenonT(40) DEF DropTransport
<1>8. CASE SetWaiting \/ Sleep \/ AcceptFails
  BY <1>8 DEF SetWaiting, Sleep, AcceptFails
<1>9. CASE CloseLocked \/ CloseCancel \/ CloseWait
  BY <1>9 DEF CloseLocked, CloseCancel, CloseWait, InvClients, SessionStates
<1>10. CASE CloseTransport \/ Unplug
  <2>1. PICK o \in {port.open, port.open \ {clT}}, l \in {{}, port.live \ {clT}} :
          /\ port' = [port EXCEPT !.open = o, !.live = l]
          /\ l \subseteq o
    BY <1>10 DEF CloseTransport, Unplug
  <2>2. o \subseteq 1 .. MaxOpens /\ l \subseteq 1 .. MaxOpens
    OBVIOUS
  <2>3. /\ port' \in [open : SUBSET (1 .. MaxOpens), live : SUBSET (1 .. MaxOpens), opens : 0 .. MaxOpens]
        /\ port'.live \subseteq port'.open
    BY <2>1, <2>2
  <2> QED
    BY <1>10, <2>3 DEF CloseTransport, Unplug
<1>11. CASE ParentCancel \/ UNCHANGED vars
  BY <1>11 DEF ParentCancel, vars
<1>12. ASSUME NEW c \in Clients, Server(c) \/ Conn(c) \/ Environment(c) PROVE InvAdapter'
  BY <1>12, ZenonT(40) DEF Server, Accept, Subscribe, Count, Conn, Take, Deliver, StopServing, Leave,
     Environment, Dial, ClientReads, ClientCloses
<1> QED
  BY <1>1, <1>2, <1>3, <1>4, <1>5, <1>6, <1>7, <1>8, <1>9, <1>10, <1>11, <1>12 DEF Next, Adapter, Closing

(* Replacing one client's record by one of its type. *)
LEMMA ClientSet ==
  ASSUME InvClients, NEW c \in Clients, NEW x \in ClientStates, Len(x.q) <= SubCap,
         cli' = [cli EXCEPT ![c] = x]
  PROVE  /\ cli' \in [Clients -> ClientStates]
         /\ cli'[c] = x /\ \A d \in Clients : d # c => cli'[d] = cli[d]
         /\ \A d \in Clients : Len(cli'[d].q) <= SubCap
  BY DEF InvClients

(* What a step of a client's goroutine, of the accept loop or of the client *)
(* itself changes: one client's record, to one of its type.                 *)
LEMMA ClientStep ==
  ASSUME InvAdapter, InvClients, NEW c \in Clients, Server(c) \/ Conn(c) \/ Environment(c)
  PROVE  /\ cli' \in [Clients -> ClientStates]
         /\ \A d \in Clients : Len(cli'[d].q) <= SubCap
         /\ \A d \in Clients : d # c => cli'[d] = cli[d]
         /\ UNCHANGED <<pc, mine, cl, clT, port, log, nread, dropped>>
<1>0. /\ cli[c] \in ClientStates /\ Len(cli[c].q) <= SubCap /\ <<>> \in Chunks
      /\ cli[c].q \in Seq(Nat) /\ cli[c].unread \in 0 .. SockCap
  BY EmptySeq DEF Chunks, InvClients, ClientStates
<1>a. SockCap \in Nat /\ SubCap \in Nat
  BY SerialAssumption
<1>b. UNCHANGED <<pc, mine, cl, clT, port, log, nread, dropped>>
  BY DEF Server, Accept, Subscribe, Count, Conn, Take, Deliver, StopServing, Leave,
     Environment, Dial, ClientReads, ClientCloses
<1>c. SUFFICES \E x \in ClientStates : Len(x.q) <= SubCap /\ cli' = [cli EXCEPT ![c] = x]
  <2>1. PICK x \in ClientStates : Len(x.q) <= SubCap /\ cli' = [cli EXCEPT ![c] = x]
    BY <1>c
  <2> HIDE <1>c
  <2> QED
    BY <1>b, <2>1, ClientSet
<1>1. CASE Accept(c)
  <2> DEFINE x == [cli[c] EXCEPT !.pc = "accepted"]
  <2>1. x \in ClientStates /\ x.q = cli[c].q
    BY <1>0 DEF ClientStates, ClientSteps
  <2> QED
    BY <1>0, <1>1, <2>1 DEF Accept
<1>2. CASE Subscribe(c)
  <2> DEFINE x == [cli[c] EXCEPT !.pc = "subscribed", !.sub = IF ses.kind = "closed" THEN "closed" ELSE "open"]
  <2>1. x \in ClientStates /\ x.q = cli[c].q
    BY <1>0 DEF ClientStates, ClientSteps
  <2> QED
    BY <1>0, <1>2, <2>1 DEF Subscribe
<1>3. CASE StopServing(c)
  <2> DEFINE x == [cli[c] EXCEPT !.pc = "leaving"]
  <2>1. x \in ClientStates /\ x.q = cli[c].q
    BY <1>0 DEF ClientStates, ClientSteps
  <2> QED
    BY <1>0, <1>3, <2>1 DEF StopServing
<1>4. CASE Dial(c) \/ ClientCloses(c)
  <2>1. PICK b \in BOOLEAN : cli' = [cli EXCEPT ![c] = [cli[c] EXCEPT !.open = b]]
    BY <1>4 DEF Dial, ClientCloses
  <2> DEFINE x == [cli[c] EXCEPT !.open = b]
  <2>2. x \in ClientStates /\ x.q = cli[c].q
    BY <1>0 DEF ClientStates
  <2> QED
    BY <1>0, <2>1, <2>2
<1>5. CASE ClientReads(c)
  <2> DEFINE x == [cli[c] EXCEPT !.unread = cli[c].unread - 1]
  <2>1. cli[c].unread > 0 /\ cli' = [cli EXCEPT ![c] = x]
    BY <1>5 DEF ClientReads
  <2>2. cli[c].unread - 1 \in 0 .. SockCap
    BY ONLY <1>0, <1>a, <2>1
  <2>3. x \in ClientStates /\ x.q = cli[c].q
    BY <1>0, <2>2 DEF ClientStates
  <2> QED
    BY <1>0, <2>1, <2>3
<1>6. CASE Count(c)
  <2> DEFINE x == [cli[c] EXCEPT !.pc = "serving", !.since = Fanned]
  <2>1. Fanned \in Nat
    BY DEF Fanned, InvAdapter
  <2>2. x \in ClientStates /\ x.q = cli[c].q
    BY <1>0, <2>1 DEF ClientStates, ClientSteps
  <2> QED
    BY <1>0, <1>6, <2>2 DEF Count
<1>7. CASE Take(c)
  <2> DEFINE x == [cli[c] EXCEPT !.pc = "writing", !.hand = <<Head(cli[c].q)>>, !.q = Tail(cli[c].q)]
  <2>1. cli[c].q # <<>> /\ cli' = [cli EXCEPT ![c] = x]
    BY <1>7 DEF Take
  <2>2. /\ Head(cli[c].q) \in Nat /\ Tail(cli[c].q) \in Chunks
        /\ Len(Tail(cli[c].q)) = Len(cli[c].q) - 1 /\ Len(cli[c].q) \in Nat
    BY <1>0, <2>1, HeadTailProperties, LenProperties DEF Chunks
  <2>3. <<Head(cli[c].q)>> \in Chunks
    BY <2>2 DEF Chunks
  <2>4. Len(Tail(cli[c].q)) <= SubCap
    BY <1>0, <1>a, <2>2
  <2>5. x \in ClientStates /\ x.q = Tail(cli[c].q)
    BY <1>0, <2>2, <2>3 DEF ClientStates, ClientSteps
  <2> QED
    BY <2>1, <2>4, <2>5
<1>8. CASE Deliver(c) /\ cli[c].open
  <2> DEFINE x == [cli[c] EXCEPT !.pc = "serving", !.hand = <<>>, !.got = cli[c].got \o cli[c].hand,
                                 !.unread = cli[c].unread + 1]
  <2>1. cli[c].unread < SockCap /\ cli' = [cli EXCEPT ![c] = x]
    BY <1>8 DEF Deliver
  <2>2. cli[c].got \o cli[c].hand \in Chunks
    BY <1>0, ConcatProperties DEF Chunks, ClientStates
  <2>3. cli[c].unread + 1 \in 0 .. SockCap
    BY ONLY <1>0, <1>a, <2>1
  <2>4. x \in ClientStates /\ x.q = cli[c].q
    BY <1>0, <2>2, <2>3 DEF ClientStates, ClientSteps
  <2> QED
    BY <1>0, <2>1, <2>4
<1>9. CASE Deliver(c) /\ ~cli[c].open
  <2> DEFINE x == [cli[c] EXCEPT !.pc = "leaving"]
  <2>1. x \in ClientStates /\ x.q = cli[c].q
    BY <1>0 DEF ClientStates, ClientSteps
  <2> QED
    BY <1>0, <1>9, <2>1 DEF Deliver
<1>10. CASE Leave(c)
  <2>1. PICK p \in {"left", "done"}, s \in {"closed", cli[c].sub}, o \in {cli[c].open, FALSE} :
          cli' = [cli EXCEPT ![c] = [cli[c] EXCEPT !.pc = p, !.sub = s, !.open = o]]
    <3>1. CASE cli[c].pc = "leaving"
      <4>1. cli' = [cli EXCEPT ![c] = [cli[c] EXCEPT !.pc = "left", !.sub = "closed", !.open = cli[c].open]]
        BY <1>0, <1>10, <3>1 DEF Leave, ClientStates
      <4> QED
        BY <4>1
    <3>2. CASE cli[c].pc = "left"
      <4>1. cli' = [cli EXCEPT ![c] = [cli[c] EXCEPT !.pc = "done", !.sub = cli[c].sub, !.open = FALSE]]
        BY <1>0, <1>10, <3>2 DEF Leave, ClientStates
      <4> QED
        BY <4>1
    <3> QED
      BY <1>10, <3>1, <3>2 DEF Leave
  <2> DEFINE x == [cli[c] EXCEPT !.pc = p, !.sub = s, !.open = o]
  <2>2. x \in ClientStates /\ x.q = cli[c].q
    BY <1>0 DEF ClientStates, ClientSteps
  <2> QED
    BY <1>0, <2>1, <2>2
<1> QED
  BY <1>1, <1>2, <1>3, <1>4, <1>5, <1>6, <1>7, <1>8, <1>9, <1>10 DEF Server, Conn, Environment

(* The number of clients counts them. *)
LEMMA RegisteredFinite == IsFiniteSet(Registered) /\ IsFiniteSet(Registered') 
                          /\ Cardinality(Registered) \in Nat /\ Cardinality(Registered') \in Nat
<1>1. Registered \subseteq Clients /\ Registered' \subseteq Clients
  BY DEF Registered
<1> QED
  BY <1>1, FS_Subset, FS_CardinalityType, SerialAssumption

(* Counting and leaving register and deregister one client each. *)
LEMMA NextConns == InvAdapter /\ InvClients /\ InvConns /\ [Next]_vars => InvConns' /\ InvClients'
<1> SUFFICES ASSUME InvAdapter, InvClients, InvConns, [Next]_vars PROVE InvConns' /\ InvClients'
  OBVIOUS
<1>1. ASSUME NEW c \in Clients, Count(c) PROVE InvConns' /\ InvClients'
  <2>1. /\ cli' \in [Clients -> ClientStates] /\ \A d \in Clients : Len(cli'[d].q) <= SubCap
        /\ \A d \in Clients : d # c => cli'[d] = cli[d]
    BY <1>1, ClientStep DEF Server
  <2>2. cli[c].pc = "subscribed" /\ cli'[c].pc = "serving"
    BY <1>1 DEF Count, InvClients, ClientStates
  <2>3. Registered' = Registered \union {c} /\ c \notin Registered
    BY <2>1, <2>2 DEF Registered
  <2>4. Cardinality(Registered') = Cardinality(Registered) + 1
    BY <2>3, RegisteredFinite, FS_AddElement
  <2>5. /\ ses' = [ses EXCEPT !.conns = @ \union {c}, !.clients = @ + 1]
    BY <1>1 DEF Count
  <2>6. InvConns'
    BY <2>3, <2>4, <2>5 DEF InvConns, InvClients, SessionStates
  <2>7. ses.conns \union {c} \in SUBSET Clients /\ ses.clients + 1 \in Nat /\ ses \in SessionStates
    BY DEF InvClients, SessionStates
  <2>8. ses' \in SessionStates
    BY <2>5, <2>7 DEF SessionStates
  <2> QED
    BY <2>1, <2>6, <2>8 DEF InvClients
<1>2. ASSUME NEW c \in Clients, Leave(c) PROVE InvConns' /\ InvClients'
  <2>1. /\ cli' \in [Clients -> ClientStates] /\ \A d \in Clients : Len(cli'[d].q) <= SubCap
        /\ \A d \in Clients : d # c => cli'[d] = cli[d]
    BY <1>2, ClientStep DEF Conn
  <2>2. \A d \in Clients : Len(cli'[d].q) <= SubCap
    BY <2>1 DEF InvClients
  <2>3. CASE cli[c].pc = "leaving"
    <3>1. cli'[c].pc = "left" /\ ses' = ses
      BY <1>2, <2>3 DEF Leave, InvClients, ClientStates
    <3>2. Registered' = Registered
      BY <2>1, <2>3, <3>1 DEF Registered
    <3> QED
      BY <2>1, <2>2, <3>1, <3>2 DEF InvConns, InvClients
  <2>4. CASE cli[c].pc = "left"
    <3>1. /\ cli'[c].pc = "done"
          /\ ses' = [ses EXCEPT !.conns = @ \ {c}, !.clients = @ - 1]
      BY <1>2, <2>4 DEF Leave, InvClients, ClientStates
    <3>2. Registered' = Registered \ {c} /\ c \in Registered
      BY <2>1, <2>4, <3>1 DEF Registered
    <3>3. Cardinality(Registered') = Cardinality(Registered) - 1 /\ Cardinality(Registered') \in Nat
      BY <3>2, RegisteredFinite, FS_RemoveElement
    <3>4. InvConns'
      BY <3>1, <3>2, <3>3 DEF InvConns, InvClients, SessionStates
    <3>5. ses'.clients \in Nat
      BY <3>3, <3>4 DEF InvConns
    <3>6. ses' \in SessionStates
      BY <3>1, <3>5 DEF InvClients, SessionStates
    <3> QED
      BY <2>1, <2>2, <3>4, <3>6 DEF InvClients
  <2> QED
    BY <1>2, <2>3, <2>4 DEF Leave
<1>3. ASSUME NEW c \in Clients, Server(c) \/ Conn(c) \/ Environment(c), ~Count(c), ~Leave(c)
      PROVE  InvConns' /\ InvClients'
  <2>1. /\ cli' \in [Clients -> ClientStates] /\ \A d \in Clients : Len(cli'[d].q) <= SubCap
        /\ \A d \in Clients : d # c => cli'[d] = cli[d]
    BY <1>3, ClientStep
  <2>a. ses' = ses
    BY <1>3 DEF Server, Accept, Subscribe, Conn, Take, Deliver, StopServing,
       Environment, Dial, ClientReads, ClientCloses
  <2>b. \/ cli'[c].pc = cli[c].pc
        \/ cli[c].pc \in {"serving", "writing"} /\ cli'[c].pc \in {"serving", "writing", "leaving"}
        \/ cli[c].pc \in {"none", "accepted"} /\ cli'[c].pc \in {"accepted", "subscribed"}
    <3>0. cli \in [Clients -> ClientStates] /\ cli[c] \in ClientStates
      BY DEF InvClients
    <3>1. CASE Accept(c) \/ Subscribe(c)
      BY <3>0, <3>1 DEF Accept, Subscribe, ClientStates
    <3>2. CASE Take(c) \/ StopServing(c)
      BY <3>0, <3>2 DEF Take, StopServing, ClientStates
    <3>3. CASE Deliver(c)
      BY <3>0, <3>3 DEF Deliver, ClientStates
    <3>4. CASE Environment(c)
      BY <3>0, <3>4 DEF Environment, Dial, ClientReads, ClientCloses, ClientStates
    <3> QED
      BY <1>3, <3>1, <3>2, <3>3, <3>4 DEF Server, Conn
  <2>2. /\ ses' = ses
        /\ (cli[c].pc \in {"serving", "writing", "leaving", "left"})
             <=> (cli'[c].pc \in {"serving", "writing", "leaving", "left"})
    BY <2>a, <2>b
  <2>3. Registered' = Registered
    BY <2>1, <2>2 DEF Registered
  <2>4. \A d \in Clients : Len(cli'[d].q) <= SubCap
    BY <2>1 DEF InvClients
  <2> QED
    BY <2>1, <2>2, <2>3, <2>4 DEF InvConns, InvClients
<1>4. CASE Fanout
  <2>0. SubCap \in Nat
    BY SerialAssumption
  <2>1. ASSUME NEW c \in Clients
        PROVE  cli'[c] \in ClientStates /\ Len(cli'[c].q) <= SubCap /\ cli'[c].pc = cli[c].pc
    <3>1. cli[c] \in ClientStates /\ Len(cli[c].q) <= SubCap /\ cli[c].q \in Seq(Nat)
      BY DEF InvClients, ClientStates, Chunks
    <3>2. CASE c \in Open \ Full
      <4>1. cli'[c] = [cli[c] EXCEPT !.q = Append(cli[c].q, nread)]
        BY <1>4, <3>2 DEF Fanout
      <4>2. Append(cli[c].q, nread) \in Chunks /\ Len(Append(cli[c].q, nread)) = Len(cli[c].q) + 1
        BY <3>1, AppendProperties DEF InvAdapter, Chunks
      <4>3. Len(cli[c].q) # SubCap /\ Len(cli[c].q) \in Nat
        BY <3>1, <3>2, LenProperties DEF Full
      <4>4. Len(Append(cli[c].q, nread)) <= SubCap
        BY <2>0, <3>1, <4>2, <4>3
      <4> QED
        BY <3>1, <4>1, <4>2, <4>4 DEF ClientStates
    <3>3. CASE c \notin Open \ Full
      BY <1>4, <3>1, <3>3 DEF Fanout
    <3> QED
      BY <3>2, <3>3
  <2>2. cli' \in [Clients -> ClientStates]
    <3>1. cli' = [c \in Clients |-> cli'[c]]
      BY <1>4 DEF Fanout
    <3> QED
      BY <2>1, <3>1
  <2>3. Registered' = Registered /\ ses' = ses
    BY <1>4, <2>1 DEF Registered, Fanout
  <2> QED
    BY <2>1, <2>2, <2>3 DEF InvConns, InvClients
<1>5. CASE CloseLocked
  <2>1. ASSUME NEW c \in Clients
        PROVE  cli'[c] \in ClientStates /\ Len(cli'[c].q) <= SubCap /\ cli'[c].pc = cli[c].pc
    <3>1. cli[c] \in ClientStates /\ Len(cli[c].q) <= SubCap
      BY DEF InvClients
    <3> QED
      BY <1>5, <3>1 DEF CloseLocked, ClientStates
  <2>2. cli' \in [Clients -> ClientStates]
    <3>1. cli' = [c \in Clients |-> cli'[c]]
      BY <1>5 DEF CloseLocked
    <3> QED
      BY <2>1, <3>1
  <2>3. Registered' = Registered
    BY <2>1 DEF Registered
  <2>4. 0 \in 0 .. MaxOpens
    BY SerialAssumption
  <2>5. ses' = [ses EXCEPT !.kind = "closed", !.transport = 0, !.listening = FALSE]
    BY <1>5 DEF CloseLocked
  <2>6. ses' \in SessionStates /\ ses'.conns = ses.conns /\ ses'.clients = ses.clients
    BY <2>4, <2>5 DEF InvClients, SessionStates
  <2> QED
    BY <2>1, <2>2, <2>3, <2>6 DEF InvConns, InvClients
<1>6. CASE \/ Connect \/ SetConnected \/ Marker \/ Read \/ LogWrite \/ DropTransport \/ SetWaiting
           \/ Sleep \/ IdleFire \/ AcceptFails \/ Closing \/ Unplug \/ ParentCancel \/ UNCHANGED vars
  <2>a. cli' = cli
    BY <1>6 DEF Connect, SetConnected, Marker, Read, LogWrite,
       DropTransport, SetWaiting, Sleep, IdleFire, AcceptFails, Closing, CloseCancel, CloseTransport,
       CloseWait, CloseLog, Unplug, ParentCancel, vars
  <2>b. 0 \in 0 .. MaxOpens /\ mine \in 0 .. MaxOpens /\ ses \in SessionStates
    BY SerialAssumption DEF InvAdapter, InvClients
  <2>c. ses' \in SessionStates /\ ses'.conns = ses.conns /\ ses'.clients = ses.clients
    <3>1. CASE ses' = ses
      BY <2>b, <3>1
    <3>2. CASE SetConnected
      BY <2>b, <3>2 DEF SetConnected, SessionStates
    <3>3. CASE DropTransport
      BY <2>b, <3>3 DEF DropTransport, SessionStates
    <3>4. CASE SetWaiting
      BY <2>b, <3>4 DEF SetWaiting, SessionStates
    <3>5. CASE CloseCancel \/ ParentCancel
      BY <2>b, <3>5 DEF CloseCancel, ParentCancel, SessionStates
    <3> QED
      BY <1>6, <3>1, <3>2, <3>3, <3>4, <3>5 DEF Connect, Marker, Read, LogWrite, Sleep, IdleFire,
         AcceptFails, Closing, CloseTransport, CloseWait, CloseLog, Unplug, vars
  <2>1. cli' = cli /\ ses'.conns = ses.conns /\ ses'.clients = ses.clients /\ ses' \in SessionStates
    BY <2>a, <2>c
  <2>2. Registered' = Registered
    BY <2>1 DEF Registered
  <2> QED
    BY <2>1, <2>2 DEF InvConns, InvClients
<1> QED
  BY <1>1, <1>2, <1>3, <1>4, <1>5, <1>6 DEF Next, Adapter, Server, Conn

(* The types hold initially and are kept. *)
LEMMA InitCloseInv == Init => CloseInv
<1> SUFFICES ASSUME Init PROVE CloseInv
  OBVIOUS
<1>1. <<>> \in Chunks /\ Len(<<>>) = 0
  BY EmptySeq DEF Chunks
<1>2. Registered = {}
  BY DEF Init, Registered
<1>3. InvConns
  BY <1>2, FS_EmptySet DEF Init, InvConns
<1>4. InvAdapter
  BY <1>1, SerialAssumption DEF Init, InvAdapter, AdapterSteps, ClosingSteps
<1>5. InvClients
  BY <1>1, SerialAssumption DEF Init, InvClients, ClientStates, ClientSteps, SessionStates
<1> QED
  BY <1>3, <1>4, <1>5 DEF Init, CloseInv, SessionTypes, InvPort, InvGone, InvQuiet, Waited, InvFile

-----------------------------------------------------------------------------
(* Close *)

(* The adapter loop opens a port only when it has closed the one before.    *)
LEMMA NextPort == SessionTypes /\ InvPort /\ [Next]_vars => InvPort'
<1> SUFFICES ASSUME InvAdapter, InvPort, [Next]_vars PROVE InvPort'
  BY DEF SessionTypes
<1> USE DEF InvPort, InvAdapter
<1>1. CASE Connect
  BY <1>1 DEF Connect
<1>2. CASE DropTransport
  BY <1>2, ZenonT(40) DEF DropTransport
<1>3. CASE CloseTransport \/ Unplug
  BY <1>3, ZenonT(40) DEF CloseTransport, Unplug
<1>4. CASE SetConnected \/ Marker \/ Read \/ LogWrite \/ Fanout \/ SetWaiting \/ Sleep
  BY <1>4 DEF SetConnected, Marker, Read, LogWrite, Fanout, SetWaiting, Sleep
<1>5. CASE IdleFire \/ AcceptFails \/ CloseLocked \/ CloseCancel \/ CloseWait \/ CloseLog \/ ParentCancel
           \/ UNCHANGED vars
  BY <1>5 DEF IdleFire, AcceptFails, CloseLocked, CloseCancel, CloseWait, CloseLog, ParentCancel, vars
<1>6. ASSUME NEW c \in Clients, Server(c) \/ Conn(c) \/ Environment(c) PROVE InvPort'
  BY <1>6 DEF Server, Accept, Subscribe, Count, Conn, Take, Deliver, StopServing, Leave,
     Environment, Dial, ClientReads, ClientCloses
<1> QED
  BY <1>1, <1>2, <1>3, <1>4, <1>5, <1>6 DEF Next, Adapter, Closing

(* How one client's step moves its goroutine, channel and connection. *)
LEMMA ClientMoves ==
  ASSUME InvClients, NEW c \in Clients, Server(c) \/ Conn(c) \/ Environment(c)
  PROVE  \/ cli'[c].pc = cli[c].pc /\ cli'[c].sub = cli[c].sub
            /\ (cli[c].pc = "done" => cli'[c].open = cli[c].open)
         \/ cli[c].pc = "none" /\ srv = "accept" /\ cli'[c].pc = "accepted"
         \/ cli[c].pc = "accepted" /\ cli'[c].pc = "subscribed"
         \/ cli[c].pc = "subscribed" /\ cli'[c].pc = "serving"
         \/ cli[c].pc \in {"serving", "writing"} /\ cli'[c].pc \in {"serving", "writing", "leaving"}
         \/ cli[c].pc = "leaving" /\ cli'[c].pc = "left" /\ cli'[c].sub = "closed"
         \/ cli[c].pc = "left" /\ cli'[c].pc = "done" /\ ~cli'[c].open /\ cli'[c].sub = cli[c].sub
<1>0. cli \in [Clients -> ClientStates] /\ cli[c] \in ClientStates
  BY DEF InvClients
<1>1. CASE Accept(c) \/ Subscribe(c)
  BY <1>0, <1>1 DEF Accept, Subscribe, ClientStates
<1>2. CASE Count(c)
  BY <1>0, <1>2 DEF Count, ClientStates
<1>3. CASE Take(c) \/ StopServing(c)
  BY <1>0, <1>3 DEF Take, StopServing, ClientStates
<1>4. CASE Deliver(c)
  BY <1>0, <1>4 DEF Deliver, ClientStates
<1>5. CASE Leave(c)
  BY <1>0, <1>5 DEF Leave, ClientStates
<1>6. CASE Environment(c)
  BY <1>0, <1>6 DEF Environment, Dial, ClientReads, ClientCloses, Running, ClientStates
<1> QED
  BY <1>1, <1>2, <1>3, <1>4, <1>5, <1>6 DEF Server, Conn

(* A client ends by giving up its channel, then its connection. *)
LEMMA NextGone == SessionTypes /\ InvGone /\ [Next]_vars => InvGone'
<1> SUFFICES ASSUME InvAdapter, InvClients, InvGone, [Next]_vars PROVE InvGone'
  BY DEF SessionTypes
<1>1. ASSUME NEW c \in Clients, Server(c) \/ Conn(c) \/ Environment(c) PROVE InvGone'
  <2>1. \A d \in Clients : d # c => cli'[d] = cli[d]
    BY <1>1, ClientStep
  <2>2. /\ cli'[c].pc = "none" => cli'[c].sub = "none"
        /\ cli'[c].pc \in {"left", "done"} => cli'[c].sub = "closed"
        /\ cli'[c].pc = "done" => ~cli'[c].open
    BY <1>1, ClientMoves DEF InvGone
  <2> QED
    BY <2>1, <2>2 DEF InvGone
<1>2. CASE CloseLocked
  <2>1. ASSUME NEW c \in Clients
        PROVE  /\ cli'[c].pc = cli[c].pc
               /\ cli'[c].sub = IF cli[c].sub = "open" THEN "closed" ELSE cli[c].sub
               /\ ~cli[c].open => ~cli'[c].open
    <3>1. cli[c] \in ClientStates
      BY DEF InvClients
    <3> QED
      BY <1>2, <3>1 DEF CloseLocked, ClientStates
  <2> QED
    BY <2>1 DEF InvGone
<1>3. CASE Fanout
  <2>1. ASSUME NEW c \in Clients
        PROVE  cli'[c].pc = cli[c].pc /\ cli'[c].sub = cli[c].sub /\ cli'[c].open = cli[c].open
    <3>1. cli[c] \in ClientStates
      BY DEF InvClients
    <3> QED
      BY <1>3, <3>1 DEF Fanout, ClientStates
  <2> QED
    BY <2>1 DEF InvGone
<1>4. CASE cli' = cli
  BY <1>4 DEF InvGone
<1> QED
  BY <1>1, <1>2, <1>3, <1>4 DEF Next, Adapter, Connect, SetConnected, Marker, Read, LogWrite,
     DropTransport, SetWaiting, Sleep, IdleFire, AcceptFails, Closing, CloseCancel, CloseTransport,
     CloseWait, CloseLog, Unplug, ParentCancel, vars

(* Past its wait nothing runs beside Close. *)
LEMMA NextQuiet == SessionTypes /\ InvQuiet /\ [Next]_vars => InvQuiet'
<1> SUFFICES ASSUME InvAdapter, InvClients, InvQuiet, [Next]_vars, Waited'
             PROVE  pc' = "ended" /\ srv' = "ended" /\ \A c \in Clients : ~Running(c)'
  BY DEF SessionTypes, InvQuiet
<1>1. CASE CloseWait
  BY <1>1 DEF CloseWait, Running
<1>2. CASE ~CloseWait
  <2>1. Waited
    BY <1>2 DEF Waited, Next, Adapter, Connect, SetConnected, Marker, Read, LogWrite, Fanout,
       DropTransport, SetWaiting, Sleep, IdleFire, AcceptFails, CloseLocked, Closing, CloseCancel,
       CloseTransport, CloseLog, Unplug, ParentCancel, vars, Server, Accept, Subscribe, Count, Conn,
       Take, Deliver, StopServing, Leave, Environment, Dial, ClientReads, ClientCloses
  <2>2. pc = "ended" /\ srv = "ended" /\ \A c \in Clients : cli[c].pc \in {"none", "done"}
    BY <2>1 DEF InvQuiet, Running
  <2>3. ~Adapter
    BY <2>2 DEF Adapter, Connect, SetConnected, Marker, Read, LogWrite, Fanout, DropTransport,
       SetWaiting, Sleep
  <2>4. cl # "idle"
    BY <2>1 DEF Waited
  <2>5. ASSUME NEW c \in Clients, Server(c) \/ Conn(c) \/ Environment(c)
        PROVE  pc' = "ended" /\ srv' = "ended" /\ \A d \in Clients : ~Running(d)'
    <3>1. \A d \in Clients : d # c => cli'[d] = cli[d]
      BY <2>5, ClientStep
    <3>2. cli'[c].pc = cli[c].pc
      BY <2>2, <2>5, ClientMoves
    <3>3. pc' = pc /\ (srv' = srv \/ Count(c) \/ Accept(c))
      BY <2>5 DEF Server, Accept, Subscribe, Count, Conn, Take, Deliver, StopServing, Leave,
         Environment, Dial, ClientReads, ClientCloses
    <3>4. ~Count(c) /\ ~Accept(c)
      BY <2>2 DEF Count, Accept
    <3> QED
      BY <2>2, <3>1, <3>2, <3>3, <3>4 DEF Running
  <2>6. CASE IdleFire \/ AcceptFails \/ CloseLocked \/ Closing \/ Unplug \/ ParentCancel \/ UNCHANGED vars
    <3>1. pc' = pc /\ srv' = srv /\ cli' = cli
      BY <1>2, <2>2, <2>4, <2>6 DEF IdleFire, AcceptFails, CloseLocked, Closing, CloseCancel,
         CloseTransport, CloseLog, Unplug, ParentCancel, vars
    <3> QED
      BY <2>2, <3>1 DEF Running
  <2> QED
    BY <2>3, <2>5, <2>6 DEF Next
<1> QED
  BY <1>1, <1>2

(* The file is closed after the last flush, and nothing is written then.    *)
LEMMA NextFile == CloseInv /\ [Next]_vars => InvFile'
<1> SUFFICES ASSUME CloseInv, [Next]_vars PROVE InvFile'
  OBVIOUS
<1>0. /\ InvFile /\ InvQuiet
      /\ log \in [lines : Chunks, partial : Chunks, open : BOOLEAN]
  BY DEF CloseInv, SessionTypes, InvAdapter
<1>1. CASE Marker
  <2>1. cl \notin {"file", "returned"} /\ cl' = cl
    BY <1>0, <1>1 DEF Marker, InvQuiet, Waited
  <2> QED
    BY <1>0, <1>1, <2>1, FlushedType DEF Marker, InvFile
<1>2. CASE LogWrite
  <2>1. cl \notin {"file", "returned"} /\ cl' = cl
    BY <1>0, <1>2 DEF LogWrite, InvQuiet, Waited
  <2>2. log'.open = log.open
    BY <1>0, <1>2 DEF LogWrite, Flushed
  <2> QED
    BY <1>0, <2>1, <2>2 DEF InvFile
<1>3. CASE IdleFire
  BY <1>0, <1>3, FlushedType DEF IdleFire, InvFile
<1>4. CASE CloseLog
  BY <1>0, <1>4, FlushedType DEF CloseLog, InvFile
<1>5. CASE log' = log /\ (cl' = cl \/ (cl' \notin {"file", "returned"} /\ cl \notin {"file", "returned"}))
  BY <1>0, <1>5 DEF InvFile
<1> DEFINE Other == log' = log /\ (cl' = cl \/ (cl' \notin {"file", "returned"} /\ cl \notin {"file", "returned"}))
<1>6. ASSUME NEW c \in Clients, Server(c) \/ Conn(c) \/ Environment(c) PROVE Other
  <2>1. UNCHANGED <<cl, log>>
    BY <1>6, ClientStep DEF CloseInv, SessionTypes
  <2> QED
    BY <2>1
<1>7. CASE Connect \/ SetConnected \/ Read \/ Fanout \/ DropTransport \/ SetWaiting \/ Sleep
  <2>1. Other
    BY <1>7 DEF Connect, SetConnected, Read, Fanout, DropTransport, SetWaiting, Sleep
  <2> QED
    BY <1>5, <2>1
<1>8. CASE AcceptFails \/ CloseLocked \/ CloseCancel \/ CloseTransport \/ CloseWait \/ Unplug
           \/ ParentCancel \/ UNCHANGED vars
  <2>1. Other
    BY <1>8 DEF AcceptFails, CloseLocked, CloseCancel, CloseTransport, CloseWait, Unplug,
       ParentCancel, vars
  <2> QED
    BY <1>5, <2>1
<1> HIDE DEF Other
<1>9. ASSUME Other PROVE InvFile'
  BY <1>5, <1>9 DEF Other
<1> QED
  BY <1>1, <1>2, <1>3, <1>4, <1>6, <1>7, <1>8, <1>9 DEF Next, Adapter, Closing

(* Every step preserves the invariant of Close. *)
LEMMA NextCloseInv == CloseInv /\ [Next]_vars => CloseInv'
  BY NextAdapter, NextConns, NextPort, NextGone, NextQuiet, NextFile DEF CloseInv, SessionTypes

-----------------------------------------------------------------------------
(* The log *)

LEMMA ConcatAppend ==
  ASSUME NEW s \in Chunks, NEW t \in Chunks, NEW e \in Nat
  PROVE  s \o Append(t, e) = Append(s \o t, e)
<1>1. Append(t, e) = t \o <<e>> /\ s \o t \in Seq(Nat) /\ <<e>> \in Seq(Nat)
  BY AppendIsConcat, ConcatProperties DEF Chunks
<1>2. Append(s \o t, e) = (s \o t) \o <<e>>
  BY <1>1, AppendIsConcat
<1>3. (s \o t) \o <<e>> = s \o (t \o <<e>>)
  BY <1>1, ConcatAssociative, SMTT(20) DEF Chunks
<1> QED
  BY <1>1, <1>2, <1>3

LEMMA NumbersAppend ==
  ASSUME NEW n \in Nat \ {0}
  PROVE  Append(Numbers(n - 1), n) = Numbers(n)
<1>1. \A m \in Nat : Numbers(m) \in Seq(Nat) /\ Len(Numbers(m)) = m
  <2> SUFFICES ASSUME NEW m \in Nat PROVE Numbers(m) \in Seq(Nat) /\ Len(Numbers(m)) = m
    OBVIOUS
  <2>1. Numbers(m) \in [1 .. m -> Nat]
    BY DEF Numbers
  <2>2. Numbers(m) \in Seq(Nat)
    BY <2>1, SeqDef
  <2> QED
    BY <2>1, <2>2, LenProperties
<1>2. n - 1 \in Nat
  OBVIOUS
<1>3. /\ Append(Numbers(n - 1), n) \in Seq(Nat)
      /\ Len(Append(Numbers(n - 1), n)) = n
      /\ \A i \in 1 .. n - 1 : Append(Numbers(n - 1), n)[i] = Numbers(n - 1)[i]
      /\ Append(Numbers(n - 1), n)[n] = n
  BY <1>1, <1>2, AppendProperties
<1>4. \A i \in 1 .. n : Append(Numbers(n - 1), n)[i] = Numbers(n)[i]
  BY <1>2, <1>3 DEF Numbers
<1> QED
  BY <1>1, <1>3, <1>4, SeqEqual

(* Flushing an open file moves the partial line behind the lines. *)
LEMMA FlushKeeps ==
  ASSUME NEW l \in [lines : Chunks, partial : Chunks, open : BOOLEAN], l.open
  PROVE  Flushed(l).lines \o Flushed(l).partial = l.lines \o l.partial
<1>1. l.lines \o l.partial \in Seq(Nat)
  BY ConcatProperties DEF Chunks
<1>2. Flushed(l).partial = <<>> /\ Flushed(l).lines = l.lines \o l.partial
  BY FlushedType
<1> QED
  BY <1>1, <1>2, ConcatEmptySeq

(* The log takes each chunk once, in the order read. *)
LEMMA NextLog == CloseInv /\ LogComplete /\ [Next]_vars => LogComplete'
<1> SUFFICES ASSUME CloseInv, LogComplete, [Next]_vars PROVE LogComplete'
  OBVIOUS
<1> DEFINE Whole == log.lines \o log.partial
<1>0. /\ InvFile /\ InvQuiet /\ InvFile' /\ nread \in Nat /\ (pc \in {"got", "logged"} => nread > 0)
      /\ log \in [lines : Chunks, partial : Chunks, open : BOOLEAN]
      /\ Whole = Numbers(Logged)
  BY NextCloseInv DEF CloseInv, SessionTypes, InvAdapter, LogComplete, Logged
<1>a. SUFFICES Whole' = Numbers(Logged')
  BY <1>0 DEF LogComplete, Logged, InvFile
<1>1. CASE Marker \/ IdleFire
  <2>1. log' = Flushed(log) /\ log.open /\ Logged' = Logged
    BY <1>0, <1>1 DEF Marker, IdleFire, InvFile, InvQuiet, Waited, Logged
  <2>2. Whole' = Whole
    BY <1>0, <2>1, FlushKeeps
  <2> QED
    BY <1>0, <2>1, <2>2
<1>2. CASE LogWrite
  <2> DEFINE fed == [log EXCEPT !.partial = Append(log.partial, nread)]
  <2>1. log.open /\ Logged = nread - 1 /\ Logged' = nread /\ log' \in {fed, Flushed(fed)}
    BY <1>0, <1>2 DEF LogWrite, InvFile, InvQuiet, Waited, Logged
  <2>2. Append(log.partial, nread) \in Chunks
    BY <1>0, AppendProperties DEF Chunks
  <2>3. /\ fed \in [lines : Chunks, partial : Chunks, open : BOOLEAN] /\ fed.open
        /\ fed.lines = log.lines /\ fed.partial = Append(log.partial, nread)
    BY <1>0, <2>1, <2>2
  <2> HIDE DEF fed
  <2>4. Whole' = fed.lines \o fed.partial
    BY <2>1, <2>3, FlushKeeps
  <2>5. fed.lines \o fed.partial = Append(Whole, nread)
    BY <1>0, <2>3, ConcatAppend, SMTT(20)
  <2>6. Append(Whole, nread) = Numbers(nread)
    BY <1>0, <1>2, <2>1, NumbersAppend DEF LogWrite
  <2> QED
    BY <2>1, <2>4, <2>5, <2>6
<1>3. CASE CloseLog
  <2>1. Logged' = Logged
    BY <1>3 DEF CloseLog, Logged
  <2>2. CASE cl = "flush"
    <3>1. log' = Flushed(log) /\ log.open
      BY <1>0, <1>3, <2>2 DEF CloseLog, InvFile
    <3> QED
      BY <1>0, <2>1, <3>1, FlushKeeps
  <2>3. CASE cl = "file"
    <3>1. log' = [log EXCEPT !.open = FALSE]
      BY <1>3, <2>3 DEF CloseLog
    <3>2. log'.lines = log.lines /\ log'.partial = log.partial
      BY <1>0, <3>1
    <3> QED
      BY <1>0, <2>1, <3>2
  <2> QED
    BY <1>3, <2>2, <2>3 DEF CloseLog
<1>4. CASE Read
  <2>1. log' = log /\ Logged' = Logged
    BY <1>0, <1>4 DEF Read, Logged
  <2> QED
    BY <1>0, <2>1
<1>5. CASE log' = log /\ nread' = nread /\ (pc' = pc \/ (pc # "got" /\ pc' # "got"))
  <2>1. Logged' = Logged
    BY <1>5 DEF Logged
  <2> QED
    BY <1>0, <1>5, <2>1
<1> DEFINE Other == log' = log /\ nread' = nread /\ (pc' = pc \/ (pc # "got" /\ pc' # "got"))
<1>6. ASSUME NEW c \in Clients, Server(c) \/ Conn(c) \/ Environment(c) PROVE Other
  <2>1. UNCHANGED <<pc, nread, log>>
    BY <1>6, ClientStep DEF CloseInv, SessionTypes
  <2> QED
    BY <2>1
<1>7. CASE Connect \/ SetConnected \/ Fanout \/ DropTransport \/ SetWaiting \/ Sleep
  <2>1. Other
    BY <1>7 DEF Connect, SetConnected, Fanout, DropTransport, SetWaiting, Sleep
  <2> QED
    BY <1>5, <2>1
<1>8. CASE AcceptFails \/ CloseLocked \/ CloseCancel \/ CloseTransport \/ CloseWait \/ Unplug
           \/ ParentCancel \/ UNCHANGED vars
  <2>1. Other
    BY <1>8 DEF AcceptFails, CloseLocked, CloseCancel, CloseTransport, CloseWait, Unplug,
       ParentCancel, vars
  <2> QED
    BY <1>5, <2>1
<1>9. ASSUME Other PROVE Whole' = Numbers(Logged')
  BY <1>5, <1>9
<1> HIDE DEF Other
<1> QED
  BY <1>1, <1>2, <1>3, <1>4, <1>6, <1>7, <1>8, <1>9 DEF Next, Adapter, Closing

-----------------------------------------------------------------------------
(* What the clients see *)

(* A step that leaves what a client has seen alone, and does not count it   *)
(* unless at this chunk.                                                    *)
LEMMA SeenKept ==
  ASSUME NEW c \in Clients, SeenBy(c), Seen(c)' = Seen(c), Fanned' = Fanned, Fanned \in Nat,
         cli'[c].pc \in Unhanded => cli'[c].hand = <<>>,
         Counted(c)' => (Counted(c) /\ cli'[c].since = cli[c].since) \/ cli'[c].since = Fanned
  PROVE  SeenBy(c)'
<1>1. Ordered(Seen(c)', Fanned')
  BY DEF SeenBy
<1>2. ASSUME Counted(c)' PROVE Holds(Seen(c)', cli'[c].since, Fanned')
  <2>1. CASE Counted(c) /\ cli'[c].since = cli[c].since
    BY <2>1 DEF SeenBy
  <2>2. CASE cli'[c].since = Fanned
    BY <2>2 DEF Holds
  <2> QED
    BY <1>2, <2>1, <2>2
<1> QED
  BY <1>1, <1>2 DEF SeenBy

(* Taking a chunk from the channel and writing it to the socket moves it    *)
(* along what the client has seen.                                          *)
LEMMA TakeKeepsSeen ==
  ASSUME NEW g \in Chunks, NEW q \in Chunks, q # <<>>
  PROVE  (g \o <<Head(q)>>) \o Tail(q) = (g \o <<>>) \o q
<1>1. /\ Head(q) \in Nat /\ Tail(q) \in Seq(Nat) /\ Len(Tail(q)) = Len(q) - 1 /\ Len(q) \in Nat
      /\ \A i \in 1 .. Len(Tail(q)) : Tail(q)[i] = q[i + 1]
  BY HeadTailProperties, LenProperties DEF Chunks
<1>2. <<Head(q)>> \in Seq(Nat) /\ Len(<<Head(q)>>) = 1 /\ <<Head(q)>>[1] = q[1]
  BY <1>1 DEF Chunks
<1>3. /\ <<Head(q)>> \o Tail(q) \in Seq(Nat) /\ Len(<<Head(q)>> \o Tail(q)) = Len(q)
      /\ \A i \in 1 .. Len(q) : (<<Head(q)>> \o Tail(q))[i] = IF i <= 1 THEN <<Head(q)>>[i] ELSE Tail(q)[i - 1]
  BY <1>1, <1>2, ConcatProperties
<1>4. ASSUME NEW i \in 1 .. Len(q) PROVE (<<Head(q)>> \o Tail(q))[i] = q[i]
  <2>1. CASE i = 1
    BY <1>2, <1>3, <2>1
  <2>2. CASE i # 1
    <3>1. i - 1 \in 1 .. Len(Tail(q)) /\ (i - 1) + 1 = i /\ ~(i <= 1)
      BY <1>1, <2>2
    <3> QED
      BY <1>1, <1>3, <3>1
  <2> QED
    BY <2>1, <2>2
<1>5. <<Head(q)>> \o Tail(q) = q
  BY <1>3, <1>4, SeqEqual DEF Chunks
<1>6. (g \o <<Head(q)>>) \o Tail(q) = g \o (<<Head(q)>> \o Tail(q))
  BY <1>1, <1>2, ConcatAssociative, SMTT(20) DEF Chunks
<1>7. g \o <<>> = g
  BY ConcatEmptySeq DEF Chunks
<1> QED
  BY <1>5, <1>6, <1>7

(* A client's own steps only move chunks along. *)
LEMMA ClientSeen ==
  ASSUME CloseInv, NEW c \in Clients, SeenBy(c), Server(c) \/ Conn(c) \/ Environment(c)
  PROVE  SeenBy(c)'
<1>0. /\ cli \in [Clients -> ClientStates] /\ cli[c] \in ClientStates
      /\ cli[c].got \in Chunks /\ cli[c].hand \in Chunks /\ cli[c].q \in Chunks
  BY DEF CloseInv, SessionTypes, InvClients, ClientStates
<1>a. UNCHANGED <<pc, nread, dropped>> /\ Fanned \in Nat
  BY ClientStep DEF CloseInv, SessionTypes, InvAdapter, Fanned
<1>b. Fanned' = Fanned
  BY <1>a DEF Fanned
<1>1. CASE Take(c)
  <2>1. /\ cli[c].q # <<>> /\ cli[c].pc = "serving" /\ cli[c].hand = <<>>
        /\ cli'[c].pc = "writing" /\ cli'[c].hand = <<Head(cli[c].q)>> /\ cli'[c].q = Tail(cli[c].q)
        /\ cli'[c].got = cli[c].got /\ cli'[c].sub = cli[c].sub /\ cli'[c].since = cli[c].since
    BY <1>0, <1>1 DEF Take, SeenBy, Unhanded, ClientStates
  <2>a. (cli[c].got \o <<Head(cli[c].q)>>) \o Tail(cli[c].q) = (cli[c].got \o <<>>) \o cli[c].q
    BY <1>0, <2>1, TakeKeepsSeen
  <2>2. Seen(c)' = Seen(c)
    BY <2>1, <2>a, Zenon DEF Seen
  <2>3. Counted(c)' => Counted(c)
    BY <1>a, <2>1 DEF Counted
  <2>4. cli'[c].pc \notin Unhanded
    BY <2>1 DEF Unhanded
  <2> QED
    BY <1>a, <1>b, <2>1, <2>2, <2>3, <2>4, SeenKept
<1>2. CASE Deliver(c) /\ cli[c].open
  <2>1. /\ cli[c].pc = "writing" /\ cli'[c].pc = "serving" /\ cli'[c].hand = <<>> /\ cli'[c].q = cli[c].q
        /\ cli'[c].got = cli[c].got \o cli[c].hand /\ cli'[c].sub = cli[c].sub /\ cli'[c].since = cli[c].since
    BY <1>0, <1>2 DEF Deliver, ClientStates
  <2>2. Seen(c)' = Seen(c)
    <3>1. cli[c].got \o cli[c].hand \in Chunks
      BY <1>0, ConcatProperties DEF Chunks
    <3>2. (cli[c].got \o cli[c].hand) \o <<>> = cli[c].got \o cli[c].hand
      BY <3>1, ConcatEmptySeq DEF Chunks
    <3> QED
      BY <2>1, <3>2 DEF Seen
  <2>3. Counted(c)' => Counted(c)
    BY <1>a, <2>1 DEF Counted
  <2> QED
    BY <1>a, <1>b, <2>1, <2>2, <2>3, SeenKept
<1>3. CASE Count(c)
  <2>1. /\ cli[c].pc = "subscribed" /\ cli'[c].pc = "serving" /\ cli'[c].since = Fanned
        /\ cli'[c].hand = cli[c].hand /\ cli'[c].q = cli[c].q /\ cli'[c].got = cli[c].got
    BY <1>0, <1>3 DEF Count, ClientStates
  <2>2. Seen(c)' = Seen(c)
    BY <2>1 DEF Seen
  <2>3. cli'[c].hand = <<>>
    BY <2>1 DEF SeenBy, Unhanded
  <2> QED
    BY <1>a, <1>b, <2>1, <2>2, <2>3, SeenKept
<1>4. CASE Accept(c) \/ Subscribe(c) \/ StopServing(c) \/ Leave(c) \/ Environment(c)
           \/ (Deliver(c) /\ ~cli[c].open)
  <2>1. /\ cli'[c].hand = cli[c].hand /\ cli'[c].q = cli[c].q /\ cli'[c].got = cli[c].got
        /\ cli'[c].since = cli[c].since
        /\ cli'[c].pc \in {"serving", "writing"} => cli'[c].pc = cli[c].pc /\ cli'[c].sub = cli[c].sub
        /\ cli'[c].pc \in Unhanded => cli[c].pc \in Unhanded
    <3>1. CASE Accept(c) \/ Subscribe(c)
      BY <1>0, <3>1 DEF Accept, Subscribe, Unhanded, ClientStates
    <3>2. CASE StopServing(c)
      BY <1>0, <3>2 DEF StopServing, Unhanded, ClientStates
    <3>3. CASE Leave(c)
      BY <1>0, <3>3 DEF Leave, Unhanded, ClientStates
    <3>4. CASE Environment(c)
      BY <1>0, <3>4 DEF Environment, Dial, ClientReads, ClientCloses, ClientStates
    <3>5. CASE Deliver(c) /\ ~cli[c].open
      BY <1>0, <3>5 DEF Deliver, Unhanded, ClientStates
    <3> QED
      BY <1>4, <3>1, <3>2, <3>3, <3>4, <3>5
  <2>2. Seen(c)' = Seen(c)
    BY <2>1 DEF Seen
  <2>3. Counted(c)' => Counted(c)
    BY <1>a, <2>1 DEF Counted
  <2>4. cli'[c].pc \in Unhanded => cli'[c].hand = <<>>
    BY <2>1 DEF SeenBy
  <2> QED
    BY <1>a, <1>b, <2>1, <2>2, <2>3, <2>4, SeenKept
<1> QED
  BY <1>1, <1>2, <1>3, <1>4 DEF Server, Conn

(* A chunk that is appended to what a client saw keeps it ordered, and      *)
(* complete if it was.                                                      *)
LEMMA SeenGrows ==
  ASSUME NEW s \in Seq(Nat), NEW n \in Nat \ {0}, Ordered(s, n - 1)
  PROVE  /\ Ordered(Append(s, n), n)
         /\ \A k \in Nat : Holds(s, k, n - 1) => Holds(Append(s, n), k, n)
<1> DEFINE t == Append(s, n)
<1>1. /\ t \in Seq(Nat) /\ Len(t) = Len(s) + 1 /\ Len(s) \in Nat
      /\ \A i \in 1 .. Len(s) : t[i] = s[i]
      /\ t[Len(s) + 1] = n
  BY AppendProperties, LenProperties
<1>2. \A i \in 1 .. Len(s) : s[i] \in Nat
  BY ElementOfSeq
<1> HIDE DEF t
<1>3. ASSUME NEW i \in 1 .. Len(t) PROVE t[i] <= n
  <2>1. CASE i \in 1 .. Len(s)
    BY <1>1, <1>2, <2>1 DEF Ordered
  <2>2. CASE i \notin 1 .. Len(s)
    <3>1. i = Len(s) + 1
      BY <1>1, <2>2
    <3> QED
      BY <1>1, <3>1
  <2> QED
    BY <2>1, <2>2
<1>4. ASSUME NEW i \in 1 .. Len(t) - 1 PROVE t[i] < t[i + 1]
  <2>1. i \in 1 .. Len(s)
    BY <1>1
  <2>2. CASE i + 1 \in 1 .. Len(s)
    <3>1. i \in 1 .. Len(s) - 1
      BY <1>1, <2>1, <2>2
    <3> QED
      BY <1>1, <2>1, <2>2, <3>1 DEF Ordered
  <2>3. CASE i + 1 \notin 1 .. Len(s)
    <3>1. i + 1 = Len(s) + 1
      BY <1>1, <2>1, <2>3
    <3>2. t[i + 1] = n /\ t[i] = s[i] /\ s[i] \in Nat /\ s[i] <= n - 1
      BY <1>1, <1>2, <2>1, <3>1 DEF Ordered
    <3> QED
      BY <3>2
  <2> QED
    BY <2>2, <2>3
<1>5. ASSUME NEW k \in Nat, Holds(s, k, n - 1), NEW m \in k + 1 .. n
      PROVE  \E i \in 1 .. Len(t) : t[i] = m
  <2>1. CASE m = n
    <3>1. Len(s) + 1 \in 1 .. Len(t)
      BY <1>1
    <3> QED
      BY <1>1, <2>1, <3>1
  <2>2. CASE m # n
    <3>1. m \in k + 1 .. n - 1
      BY <2>2
    <3>2. PICK i \in 1 .. Len(s) : s[i] = m
      BY <1>5, <3>1 DEF Holds
    <3>3. i \in 1 .. Len(t)
      BY <1>1
    <3> QED
      BY <1>1, <3>2, <3>3
  <2> QED
    BY <2>1, <2>2
<1> QED
  BY <1>3, <1>4, <1>5 DEF t, Ordered, Holds

(* The fan-out gives every subscriber the chunk or counts it as dropped.    *)
LEMMA FanoutSeen ==
  ASSUME CloseInv, NEW c \in Clients, SeenBy(c), Fanout
  PROVE  SeenBy(c)'
<1>0. /\ cli[c] \in ClientStates /\ nread \in Nat \ {0} /\ dropped \in Nat
      /\ cli[c].got \in Chunks /\ cli[c].hand \in Chunks /\ cli[c].q \in Chunks /\ cli[c].since \in Nat
  BY DEF CloseInv, SessionTypes, InvAdapter, InvClients, ClientStates, Fanout
<1>1. Fanned = nread - 1 /\ Fanned' = nread
  BY <1>0 DEF Fanout, Fanned
<1>2. Full \subseteq Clients /\ IsFiniteSet(Full) /\ Cardinality(Full) \in Nat
  <2>1. Full \subseteq Clients
    BY DEF Full, Open
  <2> QED
    BY <2>1, FS_Subset, FS_CardinalityType, SerialAssumption
<1>3. Seen(c) \in Seq(Nat) /\ cli[c].got \o cli[c].hand \in Chunks
  BY <1>0, ConcatProperties DEF Seen, Chunks
<1>4. CASE c \in Open \ Full
  <2>1. cli'[c] = [cli[c] EXCEPT !.q = Append(cli[c].q, nread)]
    BY <1>4 DEF Fanout
  <2>2. /\ cli'[c].got = cli[c].got /\ cli'[c].hand = cli[c].hand /\ cli'[c].pc = cli[c].pc
        /\ cli'[c].sub = cli[c].sub /\ cli'[c].since = cli[c].since
        /\ cli'[c].q = Append(cli[c].q, nread)
    BY <1>0, <2>1 DEF ClientStates
  <2>a. (cli[c].got \o cli[c].hand) \o Append(cli[c].q, nread)
          = Append((cli[c].got \o cli[c].hand) \o cli[c].q, nread)
    BY <1>0, <1>3, ConcatAppend
  <2>3. Seen(c)' = Append(Seen(c), nread)
    BY <2>2, <2>a, Zenon DEF Seen
  <2>4. Counted(c)' => Counted(c)
    <3>1. dropped' = dropped + Cardinality(Full)
      BY DEF Fanout
    <3>2. dropped' = 0 => dropped = 0
      BY <1>0, <1>2, <3>1
    <3> QED
      BY <2>2, <3>2 DEF Counted
  <2>5. Ordered(Seen(c), nread - 1) /\ (Counted(c) => Holds(Seen(c), cli[c].since, nread - 1))
    BY <1>1 DEF SeenBy
  <2>6. /\ Ordered(Append(Seen(c), nread), nread)
        /\ Counted(c) => Holds(Append(Seen(c), nread), cli[c].since, nread)
    BY <1>0, <1>3, <2>5, SeenGrows
  <2>7. /\ Ordered(Seen(c)', Fanned')
        /\ Counted(c)' => Holds(Seen(c)', cli'[c].since, Fanned')
    BY <1>1, <2>2, <2>3, <2>4, <2>6
  <2>8. cli'[c].pc \in Unhanded => cli'[c].hand = <<>>
    BY <2>2 DEF SeenBy
  <2> QED
    BY <2>7, <2>8 DEF SeenBy
<1>5. CASE c \notin Open \ Full
  <2>1. cli'[c] = cli[c]
    BY <1>5 DEF Fanout
  <2>2. Seen(c)' = Seen(c)
    BY <2>1 DEF Seen
  <2>3. ~Counted(c)'
    <3>1. CASE c \notin Open
      BY <2>1, <3>1 DEF Open, Counted
    <3>2. CASE c \in Full
      <4>1. Cardinality(Full) # 0
        BY <1>2, <3>2, FS_EmptySet
      <4>2. dropped' = dropped + Cardinality(Full)
        BY DEF Fanout
      <4>3. dropped' # 0
        BY <1>0, <1>2, <4>1, <4>2
      <4> QED
        BY <4>3 DEF Counted
    <3> QED
      BY <1>5, <3>1, <3>2
  <2>4. \A i \in 1 .. Len(Seen(c)) : Seen(c)[i] \in Nat
    BY <1>3, ElementOfSeq
  <2>5. Ordered(Seen(c), nread - 1)
    BY <1>1 DEF SeenBy
  <2>6. Ordered(Seen(c), nread)
    BY <1>0, <2>4, <2>5 DEF Ordered
  <2>7. Ordered(Seen(c)', Fanned')
    BY <1>1, <2>2, <2>6
  <2>8. cli'[c].pc \in Unhanded => cli'[c].hand = <<>>
    BY <2>1 DEF SeenBy
  <2> QED
    BY <2>3, <2>7, <2>8 DEF SeenBy
<1> QED
  BY <1>4, <1>5

(* Every step preserves what the clients see. *)
LEMMA NextSeen == CloseInv /\ InvSeen /\ [Next]_vars => InvSeen'
<1> SUFFICES ASSUME CloseInv, InvSeen, [Next]_vars, NEW d \in Clients PROVE SeenBy(d)'
  BY DEF InvSeen
<1>0. SeenBy(d) /\ Fanned \in Nat /\ cli[d] \in ClientStates
  BY DEF InvSeen, CloseInv, SessionTypes, InvAdapter, InvClients, Fanned
<1>a. ASSUME cli'[d] = cli[d], dropped' = dropped, Fanned' = Fanned PROVE SeenBy(d)'
  <2>1. Seen(d)' = Seen(d) /\ (Counted(d)' => Counted(d))
    BY <1>a DEF Seen, Counted
  <2>2. cli'[d].pc \in Unhanded => cli'[d].hand = <<>>
    BY <1>0, <1>a DEF SeenBy
  <2>3. cli'[d].since = cli[d].since
    BY <1>a
  <2> QED
    BY <1>0, <1>a, <2>1, <2>2, <2>3, SeenKept
<1>1. ASSUME NEW c \in Clients, Server(c) \/ Conn(c) \/ Environment(c) PROVE SeenBy(d)'
  <2>1. CASE c = d
    BY <1>0, <1>1, <2>1, ClientSeen
  <2>2. CASE c # d
    <3>1. cli'[d] = cli[d] /\ UNCHANGED <<pc, nread, dropped>>
      BY <1>1, <2>2, ClientStep DEF CloseInv, SessionTypes
    <3>2. Fanned' = Fanned
      BY <3>1 DEF Fanned
    <3> QED
      BY <1>a, <3>1, <3>2
  <2> QED
    BY <2>1, <2>2
<1>2. CASE Fanout
  BY <1>0, <1>2, FanoutSeen
<1>3. CASE CloseLocked
  <2>1. /\ cli'[d].pc = cli[d].pc /\ cli'[d].hand = cli[d].hand /\ cli'[d].q = cli[d].q
        /\ cli'[d].got = cli[d].got /\ cli'[d].since = cli[d].since
        /\ cli'[d].sub = "open" => cli[d].sub = "open"
    BY <1>0, <1>3 DEF CloseLocked, ClientStates
  <2>2. dropped' = dropped /\ Fanned' = Fanned
    BY <1>3 DEF CloseLocked, Fanned
  <2>3. Seen(d)' = Seen(d) /\ (Counted(d)' => Counted(d))
    BY <2>1, <2>2 DEF Seen, Counted
  <2>4. cli'[d].pc \in Unhanded => cli'[d].hand = <<>>
    BY <1>0, <2>1 DEF SeenBy
  <2> QED
    BY <1>0, <2>1, <2>2, <2>3, <2>4, SeenKept
<1>4. CASE Read
  <2>1. cli' = cli /\ dropped' = dropped
    BY <1>4 DEF Read
  <2>2. Fanned' = Fanned
    BY <1>4 DEF Read, Fanned, CloseInv, SessionTypes, InvAdapter
  <2> QED
    BY <1>a, <2>1, <2>2
<1> DEFINE Still == cli' = cli /\ dropped' = dropped /\ nread' = nread
<1>5. CASE Connect \/ SetConnected \/ Marker \/ LogWrite \/ DropTransport \/ SetWaiting \/ Sleep
  <2>1. Still
    BY <1>5 DEF Connect, SetConnected, Marker, LogWrite, DropTransport, SetWaiting, Sleep
  <2>2. (pc \in {"got", "logged"}) <=> (pc' \in {"got", "logged"})
    BY <1>5 DEF Connect, SetConnected, Marker, LogWrite, DropTransport, SetWaiting, Sleep
  <2>3. Fanned' = Fanned
    BY <2>1, <2>2 DEF Fanned
  <2> QED
    BY <1>a, <2>1, <2>3
<1>6. CASE IdleFire \/ AcceptFails \/ Closing \/ Unplug \/ ParentCancel \/ UNCHANGED vars
  <2>1. Still /\ pc' = pc
    BY <1>6 DEF IdleFire, AcceptFails, Closing, CloseCancel, CloseTransport, CloseWait, CloseLog, Unplug,
       ParentCancel, vars
  <2>2. Fanned' = Fanned
    BY <2>1 DEF Fanned
  <2> QED
    BY <1>a, <2>1, <2>2
<1> QED
  BY <1>1, <1>2, <1>3, <1>4, <1>5, <1>6 DEF Next, Adapter

-----------------------------------------------------------------------------
(* The invariant of a session. *)
THEOREM SessionStream == Spec => []StreamInv
<1>1. Init => StreamInv
  <2> SUFFICES ASSUME Init PROVE StreamInv
    OBVIOUS
  <2>1. <<>> \o <<>> = <<>> /\ Len(<<>>) = 0
    BY ConcatEmptySeq, EmptySeq
  <2>2. Numbers(0) = <<>>
    BY DEF Numbers
  <2>3. LogComplete
    BY <2>1, <2>2 DEF Init, LogComplete
  <2>4. ASSUME NEW c \in Clients PROVE SeenBy(c)
    <3>1. Seen(c) = <<>>
      BY <2>1 DEF Init, Seen
    <3>2. ~Counted(c) /\ cli[c].hand = <<>>
      BY DEF Init, Counted
    <3> QED
      BY <2>1, <3>1, <3>2 DEF SeenBy, Ordered
  <2> QED
    BY <2>3, <2>4, InitCloseInv DEF StreamInv, InvSeen
<1>2. StreamInv /\ [Next]_vars => StreamInv'
  BY NextCloseInv, NextLog, NextSeen DEF StreamInv
<1> QED
  BY <1>1, <1>2, PTL DEF Spec

(* Everything read is logged once and in order, a client that is counted    *)
(* misses no chunk that Dropped does not count, and when Close has returned *)
(* no goroutine, client, transport or socket of the session is left.        *)
THEOREM SessionInvHolds == Spec => []SessionInv
<1>1. StreamInv => SessionInv
  <2> SUFFICES ASSUME StreamInv PROVE SessionInv
    OBVIOUS
  <2>0. InvAdapter /\ InvClients
    BY DEF StreamInv, CloseInv, SessionTypes
  <2>1. TypeOK
    <3>1. \A c \in Clients : Len(cli[c].q) <= SubCap /\ cli[c].unread <= SockCap
      BY <2>0, SerialAssumption DEF InvClients, ClientStates
    <3>2. ses.kind \in {"waiting", "connected", "closed"} /\ ses.conns \subseteq Clients
          /\ ses.clients \in Nat /\ ses.transport \in 0 .. MaxOpens
      BY <2>0 DEF InvClients, SessionStates
    <3> QED
      BY <2>0, <3>1, <3>2 DEF TypeOK, InvAdapter, AdapterSteps, ClosingSteps
  <2>2. CountedSeesAll
    <3> SUFFICES ASSUME NEW c \in Clients
                 PROVE  /\ \A i \in 1 .. Len(Seen(c)) - 1 : Seen(c)[i] < Seen(c)[i + 1]
                        /\ Counted(c) => \A n \in cli[c].since + 1 .. Fanned : n \in Range(Seen(c))
      BY DEF CountedSeesAll, Seen, Counted
    <3>1. SeenBy(c) /\ Seen(c) \in Seq(Nat)
      BY <2>0, ConcatProperties DEF StreamInv, InvSeen, InvClients, ClientStates, Chunks, Seen
    <3>2. Range(Seen(c)) = {Seen(c)[i] : i \in 1 .. Len(Seen(c))}
      BY <3>1, RangeEquality
    <3> QED
      BY <3>1, <3>2 DEF SeenBy, Ordered, Holds
  <2>3. CloseLeavesNothing
    <3> SUFFICES ASSUME cl = "returned"
                 PROVE  /\ port.open = {} /\ ses.conns = {} /\ ses.clients = 0
                        /\ \A c \in Clients : cli[c].sub # "open" /\ (cli[c].pc = "none" \/ ~cli[c].open)
      BY DEF CloseLeavesNothing
    <3>1. pc = "ended" /\ \A c \in Clients : cli[c].pc \in {"none", "done"}
      BY DEF StreamInv, CloseInv, InvQuiet, Waited, Running
    <3>2. port.open = {}
      BY <3>1 DEF StreamInv, CloseInv, InvPort
    <3>3. Registered = {}
      BY <3>1 DEF Registered
    <3>4. ses.conns = {} /\ ses.clients = 0
      BY <3>3, FS_EmptySet DEF StreamInv, CloseInv, InvConns
    <3> QED
      BY <3>1, <3>2, <3>4 DEF StreamInv, CloseInv, InvGone
  <2> QED
    BY <2>1, <2>2, <2>3 DEF StreamInv, SessionInv
<1> QED
  BY <1>1, SessionStream, PTL

-----------------------------------------------------------------------------
(* The owner of the socket *)

Places == {"off", "attach", "stat", "dial", "exists", "remove", "listen", "bound", "opened",
           "own", "unlink", "hangup", "final", "stuck", "client", "lost"}

ChangingPlaces == {"remove", "listen", "bound", "hangup", "final"}

(* The variables hold what their names say; a process that closes knows why.*)
InvType ==
    /\ at \in [Procs -> Places]
    /\ why \in [Procs -> {"none", "log", "tcp", "close"}]
    /\ peer \in [Procs -> Procs \cup {NoProc}]
    /\ path \in Procs \cup {NoProc}
    /\ starts \in Nat /\ kills \in Nat
    /\ raced \in BOOLEAN
    /\ \A p \in Procs : at[p] \in {"unlink", "hangup"} => why[p] # "none"

(* A client's peer serves it, or has closed the listener and will hang up.  *)
(* This holds through any race: hanging up and dying end the connections.   *)
InvClient ==
    \A p \in Procs : at[p] = "client" =>
        peer[p] \in Procs /\ at[peer[p]] \in Serving \cup {"hangup"}

(* Without a race one process at a time is about to change the path, and    *)
(* while it is, nobody serves.                                              *)
InvAlone ==
    ~raced =>
        /\ \A p, q \in Procs : at[p] \in ChangingPlaces /\ at[q] \in ChangingPlaces => p = q
        /\ \A p, q \in Procs : at[p] \in ChangingPlaces => at[q] \notin Serving
        /\ \A p \in Procs : at[p] = "bound" => path = p

OwnerInv == InvType /\ InvClient /\ InvAlone /\ SoleOwner

---------------------------------------------------------------------------
(* What raced' = FALSE says of a step: it leaves at most one process about  *)
(* to change the path, and if a race was on, the step ended it by ending    *)
(* the last process.                                                        *)
LEMMA TrackMeans ==
    ASSUME InvType, InvType', Track, ~raced'
    PROVE  /\ \A p, q \in Procs : at'[p] \in ChangingPlaces /\ at'[q] \in ChangingPlaces => p = q
           /\ raced => \A p \in Procs : at'[p] = "off"
<1>1. ~(Cardinality(Changing') > 1)
  BY DEF Track
<1>2. Changing' \subseteq Procs
  BY DEF Changing
<1>3. IsFiniteSet(Changing')
  BY <1>2, FS_Subset, OwnerAssumption
<1>4. Cardinality(Changing') \in Nat
  BY <1>3, FS_CardinalityType
<1>5. Cardinality(Changing') = 0 \/ Cardinality(Changing') = 1
  BY <1>1, <1>4
<1>6. Changing' = {} \/ \E x : Changing' = {x}
  BY <1>3, <1>5, FS_EmptySet, FS_Singleton
<1>7. \A p \in Procs : at'[p] \in ChangingPlaces => p \in Changing'
  BY DEF Changing, ChangingPlaces
<1>8. \A p, q \in Procs : at'[p] \in ChangingPlaces /\ at'[q] \in ChangingPlaces => p = q
  BY <1>6, <1>7
<1>9. raced => \A p \in Procs : at'[p] = "off"
  BY DEF Track
<1> QED
  BY <1>8, <1>9

LEMMA InitOwnerInv == OwnerInit => OwnerInv
<1> SUFFICES ASSUME OwnerInit PROVE OwnerInv
  OBVIOUS
<1> USE DEF OwnerInit
<1>1. InvType
  BY DEF InvType, Places
<1>2. InvClient /\ InvAlone /\ SoleOwner
  BY DEF InvClient, InvAlone, SoleOwner, PathLeadsToOwner, ChangingPlaces, Serving
<1> QED
  BY <1>1, <1>2 DEF OwnerInv

(* Every system call keeps the types.                                       *)
LEMMA TypeStep ==
    ASSUME InvType, NEW p \in Procs, Opening(p) \/ Ending(p) \/ Using(p), Track
    PROVE  InvType'
<1> USE DEF InvType
<1>0. raced' \in BOOLEAN
  BY DEF Track
<1>1. CASE TryAttach(p) \/ Stat(p) \/ Probe(p) \/ AttachToWinner(p)
  BY <1>0, <1>1 DEF TryAttach, Stat, Probe, AttachToWinner, Go, ConnectTo, Places
<1>2. CASE RemoveStale(p) \/ Bind(p) \/ Listen(p) \/ OpenRest(p)
  BY <1>0, <1>2 DEF RemoveStale, Bind, Listen, OpenRest, Go, Places
<1>3. CASE Start(p) \/ Close(p) \/ TakeOver(p)
  BY <1>0, <1>3 DEF Start, Close, TakeOver, Go, Places
<1>4. CASE Unlink(p) \/ RemoveSocket(p)
  BY <1>0, <1>4 DEF Unlink, RemoveSocket, Go, Places
<1>5. CASE Hangup(p)
  BY <1>0, <1>5 DEF Hangup, Disconnect, Places
<1>6. CASE Detach(p) \/ SendFails(p) \/ Kill(p)
  BY <1>0, <1>6 DEF Detach, SendFails, Kill, Disconnect, Places
<1> QED
  BY <1>1, <1>2, <1>3, <1>4, <1>5, <1>6 DEF Opening, Ending, Using

(* A client is made by an answered dial, and unmade by the end of either    *)
(* side; between the two its peer only goes from serving to hanging up.     *)
LEMMA PeerStep ==
    ASSUME InvType, InvType', InvClient, NEW p \in Procs, Opening(p) \/ Ending(p) \/ Using(p)
    PROVE  InvClient'
<1> USE DEF InvType, InvClient, Serving
<1>1. CASE TryAttach(p) \/ AttachToWinner(p)
  BY <1>1 DEF TryAttach, AttachToWinner, Go, ConnectTo, Answers, OwnerAssumption
<1>2. CASE Stat(p) \/ Probe(p) \/ RemoveStale(p) \/ Bind(p) \/ Listen(p) \/ OpenRest(p)
  BY <1>2 DEF Stat, Probe, RemoveStale, Bind, Listen, OpenRest, Go
<1>3. CASE Start(p) \/ Close(p) \/ TakeOver(p)
  BY <1>3 DEF Start, Close, TakeOver, Go
<1>4. CASE Unlink(p) \/ RemoveSocket(p)
  BY <1>4 DEF Unlink, RemoveSocket, Go
<1>5. CASE Hangup(p) \/ Detach(p) \/ SendFails(p) \/ Kill(p)
  BY <1>5 DEF Hangup, Detach, SendFails, Kill, Disconnect
<1> QED
  BY <1>1, <1>2, <1>3, <1>4, <1>5 DEF Opening, Ending, Using

(* The path leads to whoever serves and to whoever has just bound it.       *)
InvPath == InvAlone /\ (~raced => PathLeadsToOwner)

(* The steps that touch the path, and those that leave it alone.            *)
LEMMA PathStep ==
    ASSUME InvType, InvType', InvPath, NEW p \in Procs,
           Opening(p) \/ Ending(p) \/ Using(p), Track
    PROVE  InvPath'
<1> SUFFICES ASSUME ~raced'
             PROVE  /\ \A q, r \in Procs : at'[q] \in ChangingPlaces => at'[r] \notin Serving
                    /\ \A q \in Procs : at'[q] = "bound" => path' = q
                    /\ \A q \in Procs : at'[q] \in Serving => path' = q
  BY TrackMeans DEF InvPath, InvAlone, PathLeadsToOwner
<1>1. CASE raced
  BY <1>1, TrackMeans DEF ChangingPlaces, Serving
<1>2. CASE ~raced
  <2> USE <1>2 DEF InvType, InvPath, InvAlone, PathLeadsToOwner, ChangingPlaces, Serving
  <2>1. CASE TryAttach(p) \/ AttachToWinner(p) \/ Start(p) \/ TakeOver(p) \/ OpenRest(p) \/ Close(p)
    BY <2>1 DEF TryAttach, AttachToWinner, Start, TakeOver, OpenRest, Close, Go, ConnectTo
  <2>2. CASE Stat(p)
    BY <2>2, OwnerAssumption DEF Stat, Go
  <2>3. CASE Probe(p)
    BY <2>3, OwnerAssumption DEF Probe, Go, Answers
  <2>4. CASE RemoveStale(p)
    BY <2>4 DEF RemoveStale, Go
  <2>5. CASE Bind(p)
    BY <2>5 DEF Bind, Go
  <2>6. CASE Listen(p)
    BY <2>6 DEF Listen, Go
  <2>7. CASE Unlink(p)
    BY <2>7, OwnerAssumption DEF Unlink, Go
  <2>8. CASE RemoveSocket(p)
    BY <2>8 DEF RemoveSocket, Go
  <2>9. CASE Hangup(p)
    BY <2>9 DEF Hangup, Disconnect
  <2>10. CASE Detach(p) \/ SendFails(p) \/ Kill(p)
    BY <2>10 DEF Detach, SendFails, Kill, Disconnect
  <2> QED
    BY <2>1, <2>2, <2>3, <2>4, <2>5, <2>6, <2>7, <2>8, <2>9, <2>10 DEF Opening, Ending, Using
<1> QED
  BY <1>1, <1>2

LEMMA NextOwnerInv == OwnerInv /\ [OwnerNext]_ownerVars => OwnerInv'
<1> SUFFICES ASSUME OwnerInv, [OwnerNext]_ownerVars PROVE OwnerInv'
  OBVIOUS
<1>1. CASE UNCHANGED ownerVars
  BY <1>1 DEF OwnerInv, InvType, InvClient, InvAlone, SoleOwner, PathLeadsToOwner, ownerVars
<1>2. CASE OwnerNext
  <2>1. PICK p \in Procs : (Opening(p) \/ Ending(p) \/ Using(p)) /\ Track
    BY <1>2 DEF OwnerNext, Runs
  <2>2. InvType'
    BY <2>1, TypeStep DEF OwnerInv
  <2>3. InvClient'
    BY <2>1, <2>2, PeerStep DEF OwnerInv
  <2>4. InvPath'
    BY <2>1, <2>2, PathStep DEF OwnerInv, InvPath, SoleOwner
  <2>5. SoleOwner'
    BY <2>3, <2>4 DEF InvPath, SoleOwner, InvClient, PathLeadsToOwner
  <2> QED
    BY <2>2, <2>3, <2>4, <2>5 DEF OwnerInv, InvPath
<1> QED
  BY <1>1, <1>2

(* Every reachable state of the processes around a socket (Open, listenUnix *)
(* and Close of session.go, cmdSerialAttach) satisfies the inductive        *)
(* invariant.                                                               *)
THEOREM OwnerInvHolds == OwnerSpec => []OwnerInv
BY InitOwnerInv, NextOwnerInv, PTL DEF OwnerSpec

(* The console has one owner, the path leads to it, and every client is     *)
(* connected to it or about to lose it, as long as no two processes were in *)
(* listenUnix's removal and bind or in Close's removal at once.             *)
THEOREM SoleOwnerHolds == OwnerSpec => []SoleOwner
<1>1. OwnerInv => SoleOwner
  BY DEF OwnerInv
<1> QED
  BY <1>1, OwnerInvHolds, PTL

(* Even where two processes raced: nobody stays attached to a process that  *)
(* ended.  Hanging up and dying both end a process's connections.           *)
THEOREM ClientsHaveOwners == OwnerSpec => []InvClient
<1>1. OwnerInv => InvClient
  BY DEF OwnerInv
<1> QED
  BY <1>1, OwnerInvHolds, PTL

=============================================================================
