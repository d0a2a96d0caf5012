--------------------------- MODULE SerialSession ----------------------------
(***************************************************************************)
(* A captured serial console (internal/serial/session.go, logwriter.go):    *)
(* the adapter loop that opens the port, logs what it reads and fans it     *)
(* out, the accept loop and one goroutine per attached client, the log's    *)
(* idle timer, and Close, which runs beside all of them.                    *)
(*                                                                          *)
(* Steps end where a goroutine takes or releases a lock or may block.       *)
(* Chunks of output are numbered as they are read.  The board, the adapter  *)
(* and the clients are the environment: the board may stay silent for ever, *)
(* the adapter may be unplugged, a client may stop reading.                 *)
(***************************************************************************)
EXTENDS Naturals, FiniteSets, Sequences, SequencesExt

CONSTANTS
    Clients,        \* processes that attach through the socket, once each
    SubCap,         \* rawSubBuffer: chunks a subscriber may lag behind
    SockCap,        \* chunks a client's socket holds unread
    MaxChunks, MaxOpens

ASSUME SerialAssumption ==
    /\ IsFiniteSet(Clients)
    /\ SubCap \in Nat \ {0} /\ SockCap \in Nat \ {0}
    /\ MaxChunks \in Nat /\ MaxOpens \in Nat

VARIABLES
    pc, mine,       \* the adapter loop and its transport; 0 is none
    cl, clT,        \* Close, and the transport it found
    srv,            \* the accept loop: accepting, ended, or with a client
    ses,            \* the session: kind, transport, ctxDone, listening, conns, clients
    port,           \* open transports, those whose adapter is there, how many there were
    log,            \* lines written, the partial line, whether the file is open
    nread, dropped, \* chunks read; State.Dropped
    cli             \* each client: goroutine, connection, subscription, what it got

vars == <<pc, mine, cl, clT, srv, ses, port, log, nread, dropped, cli>>

Init ==
    /\ pc = "connect" /\ mine = 0
    /\ cl = "idle" /\ clT = 0
    /\ srv = "accept"
    /\ ses = [kind |-> "waiting", transport |-> 0, ctxDone |-> FALSE, listening |-> TRUE,
              conns |-> {}, clients |-> 0]
    /\ port = [open |-> {}, live |-> {}, opens |-> 0]
    /\ log = [lines |-> <<>>, partial |-> <<>>, open |-> TRUE]
    /\ nread = 0 /\ dropped = 0
    /\ cli = [c \in Clients |-> [pc |-> "none", open |-> FALSE, sub |-> "none", q |-> <<>>,
                                 hand |-> <<>>, got |-> <<>>, unread |-> 0, since |-> 0]]

(* flushLine: a line written after the file is closed is lost. *)
Flushed(l) == [l EXCEPT !.lines = IF l.open THEN @ \o l.partial ELSE @, !.partial = <<>>]

-----------------------------------------------------------------------------
(* The adapter loop. *)

(* connect: the adapter is there and opens, or not. *)
Connect ==
    /\ pc = "connect"
    /\ \/ /\ port.opens < MaxOpens
          /\ port' = [port EXCEPT !.open = @ \union {port.opens + 1}, !.live = {port.opens + 1}, !.opens = @ + 1]
          /\ mine' = port.opens + 1
          /\ pc' = "opened"
       \/ pc' = "failed" /\ UNCHANGED <<port, mine>>
    /\ UNCHANGED <<cl, clT, srv, ses, log, nread, dropped, cli>>

SetConnected ==
    /\ pc = "opened"
    /\ ses' = [ses EXCEPT !.transport = mine, !.kind = "connected"]
    /\ pc' = "connected"
    /\ UNCHANGED <<mine, cl, clT, srv, port, log, nread, dropped, cli>>

(* The markers at either end of a capture flush the partial line. *)
Marker ==
    /\ pc \in {"connected", "lost"}
    /\ log' = Flushed(log)
    /\ pc' = IF pc = "connected" THEN "reading" ELSE "failed"
    /\ UNCHANGED <<mine, cl, clT, srv, ses, port, nread, dropped, cli>>

(* t.Read returns output, or an error once the adapter or the port is gone. *)
Read ==
    /\ pc = "reading"
    /\ \/ /\ mine \in port.live /\ nread < MaxChunks
          /\ nread' = nread + 1
          /\ pc' = "got"
       \/ /\ mine \notin port.live
          /\ pc' = "drop" /\ UNCHANGED nread
    /\ UNCHANGED <<mine, cl, clT, srv, ses, port, log, dropped, cli>>

(* LogWriter.Write: the chunk ends a line or not. *)
LogWrite ==
    /\ pc = "got"
    /\ LET fed == [log EXCEPT !.partial = Append(@, nread)]
       IN  log' \in {fed, Flushed(fed)}
    /\ pc' = "logged"
    /\ UNCHANGED <<mine, cl, clT, srv, ses, port, nread, dropped, cli>>

Open == {c \in Clients : cli[c].sub = "open"}
Full == {c \in Open : Len(cli[c].q) = SubCap}

\* Mutant: a chunk that does not fit is not counted.
DropsSilently ==
    /\ pc = "logged"
    /\ cli' = [c \in Clients |-> IF c \in Open \ Full THEN [cli[c] EXCEPT !.q = Append(@, nread)] ELSE cli[c]]
    /\ UNCHANGED dropped
    /\ pc' = IF ses.ctxDone THEN "drop" ELSE "reading"
    /\ UNCHANGED <<mine, cl, clT, srv, ses, port, log, nread>>

(* fanoutRaw never waits for a subscriber; then copyLoop looks at ctx. *)
Fanout ==
    /\ pc = "logged"
    /\ cli' = [c \in Clients |-> IF c \in Open \ Full THEN [cli[c] EXCEPT !.q = Append(@, nread)] ELSE cli[c]]
    /\ dropped' = dropped + Cardinality(Full)
    /\ pc' = IF ses.ctxDone THEN "drop" ELSE "reading"
    /\ UNCHANGED <<mine, cl, clT, srv, ses, port, log, nread>>

(* dropTransport forgets the transport, then closes it. *)
DropTransport ==
    /\ \/ /\ pc = "drop"
          /\ ses' = [ses EXCEPT !.transport = IF @ = mine THEN 0 ELSE @]
          /\ pc' = "dropped" /\ UNCHANGED port
       \/ /\ pc = "dropped"
          /\ port' = [port EXCEPT !.open = @ \ {mine}, !.live = @ \ {mine}]
          /\ pc' = IF ses.ctxDone THEN "ended" ELSE "lost"
          /\ UNCHANGED ses
    /\ UNCHANGED <<mine, cl, clT, srv, log, nread, dropped, cli>>

SetWaiting ==
    /\ pc = "failed"
    /\ ses' = [ses EXCEPT !.kind = IF @ = "closed" THEN @ ELSE "waiting"]
    /\ pc' = "sleep"
    /\ UNCHANGED <<mine, cl, clT, srv, port, log, nread, dropped, cli>>

Sleep ==
    /\ pc = "sleep"
    /\ pc' = IF ses.ctxDone THEN "ended" ELSE "connect"
    /\ UNCHANGED <<mine, cl, clT, srv, ses, port, log, nread, dropped, cli>>

(* idleFire, at any moment after part of a line was written. *)
IdleFire ==
    /\ log.partial # <<>>
    /\ log' = Flushed(log)
    /\ UNCHANGED <<pc, mine, cl, clT, srv, ses, port, nread, dropped, cli>>

-----------------------------------------------------------------------------
(* The accept loop and the clients' goroutines. *)

Accept(c) ==
    /\ srv = "accept" /\ ses.listening /\ cli[c].pc = "none" /\ cli[c].open
    /\ srv' = "busy"
    /\ cli' = [cli EXCEPT ![c].pc = "accepted"]
    /\ UNCHANGED <<pc, mine, cl, clT, ses, port, log, nread, dropped>>

AcceptFails ==
    /\ srv = "accept" /\ ~ses.listening
    /\ srv' = "ended"
    /\ UNCHANGED <<pc, mine, cl, clT, ses, port, log, nread, dropped, cli>>

(* Subscribe: on a closed session the channel is closed at once. *)
Subscribe(c) ==
    /\ cli[c].pc = "accepted"
    /\ cli' = [cli EXCEPT ![c].pc = "subscribed",
                          ![c].sub = IF ses.kind = "closed" THEN "closed" ELSE "open"]
    /\ UNCHANGED <<pc, mine, cl, clT, srv, ses, port, log, nread, dropped>>

(* The last chunk that was fanned out. *)
Fanned == IF pc \in {"got", "logged"} THEN nread - 1 ELSE nread

(* The client is registered and counted, and its goroutine starts. *)
Count(c) ==
    /\ cli[c].pc = "subscribed"
    /\ ses' = [ses EXCEPT !.conns = @ \union {c}, !.clients = @ + 1]
    /\ cli' = [cli EXCEPT ![c].pc = "serving", ![c].since = Fanned]
    /\ srv' = "accept"
    /\ UNCHANGED <<pc, mine, cl, clT, port, log, nread, dropped>>

(* serveConn takes a chunk from the channel ... *)
Take(c) ==
    /\ cli[c].pc = "serving" /\ cli[c].q # <<>>
    /\ cli' = [cli EXCEPT ![c].pc = "writing", ![c].hand = <<Head(cli[c].q)>>, ![c].q = Tail(@)]
    /\ UNCHANGED <<pc, mine, cl, clT, srv, ses, port, log, nread, dropped>>

(* ... and writes it, which waits while the socket is full and fails once   *)
(* the connection is closed.                                                *)
Deliver(c) ==
    /\ cli[c].pc = "writing"
    /\ \/ /\ cli[c].open /\ cli[c].unread < SockCap
          /\ cli' = [cli EXCEPT ![c].pc = "serving", ![c].hand = <<>>,
                                ![c].got = @ \o cli[c].hand, ![c].unread = @ + 1]
       \/ /\ ~cli[c].open
          /\ cli' = [cli EXCEPT ![c].pc = "leaving"]
    /\ UNCHANGED <<pc, mine, cl, clT, srv, ses, port, log, nread, dropped>>

(* The channel is closed and empty, the client is gone, or ctx is done. *)
StopServing(c) ==
    /\ cli[c].pc = "serving"
    /\ (cli[c].sub = "closed" /\ cli[c].q = <<>>) \/ ~cli[c].open \/ ses.ctxDone
    /\ cli' = [cli EXCEPT ![c].pc = "leaving"]
    /\ UNCHANGED <<pc, mine, cl, clT, srv, ses, port, log, nread, dropped>>

(* The deferred calls: cancel the subscription, then deregister and close. *)
Leave(c) ==
    /\ \/ /\ cli[c].pc = "leaving"
          /\ cli' = [cli EXCEPT ![c].pc = "left", ![c].sub = "closed"]
          /\ UNCHANGED ses
       \/ /\ cli[c].pc = "left"
          /\ ses' = [ses EXCEPT !.conns = @ \ {c}, !.clients = @ - 1]
          /\ cli' = [cli EXCEPT ![c].pc = "done", ![c].open = FALSE]
    /\ UNCHANGED <<pc, mine, cl, clT, srv, port, log, nread, dropped>>

-----------------------------------------------------------------------------
(* Close. *)

(* Under the lock: mark closed, take the transport, close the listeners,    *)
(* the connections registered so far, and every channel.                    *)
CloseLocked ==
    /\ cl = "idle" /\ ses.kind # "closed"
    /\ clT' = ses.transport
    /\ ses' = [ses EXCEPT !.kind = "closed", !.transport = 0, !.listening = FALSE]
    /\ cli' = [c \in Clients |->
                 [cli[c] EXCEPT !.open = @ /\ c \notin ses.conns,
                                !.sub = IF @ = "open" THEN "closed" ELSE @]]
    /\ cl' = "cancel"
    /\ UNCHANGED <<pc, mine, srv, port, log, nread, dropped>>

CloseCancel ==
    /\ cl = "cancel"
    /\ ses' = [ses EXCEPT !.ctxDone = TRUE]
    /\ cl' = "close"
    /\ UNCHANGED <<pc, mine, clT, srv, port, log, nread, dropped, cli>>

\* Mutant: the transport is left to the adapter loop.
CloseSkipsPort ==
    /\ cl = "close"
    /\ cl' = "wait"
    /\ UNCHANGED <<pc, mine, clT, srv, ses, port, log, nread, dropped, cli>>

(* t.Close, which unblocks the reader. *)
CloseTransport ==
    /\ cl = "close"
    /\ port' = [port EXCEPT !.open = @ \ {clT}, !.live = @ \ {clT}]
    /\ cl' = "wait"
    /\ UNCHANGED <<pc, mine, clT, srv, ses, log, nread, dropped, cli>>

Running(c) == cli[c].pc \notin {"none", "done"}

\* Mutant: only the adapter loop is waited for.
CloseWaitsLess ==
    /\ cl = "wait" /\ pc = "ended"
    /\ cl' = "flush"
    /\ UNCHANGED <<pc, mine, clT, srv, ses, port, log, nread, dropped, cli>>

(* <-s.done *)
CloseWait ==
    /\ cl = "wait" /\ pc = "ended" /\ srv = "ended" /\ \A c \in Clients : ~Running(c)
    /\ cl' = "flush"
    /\ UNCHANGED <<pc, mine, clT, srv, ses, port, log, nread, dropped, cli>>

\* Mutant: the partial line is not flushed.
CloseUnflushed ==
    /\ \/ cl = "flush" /\ cl' = "file" /\ UNCHANGED log
       \/ cl = "file" /\ log' = [log EXCEPT !.open = FALSE] /\ cl' = "returned"
    /\ UNCHANGED <<pc, mine, clT, srv, ses, port, nread, dropped, cli>>

(* LogWriter.Close, then the file. *)
CloseLog ==
    /\ \/ cl = "flush" /\ log' = Flushed(log) /\ cl' = "file"
       \/ cl = "file" /\ log' = [log EXCEPT !.open = FALSE] /\ cl' = "returned"
    /\ UNCHANGED <<pc, mine, clT, srv, ses, port, nread, dropped, cli>>

-----------------------------------------------------------------------------
(* The environment. *)

(* The adapter is unplugged: its transports are dead. *)
Unplug ==
    /\ port.live # {}
    /\ port' = [port EXCEPT !.live = {}]
    /\ UNCHANGED <<pc, mine, cl, clT, srv, ses, log, nread, dropped, cli>>

(* The context Open was given is cancelled. *)
ParentCancel ==
    /\ ~ses.ctxDone
    /\ ses' = [ses EXCEPT !.ctxDone = TRUE]
    /\ UNCHANGED <<pc, mine, cl, clT, srv, port, log, nread, dropped, cli>>

Dial(c) ==
    /\ cli[c].pc = "none" /\ ses.listening /\ ~cli[c].open
    /\ cli' = [cli EXCEPT ![c].open = TRUE]
    /\ UNCHANGED <<pc, mine, cl, clT, srv, ses, port, log, nread, dropped>>

ClientReads(c) ==
    /\ cli[c].unread > 0
    /\ cli' = [cli EXCEPT ![c].unread = @ - 1]
    /\ UNCHANGED <<pc, mine, cl, clT, srv, ses, port, log, nread, dropped>>

ClientCloses(c) ==
    /\ cli[c].open /\ Running(c)
    /\ cli' = [cli EXCEPT ![c].open = FALSE]
    /\ UNCHANGED <<pc, mine, cl, clT, srv, ses, port, log, nread, dropped>>

Adapter == Connect \/ SetConnected \/ Marker \/ Read \/ LogWrite \/ Fanout \/ DropTransport
             \/ SetWaiting \/ Sleep
Server(c) == Accept(c) \/ Subscribe(c) \/ Count(c)
Conn(c) == Take(c) \/ Deliver(c) \/ StopServing(c) \/ Leave(c)
Closing == CloseCancel \/ CloseTransport \/ CloseWait \/ CloseLog
Environment(c) == Dial(c) \/ ClientReads(c) \/ ClientCloses(c)

Next ==
    \/ Adapter \/ IdleFire \/ AcceptFails \/ CloseLocked \/ Closing \/ Unplug \/ ParentCancel
    \/ \E c \in Clients : Server(c) \/ Conn(c) \/ Environment(c)

Spec == Init /\ [][Next]_vars

(* The goroutines are scheduled; a read that waits for the board is not.    *)
Scheduled == Adapter /\ (pc = "reading" => mine \notin port.live)

SessionFairness ==
    /\ WF_vars(Scheduled) /\ WF_vars(AcceptFails) /\ WF_vars(Closing)
    /\ \A c \in Clients : WF_vars(Server(c)) /\ WF_vars(Conn(c))

-----------------------------------------------------------------------------
(* Types; State.Clients is never negative. *)
TypeOK ==
    /\ pc \in {"connect", "opened", "connected", "reading", "got", "logged", "drop", "dropped",
               "lost", "failed", "sleep", "ended"}
    /\ cl \in {"idle", "cancel", "close", "wait", "flush", "file", "returned"}
    /\ srv \in {"accept", "busy", "ended"}
    /\ ses.kind \in {"waiting", "connected", "closed"}
    /\ {mine, clT, ses.transport} \subseteq 0 .. MaxOpens
    /\ ses.conns \subseteq Clients /\ ses.clients \in Nat
    /\ port.live \subseteq port.open /\ port.open \subseteq 1 .. MaxOpens
    /\ nread \in 0 .. MaxChunks /\ dropped \in Nat
    /\ \A c \in Clients : Len(cli[c].q) <= SubCap /\ cli[c].unread <= SockCap

Numbers(n) == [i \in 1 .. n |-> i]

(* Everything read is in the log once and in order, or in the partial line, *)
(* through idle flushes, markers and reconnects; when Close returns it is   *)
(* all in the file.                                                         *)
LogComplete ==
    /\ log.lines \o log.partial = Numbers(IF pc = "got" THEN nread - 1 ELSE nread)
    /\ cl = "returned" => log.partial = <<>>

(* A client sees output in order and, once it is counted, all of it up to   *)
(* what Dropped counts: who waits for State().Clients cannot write a chunk  *)
(* this client would miss.                                                  *)
CountedSeesAll ==
    \A c \in Clients :
        LET seen == cli[c].got \o cli[c].hand \o cli[c].q
        IN  /\ \A i \in 1 .. Len(seen) - 1 : seen[i] < seen[i + 1]
            /\ (cli[c].pc \in {"serving", "writing"} /\ cli[c].sub = "open" /\ dropped = 0) =>
                 \A n \in cli[c].since + 1 .. Fanned : n \in Range(seen)

(* When Close returns no goroutine holds anything: ports, connections and   *)
(* channels are closed and State counts no client, whoever was being        *)
(* accepted, served or connected when it began.                             *)
CloseLeavesNothing ==
    cl = "returned" =>
        /\ port.open = {} /\ ses.conns = {} /\ ses.clients = 0
        /\ \A c \in Clients : cli[c].sub # "open" /\ (cli[c].pc = "none" \/ ~cli[c].open)

(* Close returns, however silent the board and slow the clients, if the     *)
(* session is still marked closed when the context is cancelled and the     *)
(* adapter loop either holds the transport Close found or sleeps.           *)
CloseReturns ==
    (cl = "close" /\ ses.kind = "closed" /\ (clT \in {mine} \intersect port.open \/ pc = "sleep"))
        ~> (cl = "returned")

(* Close stops the capture and returns. *)
CloseAlwaysReturns == (cl = "cancel") ~> (cl = "returned")

(* The log loses, repeats and reorders nothing, a client the session counts *)
(* misses no chunk that is not counted as dropped, and a session that was   *)
(* closed holds no goroutine, client, transport or socket.                  *)
SessionInv ==
    /\ TypeOK
    /\ LogComplete
    /\ CountedSeesAll
    /\ CloseLeavesNothing

=============================================================================
