---------------------------- MODULE SerialOwner -----------------------------
(***************************************************************************)
(* Who owns a machine's console among several yoe processes                 *)
(* (internal/serial/session.go, client.go, cmd/yoe/serial.go,               *)
(* internal/tui/serial.go): the TUI, `yoe serial` and `yoe serial send` try *)
(* to attach to the socket of the machine, or to serve it, clear away the   *)
(* socket of a dead owner, and hand over when the owner leaves.             *)
(*                                                                          *)
(* One step is one system call on the socket's path.  The path names the    *)
(* socket of at most one process; a socket outlives a process that is       *)
(* killed, but then nothing answers behind it.                              *)
(***************************************************************************)
EXTENDS Naturals, FiniteSets

CONSTANTS
    Procs,          \* the processes
    Tuis, Senders,  \* those that are the TUI or `yoe serial send`; the others are `yoe serial`
    Taken,          \* those told to serve a TCP address somebody else listens on
    NoProc,
    MaxStarts, MaxKills

ASSUME OwnerAssumption ==
    /\ IsFiniteSet(Procs) /\ NoProc \notin Procs
    /\ Tuis \subseteq Procs /\ Senders \subseteq Procs \ Tuis /\ Taken \subseteq Procs
    /\ MaxStarts \in Nat /\ MaxKills \in Nat

VARIABLES
    at,             \* where each process is in Open, Close or between them
    why,            \* what made it close: the log file, the TCP listener, or Close
    peer,           \* the owner a client is connected to
    path,           \* whose socket the path names
    starts, kills,  \* counters
    raced           \* whether two of the running processes changed the path at once

ownerVars == <<at, why, peer, path, starts, kills, raced>>

OwnerInit ==
    /\ at = [p \in Procs |-> "off"]
    /\ why = [p \in Procs |-> "none"]
    /\ peer = [p \in Procs |-> NoProc]
    /\ path = NoProc
    /\ starts = 0 /\ kills = 0
    /\ raced = FALSE

Serving == {"opened", "own", "unlink"}

(* A dial is answered: from listen(2) until the listener is closed. *)
Answers == path # NoProc /\ at[path] \in Serving

Go(p, s) == at' = [at EXCEPT ![p] = s]

(* The connections of p end; their other ends notice. *)
Disconnect(p, s) ==
    /\ at' = [q \in Procs |-> CASE q = p -> s
                                [] at[q] = "client" /\ peer[q] = p -> "lost"
                                [] OTHER -> at[q]]
    /\ peer' = [q \in Procs |-> IF q = p \/ peer[q] = p THEN NoProc ELSE peer[q]]

(* Attach. *)
ConnectTo(p) == Go(p, "client") /\ peer' = [peer EXCEPT ![p] = path]

-----------------------------------------------------------------------------
(* Open, OpenOrAttach and the TUI's serialStart. *)

(* A command starts, or the TUI (re)opens its console. *)
Start(p) ==
    /\ at[p] = "off" /\ starts < MaxStarts
    /\ starts' = starts + 1
    /\ Go(p, IF p \in Tuis THEN "stat" ELSE "attach")
    /\ UNCHANGED <<why, peer, path, kills>>

(* OpenOrAttach first tries to attach. *)
TryAttach(p) ==
    /\ at[p] = "attach"
    /\ IF Answers THEN ConnectTo(p) ELSE Go(p, "stat") /\ UNCHANGED peer
    /\ UNCHANGED <<why, path, starts, kills>>

\* Mutant: a socket that is there is taken to be a dead owner's.
StatTrusts(p) ==
    /\ at[p] = "stat"
    /\ Go(p, IF path # NoProc THEN "remove" ELSE "listen")
    /\ UNCHANGED <<why, peer, path, starts, kills>>

(* listenUnix: is there a socket, ... *)
Stat(p) ==
    /\ at[p] = "stat"
    /\ Go(p, IF path # NoProc THEN "dial" ELSE "listen")
    /\ UNCHANGED <<why, peer, path, starts, kills>>

(* ... does it answer (ErrSessionExists), ... *)
Probe(p) ==
    /\ at[p] = "dial"
    /\ Go(p, IF Answers THEN "exists" ELSE "remove")
    /\ UNCHANGED <<why, peer, path, starts, kills>>

(* ... remove it, which fails if it is gone, ... *)
RemoveStale(p) ==
    /\ at[p] = "remove"
    /\ path' = NoProc
    /\ Go(p, IF path # NoProc THEN "listen" ELSE "off")
    /\ UNCHANGED <<why, peer, starts, kills>>

(* ... bind, which fails if another process did, ... *)
Bind(p) ==
    /\ at[p] = "listen"
    /\ IF path = NoProc THEN path' = p /\ Go(p, "bound") ELSE Go(p, "off") /\ UNCHANGED path
    /\ UNCHANGED <<why, peer, starts, kills>>

(* ... and listen. *)
Listen(p) ==
    /\ at[p] = "bound"
    /\ Go(p, "opened")
    /\ UNCHANGED <<why, peer, path, starts, kills>>

(* The rest of Open: the log file, then the TCP listener. *)
OpenRest(p) ==
    /\ at[p] = "opened"
    /\ \E w \in {"log", IF p \in Taken THEN "tcp" ELSE "none"} :
         /\ why' = [why EXCEPT ![p] = w]
         /\ Go(p, IF w = "none" THEN "own" ELSE "unlink")
    /\ UNCHANGED <<peer, path, starts, kills>>

(* After ErrSessionExists the process attaches to whoever answered. *)
AttachToWinner(p) ==
    /\ at[p] = "exists"
    /\ IF Answers THEN ConnectTo(p) ELSE Go(p, "off") /\ UNCHANGED peer
    /\ UNCHANGED <<why, path, starts, kills>>

-----------------------------------------------------------------------------
(* Close and the clients. *)

(* The user quits, `send` has sent, or the TUI changes machine. *)
Close(p) ==
    /\ at[p] = "own"
    /\ why' = [why EXCEPT ![p] = "close"]
    /\ Go(p, "unlink")
    /\ UNCHANGED <<peer, path, starts, kills>>

(* Closing a listener removes what its path names, ... *)
Unlink(p) ==
    /\ at[p] = "unlink"
    /\ path' = NoProc
    /\ Go(p, "hangup")
    /\ UNCHANGED <<why, peer, starts, kills>>

(* ... then the socket, and Close the connections.  Open ends there if the  *)
(* log failed; if the TCP listener did, Close waits for s.done, which only  *)
(* the end of Open would have closed.                                       *)
Hangup(p) ==
    /\ at[p] = "hangup"
    /\ Disconnect(p, CASE why[p] = "log" -> "off" [] why[p] = "tcp" -> "stuck" [] why[p] = "close" -> "final")
    /\ why' = [why EXCEPT ![p] = "none"]
    /\ UNCHANGED <<path, starts, kills>>

(* Close ends by removing the socket file. *)
RemoveSocket(p) ==
    /\ at[p] = "final"
    /\ path' = NoProc
    /\ Go(p, "off")
    /\ UNCHANGED <<why, peer, starts, kills>>

(* A client detaches, or notices the end and gives up. *)
Detach(p) ==
    /\ at[p] \in {"client", "lost"}
    /\ Disconnect(p, "off")
    /\ UNCHANGED <<why, path, starts, kills>>

(* `yoe serial` whose owner went away starts over. *)
TakeOver(p) ==
    /\ at[p] = "lost" /\ p \notin Tuis \union Senders
    /\ Go(p, "attach")
    /\ UNCHANGED <<why, peer, path, starts, kills>>

(* `yoe serial send` fails where it stands when the adapter does not        *)
(* connect: fail exits the process, and the deferred Close does not run.    *)
SendFails(p) ==
    /\ p \in Senders /\ at[p] = "own"
    /\ Disconnect(p, "off")
    /\ UNCHANGED <<why, path, starts, kills>>

(* A process is killed. *)
Kill(p) ==
    /\ at[p] # "off" /\ kills < MaxKills
    /\ kills' = kills + 1
    /\ Disconnect(p, "off")
    /\ why' = [why EXCEPT ![p] = "none"]
    /\ UNCHANGED <<path, starts>>

-----------------------------------------------------------------------------
Opening(p) == TryAttach(p) \/ Stat(p) \/ Probe(p) \/ RemoveStale(p) \/ Bind(p) \/ Listen(p)
                \/ OpenRest(p) \/ AttachToWinner(p)
Ending(p) == Unlink(p) \/ Hangup(p) \/ RemoveSocket(p)
Using(p) == Start(p) \/ Close(p) \/ Detach(p) \/ TakeOver(p) \/ SendFails(p) \/ Kill(p)

(* The processes about to change the path on what they saw of it before. *)
Changing == {p \in Procs : at[p] \in {"remove", "listen", "bound", "hangup", "final"}}

Track == raced' = (\/ Cardinality(Changing') > 1
                   \/ raced /\ \E p \in Procs : at'[p] # "off")

Runs(p) == (Opening(p) \/ Ending(p)) /\ Track
OwnerNext == \E p \in Procs : Runs(p) \/ (Using(p) /\ Track)

OwnerSpec == OwnerInit /\ [][OwnerNext]_ownerVars

(* A process runs until it waits for its user. *)
OwnerFairSpec == OwnerSpec /\ \A p \in Procs : WF_ownerVars(Runs(p))

-----------------------------------------------------------------------------
(* The process that serves the console is the one the path leads to, so     *)
(* there is one.                                                            *)
PathLeadsToOwner == \A p \in Procs : at[p] \in Serving => path = p

(* The console has one owner, the path leads to it, and every client is     *)
(* connected to it or about to lose it, through kills, sockets left by dead *)
(* owners, takeovers, failed opens and handovers, as long as no two of the  *)
(* running processes were binding or removing the socket at the same time   *)
(* (listenUnix, Close).  What a race did is over with its processes.        *)
SoleOwner ==
    ~raced =>
        /\ PathLeadsToOwner
        /\ \A p \in Procs : at[p] = "client" => path = peer[p] \/ at[peer[p]] = "hangup"

(* Open returns: every process that opens the console comes to own it, to   *)
(* be attached to its owner, or to give up with an error.                   *)
OpenReturns ==
    \A p \in Procs : (at[p] \in {"attach", "stat"}) ~> (at[p] \in {"own", "client", "off"})

=============================================================================
