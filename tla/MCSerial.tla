------------------------------ MODULE MCSerial -------------------------------
(* The console side by side: one session with a client that may stop        *)
(* reading, and the TUI, a `yoe serial` told to serve a TCP address that is *)
(* taken, and a `yoe serial send` contending for the socket.  The session   *)
(* starts where the other part has an owner; they share no state otherwise, *)
(* so a behaviour is of one of them.                                        *)
EXTENDS SerialSession, SerialOwner

VARIABLE part

SerialInit == Init /\ OwnerInit /\ part \in {"session", "owner"}

SerialNext ==
    /\ UNCHANGED part
    /\ \/ part = "session" /\ Next /\ UNCHANGED ownerVars
       \/ part = "owner" /\ OwnerNext /\ UNCHANGED vars

SerialSpec == SerialInit /\ [][SerialNext]_<<part, vars, ownerVars>> /\ SessionFairness
=============================================================================
