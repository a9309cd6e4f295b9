------------------------------ MODULE MCSocketIo ------------------------------
(***************************************************************************)
(* The socket_io_server crate: the server (SocketIoServer) or what an      *)
(* application does with its namespaces (Namespaces), one of them in a     *)
(* behaviour.  The second has two namespaces with a socket each; the first *)
(* socket also joins and leaves the room r, and is removed, while either a *)
(* subscriber listens or an emit runs: no step of the one reads or writes  *)
(* what the other has.                                                     *)
(***************************************************************************)
EXTENDS MCSocketIoServer, Namespaces

CONSTANTS n1, n2, a, b, r

VARIABLE part

mcVars == <<part, vars, nspVars>>

Call(op, n, s, room) == [op |-> op, nsp |-> n, socket |-> s, room |-> room]

MCCalls ==
    {Call("add", n1, a, a), Call("add", n1, a, r), Call("leave", n1, a, r),
     Call("remove", n1, a, a), Call("add", n2, b, b)}

\* The part that does not run has one initial state.
MCInit ==
    /\ part \in {"server", "subscriber", "emit"}
    /\ Init /\ (part # "server" => event = CHOOSE w \in Workloads : TRUE)
    /\ NspInit /\ (part # "emit" => \A e \in Emitters : emit[e].target = Dynamic)

\* A server that has nothing more to do is Quiet; an application may stop at
\* any time.
MCNext ==
    \/ part = "server" /\ Next /\ UNCHANGED <<part, nspVars>>
    \/ part = "subscriber" /\ NspNext /\ UNCHANGED <<part, vars, emit>>
    \/ part = "emit" /\ NspNext /\ UNCHANGED <<part, vars, feed>>
    \/ part # "server" /\ UNCHANGED mcVars

MCSpec == MCInit /\ [][MCNext]_mcVars
===============================================================================
