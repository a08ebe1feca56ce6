------------------------------- MODULE Serve -------------------------------
(***************************************************************************)
(* serve: the HTTP proxy that clients use.  A client's request either is    *)
(* forwarded or, with CONNECT, opens a tunnel in which the server speaks    *)
(* TLS itself and forwards every request it reads, until one of the two     *)
(* ends closes it.  The transport that forwards is left to another module:  *)
(* a request is handed to it at "attempt" and comes back at "answer".       *)
(***************************************************************************)
EXTENDS Integers, FiniteSets

CONSTANTS
  Conns,      \* connections of clients
  MaxRequests \* bound of the requests of all clients

ASSUME ServeAssumption == IsFiniteSet(Conns) /\ MaxRequests \in Nat

VARIABLES
  conn,     \* connection -> its state
  sessions, \* MitmProxyServer.counter
  serial    \* pool.counter: numbers the requests that are forwarded

serveVars == <<conn, sessions, serial>>

PCs == {"idle", "accepted", "connect", "handshake", "read", "attempt", "request", "record",
        "redirected", "answer", "abandoned", "closed"}

\* What the transport returned: a response, or the error of a request whose
\* client is gone.
Statuses == {"none", "ok", "failed", "exhausted", "error"}

Fresh ==
  [pc |-> "idle", tunnel |-> FALSE, gone |-> FALSE, serial |-> 0, attempt |-> 0, hop |-> 0,
   status |-> "none"]

ServeInit == conn = [c \in Conns |-> Fresh] /\ sessions = 0 /\ serial = 0

At(c, pc) == conn[c].pc = pc
Go(c, pc) == conn' = [conn EXCEPT ![c].pc = pc]

\* The bounds leave room for what was accepted.
Accepted(T) == Cardinality({c \in Conns : At(c, "accepted") /\ conn[c].tunnel \in T})
SessionsBound == sessions + Accepted(BOOLEAN) < MaxRequests
SerialBound == serial + Accepted({FALSE}) < MaxRequests

\* A client sends a request, or CONNECT.
send(c, tunnel) ==
  /\ SessionsBound /\ (tunnel \/ SerialBound)
  /\ conn[c].pc \in {"idle", "closed"}
  /\ conn' = [conn EXCEPT ![c] = [Fresh EXCEPT !.pc = "accepted", !.tunnel = tunnel]]
  /\ UNCHANGED <<sessions, serial>>

\* The client goes away.
disconnect(c) ==
  /\ conn[c].pc \notin {"idle", "closed"} /\ ~conn[c].gone
  /\ conn' = [conn EXCEPT ![c].gone = TRUE]
  /\ UNCHANGED <<sessions, serial>>

\* transport.RoundTrip begins: the pool gives the request a number.
forward(c) ==
  /\ serial' = serial + 1
  /\ conn' = [conn EXCEPT ![c].pc = "attempt", ![c].serial = serial + 1, ![c].attempt = 1,
                          ![c].hop = 0, ![c].status = "none"]

\* Mutant of counterSends: it sends one number and ends.
counterSendsOnce == sessions = 0 /\ sessions' = 1

\* MitmProxyServer.counter sends the next number.
counterSends == sessions' = sessions + 1

\* MitmProxyServer.ServeHTTP waits for the number of its session.
ServeHTTP(c) ==
  /\ At(c, "accepted")
  /\ counterSends
  /\ \/ conn[c].tunnel /\ Go(c, "connect") /\ UNCHANGED serial
     \/ ~conn[c].tunnel /\ forward(c)

\* handleConnect: 200, and the connection is taken over; if it cannot be, the
\* server goes on with the connection, with or without having sent the 200.
handleConnect(c) ==
  /\ At(c, "connect")
  /\ \E pc \in {"handshake", "idle"} : Go(c, pc)
  /\ UNCHANGED <<sessions, serial>>

\* handleHandshake signs a certificate and shakes hands.
handleHandshake(c) ==
  /\ At(c, "handshake")
  /\ \E pc \in {"read", "closed"} : Go(c, pc)
  /\ UNCHANGED <<sessions, serial>>

\* handleInnerHttp reads a request from the tunnel.
readRequest(c) ==
  /\ SerialBound /\ At(c, "read") /\ ~conn[c].gone
  /\ forward(c)
  /\ UNCHANGED sessions

\* It reads the end of the tunnel, or no request (472).
readError(c) ==
  /\ At(c, "read")
  /\ Go(c, "closed")
  /\ UNCHANGED <<sessions, serial>>

\* Where a connection is after the response of the transport was written: 470
\* stands for an error outside of a tunnel, in it a failed write ends the loop.
answered(c) ==
  IF conn[c].gone THEN "closed" ELSE IF conn[c].tunnel THEN "read" ELSE "idle"

writeResponse(c) ==
  /\ At(c, "answer")
  /\ Go(c, answered(c))
  /\ UNCHANGED <<sessions, serial>>

\* The steps that the server takes without its client.
serving(c) ==
  \/ ServeHTTP(c) \/ handleConnect(c) \/ handleHandshake(c) \/ writeResponse(c)
  \/ conn[c].gone /\ readError(c)
----------------------------------------------------------------------------
ServeTypeOK ==
  /\ conn \in [Conns -> [pc : PCs, tunnel : BOOLEAN, gone : BOOLEAN, serial : 0..MaxRequests,
                         attempt : Nat, hop : Nat, status : Statuses]]
  /\ sessions \in 0..MaxRequests
  /\ serial \in 0..MaxRequests
=============================================================================
