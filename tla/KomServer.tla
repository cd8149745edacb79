------------------------------ MODULE KomServer ------------------------------
(***************************************************************************)
(* GetServer and NewKomClient: goroutines that each connect one client to  *)
(* a LysKOM server.  A client gets a KomServer, which is to hold what the  *)
(* clients of one server share, with a connection of its own, and then a   *)
(* second connection.                                                      *)
(*                                                                         *)
(* serverLock is held over the lookup in serverMap and the first dial.     *)
(***************************************************************************)
EXTENDS Naturals, FiniteSets

CONSTANTS
  Clients,  \* the goroutines that call NewKomClient, and the client each of them gets
  Hosts,    \* the names of the servers they connect to
  Nobody    \* no client: nobody holds the lock, a nil *KomServer

ASSUME KomServerAssumption == Nobody \notin Clients

VARIABLES
  serverLock,  \* the goroutine that holds the lock, or Nobody
  serverMap,   \* the KomServer stored under each host's name
  at,          \* how far each goroutine is in NewKomClient
  host,        \* the name it connects to
  server,      \* the KomServer of its client, known by the client it was made for
  sockets      \* the connections that are open: whose, for what, and to which host

serverVars == <<serverLock, serverMap, at, host, server, sockets>>

Places == {"new", "locking", "dialing server", "dialing", "connected", "failed"}
Socket == [client : Clients, use : {"server", "client"}, host : Hosts]

\* The type invariant.
ServerTypeOK ==
  /\ serverLock \in Clients \cup {Nobody}
  /\ serverMap \in [Hosts -> Clients \cup {Nobody}]
  /\ at \in [Clients -> Places]
  /\ host \in [Clients -> Hosts]
  /\ server \in [Clients -> Clients \cup {Nobody}]
  /\ sockets \subseteq Socket

\* serverMap is nil: a lookup finds nothing.
ServerInit ==
  /\ serverLock = Nobody
  /\ serverMap = [h \in Hosts |-> Nobody]
  /\ at = [c \in Clients |-> "new"]
  /\ host \in [Clients -> Hosts]
  /\ server = [c \in Clients |-> Nobody]
  /\ sockets = {}

Goes(c, from, to) == at[c] = from /\ at' = [at EXCEPT ![c] = to]

\* A call of NewKomClient reaches the Lock in GetServer.
CallGetServer(c) ==
  /\ Goes(c, "new", "locking")
  /\ UNCHANGED <<serverLock, serverMap, host, server, sockets>>

\* The lock is taken.  A KomServer that is in serverMap is returned, and the lock with it;
\* if there is none (and no code stores one), a new one is made and is to be connected.
LookUpServer(c) ==
  LET found == serverMap[host[c]]
  IN  /\ serverLock = Nobody
      /\ serverLock' = IF found = Nobody THEN c ELSE Nobody
      /\ Goes(c, "locking", IF found = Nobody THEN "dialing server" ELSE "dialing")
      /\ server' = [server EXCEPT ![c] = found]
      /\ UNCHANGED <<serverMap, host, sockets>>

\* net.Dial in internalNewClient, for a connection that is used for one purpose.
Dial(c, use) == sockets' = sockets \cup {[client |-> c, use |-> use, host |-> host[c]]}

\* The KomServer's own client is connected, and GetServer returns: the deferred Unlock.
DialServer(c) ==
  /\ Goes(c, "dialing server", "dialing")
  /\ Dial(c, "server")
  /\ server' = [server EXCEPT ![c] = c]
  /\ serverLock' = Nobody
  /\ UNCHANGED <<serverMap, host>>

\* Mutant: NewKomClient does not look at the error of GetServer.
DialServerFailsUnchecked(c) ==
  /\ Goes(c, "dialing server", "dialing")
  /\ serverLock' = Nobody
  /\ UNCHANGED <<serverMap, host, server, sockets>>

\* Mutant: an Unlock before the last return only, in place of the deferred one.
DialServerFailsLocked(c) ==
  /\ Goes(c, "dialing server", "failed")
  /\ UNCHANGED <<serverLock, serverMap, host, server, sockets>>

\* The dial fails: GetServer returns a nil server, and NewKomClient its error.
DialServerFails(c) ==
  /\ Goes(c, "dialing server", "failed")
  /\ serverLock' = Nobody
  /\ UNCHANGED <<serverMap, host, server, sockets>>

\* The client's own connection.
DialClient(c) ==
  /\ Goes(c, "dialing", "connected")
  /\ Dial(c, "client")
  /\ UNCHANGED <<serverLock, serverMap, host, server>>

\* It fails: the client is dropped and the connection of its KomServer stays open.
DialClientFails(c) ==
  /\ Goes(c, "dialing", "failed")
  /\ UNCHANGED <<serverLock, serverMap, host, server, sockets>>

ServerStepOf(c) ==
  \/ LookUpServer(c)
  \/ DialServer(c) \/ DialServerFails(c)
  \/ DialClient(c) \/ DialClientFails(c)

ServerNext == \E c \in Clients : CallGetServer(c) \/ ServerStepOf(c)

ServerSpec == ServerInit /\ [][ServerNext]_serverVars

-----------------------------------------------------------------------------
(***************************************************************************)
(* Properties.                                                             *)
(***************************************************************************)
HasSocket(c, use, h) == [client |-> c, use |-> use, host |-> h] \in sockets

\* A client that NewKomClient returned without an error can be used: it has a connection,
\* and its KomServer is no nil pointer and has a connection to the same host.
UsableClient ==
  \A c \in Clients : at[c] = "connected" =>
    /\ HasSocket(c, "client", host[c])
    /\ server[c] # Nobody
    /\ HasSocket(server[c], "server", host[c])

\* serverLock is held by the goroutine that dials for a KomServer, and by nobody once
\* GetServer has returned, whichever way it did (the deferred Unlock): a goroutine that
\* waits for the lock waits for a dial and never for a goroutine that is done with it.
LockHeld == \A c \in Clients : serverLock = c <=> at[c] = "dialing server"

\* Clients that are connected to one server share its KomServer.
SharedServer ==
  \A c, d \in Clients :
    at[c] = "connected" /\ at[d] = "connected" /\ host[c] = host[d] => server[c] = server[d]
=============================================================================
