---------------------------- MODULE DashboardHub ----------------------------
(***************************************************************************)
(* The hub that pushes dashboard statistics to WebSocket clients: one hub  *)
(* goroutine (Run) that owns the set of clients, one handler goroutine per *)
(* connection (DashboardWS), two bounded channels between them, and the    *)
(* one-time tickets that open connections.                                 *)
(*                                                                         *)
(* Source: src/backend/internal/api/websocket.go.                          *)
(***************************************************************************)
EXTENDS Naturals, Sequences, FiniteSets

CONSTANTS
  Conn,        \* connections; a connection is opened once and never reused
  Ticket,      \* tickets that may be issued
  Cap,         \* capacity of the channels register and unregister
  MaxClients,  \* bound on the connections in flight at a time
  Stalls,      \* may a peer stop reading without closing?
  None         \* "no connection"

ASSUME HubAssumption ==
  /\ Cap \in Nat \ {0}
  /\ MaxClients \in Nat
  /\ Stalls \in BOOLEAN
  /\ None \notin Conn

VARIABLES
  ticket,      \* ticket[t]: none, fresh or expired in wsTickets, or used up
  by,          \* by[c]: the ticket that opened connection c (history)
  sock,        \* sock[c]: the socket: unopened, open, stalled, broken, closed
  at,          \* at[c]: the step of the handler goroutine of c
  register,    \* channel of connections to add
  unregister,  \* channel of connections to remove
  clients,     \* the clients the hub broadcasts to
  hub,         \* what the hub goroutine does: select, welcome, broadcast,
               \*   evict, or stopped
  todo,        \* clients still to be written in this broadcast; in welcome,
               \*   the connection that gets its initial payload
  failed,      \* clients whose write failed in this broadcast
  done,        \* channel done is closed
  late         \* did the last tick find departures that still wait? (history)

tickets == <<ticket, by>>
conns   == <<sock, at>>
chans   == <<register, unregister>>
loop    == <<clients, hub, todo, failed, late>>
vars    == <<ticket, by, sock, at, register, unregister, clients, hub, todo,
             failed, done, late>>

TypeOK ==
  /\ ticket \in [Ticket -> {"none", "fresh", "expired", "used"}]
  /\ by \in [Conn -> Ticket \cup {None}]
  /\ sock \in [Conn -> {"unopened", "open", "stalled", "broken", "closed"}]
  /\ at \in [Conn -> {"none", "register", "read", "unregister", "close", "gone"}]
  /\ register \in Seq(Conn) /\ Len(register) <= Cap
  /\ unregister \in Seq(Conn) /\ Len(unregister) <= Cap
  /\ clients \subseteq Conn
  /\ hub \in {"select", "welcome", "broadcast", "evict", "stopped"}
  /\ todo \subseteq Conn
  /\ failed \subseteq Conn
  /\ done \in BOOLEAN /\ late \in BOOLEAN

-----------------------------------------------------------------------------
(* Tickets.  Each operation holds wsTicketsMu throughout.                  *)

\* POST /api/ws/ticket.
IssueWSTicket(t) ==
  /\ ticket[t] = "none"
  /\ ticket' = [ticket EXCEPT ![t] = "fresh"]
  /\ UNCHANGED <<by, conns, chans, loop, done>>

\* 30 seconds have passed since it was issued.
TicketExpires(t) ==
  /\ ticket[t] = "fresh"
  /\ ticket' = [ticket EXCEPT ![t] = "expired"]
  /\ UNCHANGED <<by, conns, chans, loop, done>>

\* The connections that are somewhere in the machinery.
InFlight ==
  {c \in Conn : at[c] \notin {"none", "gone"}} \cup clients \cup todo \cup failed
  \cup {register[k] : k \in DOMAIN register}
  \cup {unregister[k] : k \in DOMAIN unregister}

\* Mutant: a ticket is checked and not removed.
DashboardWSKeepsTicket(c, t) ==
  /\ at[c] = "none" /\ sock[c] = "unopened"
  /\ Cardinality(InFlight) < MaxClients
  /\ ticket[t] = "fresh"
  /\ by' = [by EXCEPT ![c] = t]
  /\ sock' = [sock EXCEPT ![c] = "open"]
  /\ at' = [at EXCEPT ![c] = "register"]
  /\ UNCHANGED <<ticket, chans, loop, done>>

\* GET /api/ws/dashboard: the ticket is removed in any case; a fresh one opens
\* the connection unless the upgrade fails.
DashboardWS(c, t) ==
  /\ at[c] = "none" /\ sock[c] = "unopened"
  /\ Cardinality(InFlight) < MaxClients
  /\ ticket[t] \in {"fresh", "expired"}
  /\ ticket' = [ticket EXCEPT ![t] = "used"]
  /\ \/ /\ ticket[t] = "fresh"
        /\ by' = [by EXCEPT ![c] = t]
        /\ sock' = [sock EXCEPT ![c] = "open"]
        /\ at' = [at EXCEPT ![c] = "register"]
     \/ UNCHANGED <<by, conns>>
  /\ UNCHANGED <<chans, loop, done>>

-----------------------------------------------------------------------------
(* The peer and the handler goroutine of a connection.                     *)

PeerCloses(c) ==
  /\ sock[c] \in {"open", "stalled"}
  /\ sock' = [sock EXCEPT ![c] = "broken"]
  /\ UNCHANGED <<tickets, at, chans, loop, done>>

\* A peer that does not read: once the buffers are full a write to it blocks,
\* for there is no write deadline.
PeerStalls(c) ==
  /\ Stalls
  /\ \/ sock[c] = "open" /\ sock' = [sock EXCEPT ![c] = "stalled"]
     \/ sock[c] = "stalled" /\ sock' = [sock EXCEPT ![c] = "open"]
  /\ UNCHANGED <<tickets, at, chans, loop, done>>

\* h.register <- conn
SendRegister(c) ==
  /\ at[c] = "register"
  /\ Len(register) < Cap
  /\ register' = Append(register, c)
  /\ at' = [at EXCEPT ![c] = "read"]
  /\ UNCHANGED <<tickets, sock, unregister, loop, done>>

\* Mutant: the read loop ends at the first message of the client.
ReadMessageEnds(c) ==
  /\ at[c] = "read"
  /\ at' = [at EXCEPT ![c] = "unregister"]
  /\ UNCHANGED <<tickets, sock, chans, loop, done>>

\* ReadMessage fails: the peer is gone, or the hub closed the socket.
\* Messages of the client are discarded.
ReadMessage(c) ==
  /\ at[c] = "read"
  /\ sock[c] \in {"broken", "closed"}
  /\ at' = [at EXCEPT ![c] = "unregister"]
  /\ UNCHANGED <<tickets, sock, chans, loop, done>>

\* Mutant: the read loop and the deferred call both send.
SendUnregisterTwice(c) ==
  /\ at[c] = "unregister"
  /\ Len(unregister) + 1 < Cap
  /\ unregister' = unregister \o <<c, c>>
  /\ at' = [at EXCEPT ![c] = "close"]
  /\ UNCHANGED <<tickets, sock, register, loop, done>>

\* Deferred: h.unregister <- conn
SendUnregister(c) ==
  /\ at[c] = "unregister"
  /\ Len(unregister) < Cap
  /\ unregister' = Append(unregister, c)
  /\ at' = [at EXCEPT ![c] = "close"]
  /\ UNCHANGED <<tickets, sock, register, loop, done>>

\* ... and conn.Close().
CloseConn(c) ==
  /\ at[c] = "close"
  /\ sock' = [sock EXCEPT ![c] = "closed"]
  /\ at' = [at EXCEPT ![c] = "gone"]
  /\ UNCHANGED <<tickets, chans, loop, done>>

-----------------------------------------------------------------------------
(* Run: one case of the select at a time.                                  *)

\* Mutant: a client is added only if there is a payload to welcome it with.
HubRegisterForgets ==
  /\ hub = "select" /\ register # <<>>
  /\ register' = Tail(register)
  /\ \/ /\ clients' = clients \cup {Head(register)}
        /\ hub' = "welcome" /\ todo' = {Head(register)}
     \/ UNCHANGED <<clients, hub, todo>>
  /\ UNCHANGED <<tickets, conns, unregister, failed, done, late>>

\* A new client is added before anything is written to it.
HubRegister ==
  /\ hub = "select" /\ register # <<>>
  /\ clients' = clients \cup {Head(register)}
  /\ register' = Tail(register)
  /\ \/ hub' = "welcome" /\ todo' = {Head(register)}
     \/ UNCHANGED <<hub, todo>>                    \* collectStats failed
  /\ UNCHANGED <<tickets, conns, unregister, failed, done, late>>

\* The initial payload; an error is ignored.
HubWelcome ==
  /\ hub = "welcome"
  /\ \A c \in todo : sock[c] # "stalled"
  /\ hub' = "select" /\ todo' = {}
  /\ UNCHANGED <<tickets, conns, chans, clients, failed, done, late>>

\* Mutant: the entry is taken from the channel and the client kept.
HubUnregisterKeeps ==
  /\ hub = "select" /\ unregister # <<>>
  /\ unregister' = Tail(unregister)
  /\ UNCHANGED <<tickets, conns, register, loop, done>>

HubUnregister ==
  /\ hub = "select" /\ unregister # <<>>
  /\ clients' = clients \ {Head(unregister)}
  /\ unregister' = Tail(unregister)
  /\ UNCHANGED <<tickets, conns, register, hub, todo, failed, done, late>>

\* <-ticker.C: write to every client there is now.
HubTick ==
  /\ hub = "select"
  /\ clients # {}
  /\ hub' = "broadcast" /\ todo' = clients /\ failed' = {}
  /\ late' = (unregister # <<>>)
  /\ UNCHANGED <<tickets, conns, chans, clients, done>>

\* WriteMessage to one client.  It waits for a stalled peer; after the peer is
\* gone the kernel may still take a message.
HubWrite(c) ==
  /\ hub = "broadcast" /\ c \in todo
  /\ todo' = todo \ {c}
  /\ \/ sock[c] \in {"open", "broken"} /\ UNCHANGED failed
     \/ sock[c] \in {"broken", "closed"} /\ failed' = failed \cup {c}
  /\ UNCHANGED <<tickets, conns, chans, clients, hub, done, late>>

HubWritten ==
  /\ hub = "broadcast" /\ todo = {}
  /\ hub' = IF failed = {} THEN "select" ELSE "evict"
  /\ UNCHANGED <<tickets, conns, chans, clients, todo, failed, done, late>>

\* h.unregister <- conn; conn.Close(): the hub sends on the channel only it
\* receives from.
HubEvict(c) ==
  /\ hub = "evict" /\ c \in failed
  /\ Len(unregister) < Cap
  /\ unregister' = Append(unregister, c)
  /\ sock' = [sock EXCEPT ![c] = "closed"]
  /\ failed' = failed \ {c}
  /\ hub' = IF failed' = {} THEN "select" ELSE "evict"
  /\ UNCHANGED <<tickets, at, register, clients, todo, done, late>>

\* <-ticketCleanup.C
PurgeExpiredTickets ==
  /\ hub = "select"
  /\ \E t \in Ticket : ticket[t] = "expired"
  /\ ticket' = [t \in Ticket |-> IF ticket[t] = "expired" THEN "used" ELSE ticket[t]]
  /\ UNCHANGED <<by, conns, chans, loop, done>>

\* Stop, called once when the panel shuts down, and the hub that sees it.
Stop ==
  /\ ~done
  /\ done' = TRUE
  /\ UNCHANGED <<tickets, conns, chans, loop>>

HubStops ==
  /\ hub = "select" /\ done
  /\ hub' = "stopped"
  /\ UNCHANGED <<tickets, conns, chans, clients, todo, failed, done, late>>

-----------------------------------------------------------------------------

Init ==
  /\ ticket = [t \in Ticket |-> "none"]
  /\ by = [c \in Conn |-> None]
  /\ sock = [c \in Conn |-> "unopened"]
  /\ at = [c \in Conn |-> "none"]
  /\ register = <<>> /\ unregister = <<>>
  /\ clients = {} /\ hub = "select" /\ todo = {} /\ failed = {}
  /\ done = FALSE /\ late = FALSE

Handler(c) == SendRegister(c) \/ ReadMessage(c) \/ SendUnregister(c) \/ CloseConn(c)

Hub ==
  \/ HubRegister \/ HubWelcome \/ HubUnregister \/ HubTick \/ HubWritten
  \/ \E c \in Conn : HubWrite(c) \/ HubEvict(c)

Next ==
  \/ \E t \in Ticket : IssueWSTicket(t) \/ TicketExpires(t)
  \/ \E c \in Conn : \/ \E t \in Ticket : DashboardWS(c, t)
                     \/ PeerCloses(c) \/ PeerStalls(c) \/ Handler(c)
  \/ Hub \/ PurgeExpiredTickets \/ Stop \/ HubStops

Spec == Init /\ [][Next]_vars

\* Goroutines that can run do.  The cases of a Go select that are ready are
\* chosen at random, so none of them is passed over forever; and a write to a
\* peer that now and then reads goes through (strong fairness).
FairSpec ==
  /\ Spec
  /\ \A c \in Conn : WF_vars(Handler(c))
  /\ SF_vars(HubRegister) /\ SF_vars(HubUnregister) /\ SF_vars(HubTick)
  /\ SF_vars(HubWelcome \/ HubWritten \/ \E c \in Conn : HubWrite(c) \/ HubEvict(c))

-----------------------------------------------------------------------------
(* Properties.                                                             *)

\* Only a connection whose peer is gone, or that was closed, ever leaves the
\* clients: no live dashboard silently stops being updated.
OnlyDeadLeave ==
  [][\A c \in clients \ clients' : sock[c] \in {"broken", "closed"}]_vars

\* A ticket opens at most one connection.
OneConnPerTicket ==
  \A c, d \in Conn : by[c] # None /\ by[c] = by[d] => c = d

Stalled == \E c \in Conn : sock[c] = "stalled"

\* The hub waits for room in the channel that only it empties: for ever.
Jammed == hub = "evict" /\ Len(unregister) = Cap

\* A connection that ended does not stay among the clients, even when the hub
\* took its unregister before its register; only a peer that does not read, or
\* the hub itself, holds the hub up.
DeadLeave ==
  \A c \in Conn :
    <>[](at[c] = "gone" /\ hub # "stopped" /\ ~Stalled /\ ~Jammed => c \notin clients)

\* A connection that stays open becomes a client, unless a peer that does not
\* read, or the hub itself, holds the hub up.
LiveServed ==
  \A c \in Conn : at[c] = "read" /\ sock[c] = "open"
                    ~> \/ c \in clients \/ sock[c] # "open" \/ hub = "stopped"
                       \/ Stalled \/ Jammed

\* What it takes for the hub to wait for itself: more connections in flight than
\* half the channel has room for, since each is put there by its handler and by
\* the hub, or a broadcast that began with departures still waiting, for the hub
\* puts a client in once more in every broadcast before it is removed.
JamsOnlyCrowded == Jammed => late \/ 2 * Cardinality(InFlight) > Cap
=============================================================================
