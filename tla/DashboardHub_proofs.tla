------------------------ MODULE DashboardHub_proofs ------------------------
(***************************************************************************)
(* Proofs about DashboardHub for any connections and tickets, any capacity *)
(* of the channels, with and without peers that stall: a ticket opens one  *)
(* connection at most, no connection that lives leaves the clients, and    *)
(* the hub waits for itself only when more connections are in flight than  *)
(* half its channel has room for, or when a broadcast began before the     *)
(* departures of an earlier one were taken.                                *)
(*                                                                         *)
(* None is inductive.  That a ticket opens one connection rests on it      *)
(* being used up when it does (UsedUp); that only the dead leave rests on  *)
(* whoever waits to be removed being dead already, whether its handler or  *)
(* the hub put it in the queue (DeadWait); when the hub can wait for       *)
(* itself rests on how often a connection is in that queue (EntriesInv).   *)
(***************************************************************************)
EXTENDS DashboardHub, FiniteSetTheorems, TLAPS

Dead(c) == sock[c] \in {"broken", "closed"}

\* The tickets that opened a connection are used up, and tell it.
UsedUp ==
  /\ \A c \in Conn : by[c] # None => ticket[by[c]] = "used"
  /\ OneConnPerTicket

\* Who is to be removed, and who is past its read loop, is dead.
DeadWait ==
  /\ \A k \in DOMAIN unregister : Dead(unregister[k])
  /\ \A c \in failed : Dead(c)
  /\ \A c \in Conn : at[c] \in {"unregister", "close", "gone"} => Dead(c)

IInv == TypeOK /\ UsedUp /\ DeadWait

-----------------------------------------------------------------------------
(* What the channels hold.                                                 *)

LEMMA AppendHolds ==
  ASSUME NEW S, NEW s \in Seq(S), NEW e \in S
  PROVE  /\ Append(s, e) \in Seq(S)
         /\ Len(Append(s, e)) = Len(s) + 1
         /\ \A k \in DOMAIN Append(s, e) : Append(s, e)[k] = e \/ \E j \in DOMAIN s : Append(s, e)[k] = s[j]
<1>1. \A k \in 1..Len(s) : Append(s, e)[k] = s[k]
  OBVIOUS
<1>2. Append(s, e)[Len(s) + 1] = e
  OBVIOUS
<1>3. DOMAIN Append(s, e) = 1..(Len(s) + 1) /\ DOMAIN s = 1..Len(s)
  OBVIOUS
<1>4. \A k \in 1..(Len(s) + 1) : k \in 1..Len(s) \/ k = Len(s) + 1
  BY Len(s) \in Nat
<1> QED
  BY <1>1, <1>2, <1>3, <1>4

LEMMA TailHolds ==
  ASSUME NEW S, NEW s \in Seq(S), s # <<>>
  PROVE  /\ Head(s) \in S /\ Head(s) = s[1] /\ 1 \in DOMAIN s
         /\ Tail(s) \in Seq(S)
         /\ Len(Tail(s)) = Len(s) - 1
         /\ \A k \in DOMAIN Tail(s) : \E j \in DOMAIN s : Tail(s)[k] = s[j]
<1>1. Len(s) \in Nat /\ Len(s) >= 1 /\ DOMAIN s = 1..Len(s)
  OBVIOUS
<1>2. Tail(s) \in Seq(S) /\ Len(Tail(s)) = Len(s) - 1
  OBVIOUS
<1>3. \A k \in 1..(Len(s) - 1) : Tail(s)[k] = s[k + 1] /\ k + 1 \in 1..Len(s)
  BY <1>1
<1>4. DOMAIN Tail(s) = 1..(Len(s) - 1)
  BY <1>2
<1>5. Head(s) \in S /\ Head(s) = s[1] /\ 1 \in DOMAIN s
  BY <1>1
<1> QED
  BY <1>2, <1>3, <1>4, <1>5

-----------------------------------------------------------------------------
(* Types.                                                                  *)

LEMMA InitType == Init => TypeOK
<1>1. <<>> \in Seq(Conn) /\ Len(<<>>) <= Cap
  BY HubAssumption
<1> QED
  BY <1>1 DEF Init, TypeOK

LEMMA HandlerType ==
  ASSUME TypeOK, NEW c \in Conn, Handler(c)
  PROVE  TypeOK'
<1>1. CASE SendRegister(c)
  <2>1. register' \in Seq(Conn) /\ Len(register') <= Cap
    BY <1>1, HubAssumption, AppendHolds DEF TypeOK, SendRegister
  <2> QED
    BY <1>1, <2>1 DEF TypeOK, SendRegister, tickets, loop
<1>2. CASE ReadMessage(c)
  BY <1>2 DEF TypeOK, ReadMessage, tickets, chans, loop
<1>3. CASE SendUnregister(c)
  <2>1. unregister' \in Seq(Conn) /\ Len(unregister') <= Cap
    BY <1>3, HubAssumption, AppendHolds DEF TypeOK, SendUnregister
  <2> QED
    BY <1>3, <2>1 DEF TypeOK, SendUnregister, tickets, loop
<1>4. CASE CloseConn(c)
  BY <1>4 DEF TypeOK, CloseConn, tickets, chans, loop
<1> QED
  BY <1>1, <1>2, <1>3, <1>4 DEF Handler

LEMMA HubType ==
  ASSUME TypeOK, Hub
  PROVE  TypeOK'
<1>1. CASE HubRegister
  <2>1. Head(register) \in Conn /\ register' \in Seq(Conn) /\ Len(register') <= Cap
    BY <1>1, HubAssumption, TailHolds DEF TypeOK, HubRegister
  <2> QED
    BY <1>1, <2>1 DEF TypeOK, HubRegister, tickets, conns
<1>2. CASE HubWelcome
  BY <1>2 DEF TypeOK, HubWelcome, tickets, conns, chans
<1>3. CASE HubUnregister
  <2>1. unregister' \in Seq(Conn) /\ Len(unregister') <= Cap
    BY <1>3, HubAssumption, TailHolds DEF TypeOK, HubUnregister
  <2> QED
    BY <1>3, <2>1 DEF TypeOK, HubUnregister, tickets, conns
<1>4. CASE HubTick
  BY <1>4 DEF TypeOK, HubTick, tickets, conns, chans
<1>5. CASE HubWritten
  BY <1>5 DEF TypeOK, HubWritten, tickets, conns, chans
<1>6. ASSUME NEW c \in Conn, HubWrite(c) PROVE TypeOK'
  BY <1>6 DEF TypeOK, HubWrite, tickets, conns, chans
<1>7. ASSUME NEW c \in Conn, HubEvict(c) PROVE TypeOK'
  <2>1. unregister' \in Seq(Conn) /\ Len(unregister') <= Cap
    BY <1>7, HubAssumption, AppendHolds DEF TypeOK, HubEvict
  <2> QED
    BY <1>7, <2>1 DEF TypeOK, HubEvict, tickets
<1> QED
  BY <1>1, <1>2, <1>3, <1>4, <1>5, <1>6, <1>7 DEF Hub

LEMMA NextType == TypeOK /\ [Next]_vars => TypeOK'
<1> SUFFICES ASSUME TypeOK, [Next]_vars PROVE TypeOK'
  OBVIOUS
<1>1. ASSUME NEW t \in Ticket, IssueWSTicket(t) \/ TicketExpires(t) PROVE TypeOK'
  BY <1>1 DEF TypeOK, IssueWSTicket, TicketExpires, conns, chans, loop
<1>2. ASSUME NEW c \in Conn, NEW t \in Ticket, DashboardWS(c, t) PROVE TypeOK'
  <2>1. /\ ticket' \in [Ticket -> {"none", "fresh", "expired", "used"}]
        /\ UNCHANGED <<chans, loop, done>>
    BY <1>2 DEF TypeOK, DashboardWS
  <2>2. /\ by' \in [Conn -> Ticket \cup {None}]
        /\ sock' \in [Conn -> {"unopened", "open", "stalled", "broken", "closed"}]
        /\ at' \in [Conn -> {"none", "register", "read", "unregister", "close", "gone"}]
    <3>1. CASE UNCHANGED <<by, conns>>
      BY <3>1 DEF TypeOK, conns
    <3>2. CASE ~UNCHANGED <<by, conns>>
      <4>1. /\ by' = [by EXCEPT ![c] = t]
            /\ sock' = [sock EXCEPT ![c] = "open"]
            /\ at' = [at EXCEPT ![c] = "register"]
        BY <1>2, <3>2 DEF DashboardWS
      <4>2. t \in Ticket \cup {None}
        OBVIOUS
      <4> QED
        BY <4>1, <4>2 DEF TypeOK
    <3> QED
      BY <3>1, <3>2
  <2> QED
    BY <2>1, <2>2 DEF TypeOK, chans, loop
<1>3. ASSUME NEW c \in Conn, PeerCloses(c) \/ PeerStalls(c) PROVE TypeOK'
  BY <1>3 DEF TypeOK, PeerCloses, PeerStalls, tickets, chans, loop
<1>4. CASE PurgeExpiredTickets
  BY <1>4 DEF TypeOK, PurgeExpiredTickets, conns, chans, loop
<1>5. CASE Stop \/ HubStops
  BY <1>5 DEF TypeOK, Stop, HubStops, tickets, conns, chans, loop
<1>6. CASE UNCHANGED vars
  BY <1>6 DEF TypeOK, vars
<1> QED
  BY <1>1, <1>2, <1>3, <1>4, <1>5, <1>6, HandlerType, HubType DEF Next

-----------------------------------------------------------------------------
(* Tickets.                                                                *)

LEMMA InitUsedUp == Init => UsedUp
BY DEF Init, UsedUp, OneConnPerTicket

\* Only the three operations on tickets touch them.
LEMMA NextUsedUp == TypeOK /\ UsedUp /\ [Next]_vars => UsedUp'
<1> SUFFICES ASSUME TypeOK, UsedUp, [Next]_vars PROVE UsedUp'
  OBVIOUS
<1>1. ASSUME NEW t \in Ticket, IssueWSTicket(t) \/ TicketExpires(t) PROVE UsedUp'
  BY <1>1 DEF TypeOK, UsedUp, OneConnPerTicket, IssueWSTicket, TicketExpires
<1>2. ASSUME NEW c \in Conn, NEW t \in Ticket, DashboardWS(c, t) PROVE UsedUp'
  <2>1. CASE UNCHANGED by
    BY <1>2, <2>1 DEF TypeOK, UsedUp, OneConnPerTicket, DashboardWS
  <2>2. CASE ticket[t] = "fresh" /\ by' = [by EXCEPT ![c] = t]
    <3>1. \A d \in Conn : by[d] # None => by[d] # t
      BY <2>2 DEF UsedUp
    <3>2. ticket' = [ticket EXCEPT ![t] = "used"]
      BY <1>2 DEF DashboardWS
    <3>3. \A d \in Conn : by'[d] = IF d = c THEN t ELSE by[d]
      BY <2>2 DEF TypeOK
    <3>4. \A d \in Conn : by'[d] # None => ticket'[by'[d]] = "used"
      BY <3>2, <3>3 DEF TypeOK, UsedUp
    <3>5. OneConnPerTicket'
      BY <3>1, <3>3 DEF UsedUp, OneConnPerTicket
    <3> QED
      BY <3>4, <3>5 DEF UsedUp
  <2> QED
    BY <1>2, <2>1, <2>2 DEF DashboardWS
<1>3. CASE PurgeExpiredTickets
  BY <1>3 DEF TypeOK, UsedUp, OneConnPerTicket, PurgeExpiredTickets
<1>4. CASE UNCHANGED tickets
  BY <1>4 DEF UsedUp, OneConnPerTicket, tickets
<1>5. ASSUME NEW c \in Conn, PeerCloses(c) \/ PeerStalls(c) \/ Handler(c) PROVE UNCHANGED tickets
  BY <1>5 DEF PeerCloses, PeerStalls, Handler, SendRegister, ReadMessage, SendUnregister, CloseConn,
              tickets
<1>6. CASE Hub
  BY <1>4, <1>6 DEF Hub, HubRegister, HubWelcome, HubUnregister, HubTick, HubWritten, HubWrite, HubEvict
<1>7. CASE Stop \/ HubStops \/ UNCHANGED vars
  BY <1>4, <1>7 DEF Stop, HubStops, vars, tickets
<1> QED
  BY <1>1, <1>2, <1>3, <1>4, <1>5, <1>6, <1>7 DEF Next

-----------------------------------------------------------------------------
(* Whoever is to be removed is dead.                                       *)

LEMMA InitDeadWait == Init => DeadWait
BY DEF Init, DeadWait

\* No step brings a socket back.
LEMMA DeadStays ==
  ASSUME TypeOK, DeadWait, [Next]_vars, NEW c \in Conn, Dead(c)
  PROVE  Dead(c)'
<1>1. ASSUME NEW t \in Ticket, IssueWSTicket(t) \/ TicketExpires(t) PROVE UNCHANGED sock
  BY <1>1 DEF IssueWSTicket, TicketExpires, conns
<1>2. ASSUME NEW d \in Conn, NEW t \in Ticket, DashboardWS(d, t) PROVE Dead(c)'
  BY <1>2 DEF TypeOK, Dead, DashboardWS, conns
<1>3. ASSUME NEW d \in Conn, PeerCloses(d) \/ PeerStalls(d) PROVE Dead(c)'
  BY <1>3 DEF TypeOK, Dead, PeerCloses, PeerStalls
<1>4. ASSUME NEW d \in Conn, Handler(d) PROVE Dead(c)'
  BY <1>4 DEF TypeOK, Dead, Handler, SendRegister, ReadMessage, SendUnregister, CloseConn
<1>5. CASE Hub
  BY <1>5 DEF TypeOK, Dead, Hub, HubRegister, HubWelcome, HubUnregister, HubTick, HubWritten, HubWrite,
              HubEvict, conns
<1>6. CASE PurgeExpiredTickets \/ Stop \/ HubStops \/ UNCHANGED vars
  BY <1>6 DEF Dead, PurgeExpiredTickets, Stop, HubStops, vars, conns
<1> QED
  BY <1>1, <1>2, <1>3, <1>4, <1>5, <1>6 DEF Next, Dead

LEMMA NextDeadWait == TypeOK /\ DeadWait /\ [Next]_vars => DeadWait'
<1> SUFFICES ASSUME TypeOK, DeadWait, [Next]_vars PROVE DeadWait'
  OBVIOUS
<1>0. \A c \in Conn : Dead(c) => Dead(c)'
  BY DeadStays
<1>a. \A k \in DOMAIN unregister : sock'[unregister[k]] \in {"broken", "closed"}
  <2>1. \A k \in DOMAIN unregister : unregister[k] \in Conn
    BY DEF TypeOK
  <2> QED
    BY <2>1, <1>0 DEF DeadWait, Dead
<1>b. \A c \in failed : Dead(c)'
  BY <1>0 DEF TypeOK, DeadWait
<1>c. \A c \in Conn : at[c] \in {"unregister", "close", "gone"} => Dead(c)'
  BY <1>0 DEF DeadWait
<1>1. CASE UNCHANGED <<at, unregister, failed>>
  BY <1>1, <1>a, <1>b, <1>c DEF DeadWait, Dead
<1>2. ASSUME NEW t \in Ticket, IssueWSTicket(t) \/ TicketExpires(t) PROVE DeadWait'
  BY <1>1, <1>2 DEF IssueWSTicket, TicketExpires, conns, chans, loop
<1>3. ASSUME NEW c \in Conn, NEW t \in Ticket, DashboardWS(c, t) PROVE DeadWait'
  <2>1. UNCHANGED <<unregister, failed>>
    BY <1>3 DEF DashboardWS, chans, loop
  <2>2. \A d \in Conn : at'[d] = at[d] \/ at'[d] = "register"
    BY <1>3 DEF TypeOK, DashboardWS, conns
  <2> QED
    BY <2>1, <2>2, <1>a, <1>b, <1>c DEF DeadWait, Dead
<1>4. ASSUME NEW c \in Conn, PeerCloses(c) \/ PeerStalls(c) PROVE DeadWait'
  BY <1>1, <1>4 DEF PeerCloses, PeerStalls, chans, loop
<1>5. ASSUME NEW c \in Conn, Handler(c) PROVE DeadWait'
  <2>1. CASE SendRegister(c)
    BY <2>1, <1>a, <1>b, <1>c DEF TypeOK, SendRegister, DeadWait, Dead, loop
  <2>2. CASE ReadMessage(c)
    BY <2>2, <1>a, <1>b, <1>c DEF TypeOK, ReadMessage, DeadWait, Dead, chans, loop
  <2>3. CASE SendUnregister(c)
    <3>1. Dead(c)' /\ (\A k \in DOMAIN unregister : Dead(unregister[k]))'
      BY <2>3, <1>a, <1>c, AppendHolds DEF TypeOK, SendUnregister, Dead
    <3> QED
      BY <2>3, <3>1, <1>b, <1>c DEF TypeOK, SendUnregister, DeadWait, Dead, loop
  <2>4. CASE CloseConn(c)
    BY <2>4, <1>a, <1>b, <1>c DEF TypeOK, CloseConn, DeadWait, Dead, chans, loop
  <2> QED
    BY <1>5, <2>1, <2>2, <2>3, <2>4 DEF Handler
<1>6. CASE Hub
  <2>1. CASE HubRegister
    BY <2>1, <1>1 DEF HubRegister, conns
  <2>2. CASE HubWelcome
    BY <2>2, <1>1 DEF HubWelcome, conns, chans
  <2>3. CASE HubUnregister
    <3>1. (\A k \in DOMAIN unregister : Dead(unregister[k]))'
      BY <2>3, <1>a, TailHolds DEF TypeOK, HubUnregister, Dead
    <3> QED
      BY <2>3, <3>1, <1>b, <1>c DEF HubUnregister, DeadWait, Dead, conns
  <2>4. CASE HubTick
    BY <2>4, <1>a, <1>c DEF HubTick, DeadWait, Dead, conns, chans
  <2>5. CASE HubWritten
    BY <2>5, <1>1 DEF HubWritten, conns, chans
  <2>6. ASSUME NEW c \in Conn, HubWrite(c) PROVE DeadWait'
    BY <2>6, <1>a, <1>b, <1>c DEF HubWrite, DeadWait, Dead, conns, chans
  <2>7. ASSUME NEW c \in Conn, HubEvict(c) PROVE DeadWait'
    <3>1. Dead(c)' /\ (\A k \in DOMAIN unregister : Dead(unregister[k]))'
      BY <2>7, <1>a, <1>b, AppendHolds DEF TypeOK, HubEvict, Dead
    <3> QED
      BY <2>7, <3>1, <1>b, <1>c DEF HubEvict, DeadWait, Dead
  <2> QED
    BY <1>6, <2>1, <2>2, <2>3, <2>4, <2>5, <2>6, <2>7 DEF Hub
<1>7. CASE PurgeExpiredTickets \/ Stop \/ HubStops \/ UNCHANGED vars
  BY <1>1, <1>7 DEF PurgeExpiredTickets, Stop, HubStops, vars, conns, chans, loop
<1> QED
  BY <1>2, <1>3, <1>4, <1>5, <1>6, <1>7 DEF Next

-----------------------------------------------------------------------------
(* Room in the channel.  A connection is put in it by its handler, once,   *)
(* and by the hub, once in a broadcast: since a tick that found it empty,  *)
(* it holds a connection twice at most.                                    *)

Occurs(c) == \E i \in DOMAIN unregister : unregister[i] = c

Repeats(c) == \E i, j \in DOMAIN unregister : i # j /\ unregister[i] = c /\ unregister[j] = c

\* Neither of them put c there; and one of them did not.
HandlerNotYet(c) == at[c] \notin {"close", "gone"}

HubNotYet(c) == hub \in {"broadcast", "evict"} /\ c \in todo \cup failed

EntriesInv ==
  /\ \A i, j, k \in DOMAIN unregister :
       unregister[i] = unregister[j] /\ unregister[j] = unregister[k] => i = j \/ j = k \/ i = k
  /\ \A c \in Conn : /\ HandlerNotYet(c) \/ HubNotYet(c) => ~Repeats(c)
                     /\ HandlerNotYet(c) /\ HubNotYet(c) => ~Occurs(c)

\* What the hub is at.
LoopInv ==
  /\ hub = "evict" => todo = {} /\ failed # {}
  /\ hub \notin {"broadcast", "evict"} => failed = {}

FlightInv == IsFiniteSet(InFlight) /\ Cardinality(InFlight) <= MaxClients

RoomInv == LoopInv /\ FlightInv /\ (~late => EntriesInv)

LEMMA InitRoom == Init => RoomInv
<1> SUFFICES ASSUME Init PROVE RoomInv
  OBVIOUS
<1>1. InFlight = {}
  BY DEF Init, InFlight
<1>2. FlightInv
  BY <1>1, FS_EmptySet, HubAssumption DEF FlightInv
<1>3. LoopInv /\ EntriesInv
  BY DEF Init, LoopInv, EntriesInv, Repeats, Occurs
<1> QED
  BY <1>2, <1>3 DEF RoomInv

LEMMA NextLoop == TypeOK /\ LoopInv /\ [Next]_vars => LoopInv'
<1> SUFFICES ASSUME TypeOK, LoopInv, [Next]_vars PROVE LoopInv'
  OBVIOUS
<1>1. CASE UNCHANGED loop
  BY <1>1 DEF LoopInv, loop
<1>2. ASSUME NEW t \in Ticket, IssueWSTicket(t) \/ TicketExpires(t) PROVE UNCHANGED loop
  BY <1>2 DEF IssueWSTicket, TicketExpires
<1>3. ASSUME NEW c \in Conn, NEW t \in Ticket, DashboardWS(c, t) PROVE UNCHANGED loop
  BY <1>3 DEF DashboardWS
<1>4. ASSUME NEW c \in Conn, PeerCloses(c) \/ PeerStalls(c) \/ Handler(c) PROVE UNCHANGED loop
  BY <1>4 DEF PeerCloses, PeerStalls, Handler, SendRegister, ReadMessage, SendUnregister, CloseConn
<1>5. CASE Hub
  <2>1. CASE HubRegister \/ HubWelcome \/ HubUnregister \/ HubTick
    BY <2>1 DEF LoopInv, HubRegister, HubWelcome, HubUnregister, HubTick
  <2>2. CASE HubWritten
    BY <2>2 DEF LoopInv, HubWritten
  <2>3. ASSUME NEW c \in Conn, HubWrite(c) PROVE LoopInv'
    BY <2>3 DEF LoopInv, HubWrite
  <2>4. ASSUME NEW c \in Conn, HubEvict(c) PROVE LoopInv'
    BY <2>4 DEF LoopInv, HubEvict
  <2> QED
    BY <1>5, <2>1, <2>2, <2>3, <2>4 DEF Hub
<1>6. CASE PurgeExpiredTickets \/ Stop \/ HubStops \/ UNCHANGED vars
  BY <1>6 DEF LoopInv, PurgeExpiredTickets, Stop, HubStops, vars, loop
<1> QED
  BY <1>1, <1>2, <1>3, <1>4, <1>5, <1>6 DEF Next

\* The connections in flight, by where they are.
LEMMA Flying ==
  ASSUME NEW c
  PROVE  c \in InFlight <=> \/ c \in Conn /\ at[c] \notin {"none", "gone"}
                            \/ c \in clients \/ c \in todo \/ c \in failed
                            \/ \E k \in DOMAIN register : register[k] = c
                            \/ \E k \in DOMAIN unregister : unregister[k] = c
BY DEF InFlight

LEMMA FlyingNext ==
  ASSUME NEW c
  PROVE  c \in InFlight' <=> \/ c \in Conn /\ at'[c] \notin {"none", "gone"}
                             \/ c \in clients' \/ c \in todo' \/ c \in failed'
                             \/ \E k \in DOMAIN register' : register'[k] = c
                             \/ \E k \in DOMAIN unregister' : unregister'[k] = c
BY DEF InFlight

\* Only a request that opens a connection adds one.
LEMMA FlightShrinks ==
  ASSUME TypeOK, NEW S, InFlight \subseteq S,
         \A c \in Conn : at'[c] \notin {"none", "gone"} => at[c] \notin {"none", "gone"} \/ c \in S,
         clients' \subseteq S, todo' \subseteq S, failed' \subseteq S,
         \A k \in DOMAIN register' : register'[k] \in S,
         \A k \in DOMAIN unregister' : unregister'[k] \in S
  PROVE  InFlight' \subseteq S
BY Flying, FlyingNext

LEMMA HandlerFlight ==
  ASSUME TypeOK, NEW c \in Conn, Handler(c)
  PROVE  InFlight' \subseteq InFlight
<1>0. /\ clients \cup todo \cup failed \subseteq InFlight
      /\ \A k \in DOMAIN register : register[k] \in InFlight
      /\ \A k \in DOMAIN unregister : unregister[k] \in InFlight
  BY DEF InFlight
<1>1. at[c] \notin {"none", "gone"} /\ c \in InFlight
  BY Flying DEF Handler, SendRegister, ReadMessage, SendUnregister, CloseConn
<1>2. UNCHANGED loop
  BY DEF Handler, SendRegister, ReadMessage, SendUnregister, CloseConn
<1>3. \A d \in Conn : d # c => at'[d] = at[d]
  BY DEF TypeOK, Handler, SendRegister, ReadMessage, SendUnregister, CloseConn
<1>4. \A k \in DOMAIN register' : register'[k] \in InFlight
  <2>1. CASE SendRegister(c)
    BY <2>1, <1>0, <1>1, AppendHolds DEF TypeOK, SendRegister
  <2>2. CASE UNCHANGED register
    BY <2>2, <1>0
  <2> QED
    BY <2>1, <2>2 DEF Handler, ReadMessage, SendUnregister, CloseConn, chans
<1>5. \A k \in DOMAIN unregister' : unregister'[k] \in InFlight
  <2>1. CASE SendUnregister(c)
    BY <2>1, <1>0, <1>1, AppendHolds DEF TypeOK, SendUnregister
  <2>2. CASE UNCHANGED unregister
    BY <2>2, <1>0
  <2> QED
    BY <2>1, <2>2 DEF Handler, ReadMessage, SendRegister, CloseConn, chans
<1> QED
  BY <1>0, <1>1, <1>2, <1>3, <1>4, <1>5, FlightShrinks DEF loop

LEMMA HubFlight ==
  ASSUME TypeOK, Hub
  PROVE  InFlight' \subseteq InFlight
<1>0. /\ clients \cup todo \cup failed \subseteq InFlight
      /\ \A k \in DOMAIN register : register[k] \in InFlight
      /\ \A k \in DOMAIN unregister : unregister[k] \in InFlight
  BY DEF InFlight
<1>1. UNCHANGED at
  BY DEF Hub, HubRegister, HubWelcome, HubUnregister, HubTick, HubWritten, HubWrite, HubEvict, conns
<1>2. /\ clients' \subseteq InFlight
      /\ \A k \in DOMAIN register' : register'[k] \in InFlight
  <2>1. CASE HubRegister
    <3>1. Head(register) \in InFlight
      BY <2>1, <1>0, TailHolds DEF TypeOK, HubRegister
    <3> QED
      BY <2>1, <3>1, <1>0, TailHolds DEF TypeOK, HubRegister
  <2>2. CASE HubUnregister
    BY <2>2, <1>0 DEF HubUnregister
  <2> QED
    BY <2>1, <2>2, <1>0 DEF Hub, HubWelcome, HubTick, HubWritten, HubWrite, HubEvict, chans
<1>3. todo' \subseteq InFlight /\ failed' \subseteq InFlight
  <2>1. CASE HubRegister
    <3>1. Head(register) \in InFlight
      BY <2>1, <1>0, TailHolds DEF TypeOK, HubRegister
    <3> QED
      BY <2>1, <3>1, <1>0 DEF HubRegister
  <2>2. CASE HubWelcome \/ HubUnregister \/ HubTick \/ HubWritten
    BY <2>2, <1>0 DEF HubWelcome, HubUnregister, HubTick, HubWritten
  <2>3. ASSUME NEW c \in Conn, HubWrite(c) PROVE todo' \subseteq InFlight /\ failed' \subseteq InFlight
    BY <2>3, <1>0 DEF HubWrite
  <2>4. ASSUME NEW c \in Conn, HubEvict(c) PROVE todo' \subseteq InFlight /\ failed' \subseteq InFlight
    BY <2>4, <1>0 DEF HubEvict
  <2> QED
    BY <2>1, <2>2, <2>3, <2>4 DEF Hub
<1>4. \A k \in DOMAIN unregister' : unregister'[k] \in InFlight
  <2>1. CASE HubUnregister
    BY <2>1, <1>0, TailHolds DEF TypeOK, HubUnregister
  <2>2. ASSUME NEW c \in Conn, HubEvict(c) PROVE \A k \in DOMAIN unregister' : unregister'[k] \in InFlight
    BY <2>2, <1>0, AppendHolds DEF TypeOK, HubEvict
  <2>3. CASE UNCHANGED unregister
    BY <2>3, <1>0
  <2> QED
    BY <2>1, <2>2, <2>3 DEF Hub, HubRegister, HubWelcome, HubTick, HubWritten, HubWrite, chans
<1> QED
  BY <1>1, <1>2, <1>3, <1>4, FlightShrinks

LEMMA NextFlight == TypeOK /\ FlightInv /\ [Next]_vars => FlightInv'
<1> SUFFICES ASSUME TypeOK, FlightInv, [Next]_vars PROVE FlightInv'
  OBVIOUS
<1>0. ASSUME InFlight' \subseteq InFlight PROVE FlightInv'
  <2>1. /\ IsFiniteSet(InFlight') /\ Cardinality(InFlight') <= Cardinality(InFlight)
        /\ Cardinality(InFlight') \in Nat /\ Cardinality(InFlight) \in Nat
    BY <1>0, FS_Subset, FS_CardinalityType DEF FlightInv
  <2> QED
    BY <2>1, HubAssumption DEF FlightInv
<1>1. CASE UNCHANGED <<at, chans, loop>>
  <2>1. InFlight' = InFlight
    BY <1>1 DEF InFlight, chans, loop
  <2> QED
    BY <2>1, <1>0
<1>2. ASSUME NEW t \in Ticket, IssueWSTicket(t) \/ TicketExpires(t) PROVE FlightInv'
  BY <1>1, <1>2 DEF IssueWSTicket, TicketExpires, conns
<1>3. ASSUME NEW c \in Conn, NEW t \in Ticket, DashboardWS(c, t) PROVE FlightInv'
  <2>0. UNCHANGED <<chans, loop>> /\ Cardinality(InFlight) < MaxClients
    BY <1>3 DEF DashboardWS
  <2>1. \A d \in Conn : d # c => at'[d] = at[d]
    BY <1>3 DEF TypeOK, DashboardWS, conns
  <2>2. InFlight' \subseteq InFlight \cup {c}
    BY <2>0, <2>1, Flying, FlyingNext DEF chans, loop
  <2>3. /\ IsFiniteSet(InFlight \cup {c})
        /\ Cardinality(InFlight \cup {c}) <= Cardinality(InFlight) + 1
        /\ Cardinality(InFlight) \in Nat /\ Cardinality(InFlight \cup {c}) \in Nat
    <3>1. IsFiniteSet(InFlight)
      BY DEF FlightInv
    <3>2. /\ IsFiniteSet(InFlight \cup {c})
          /\ Cardinality(InFlight \cup {c}) = IF c \in InFlight THEN Cardinality(InFlight) ELSE Cardinality(InFlight) + 1
      BY <3>1, FS_AddElement
    <3>3. Cardinality(InFlight) \in Nat /\ Cardinality(InFlight \cup {c}) \in Nat
      BY <3>1, <3>2, FS_CardinalityType
    <3> QED
      BY <3>2, <3>3
  <2>4. /\ IsFiniteSet(InFlight') /\ Cardinality(InFlight') <= Cardinality(InFlight \cup {c})
        /\ Cardinality(InFlight') \in Nat
    BY <2>2, <2>3, FS_Subset, FS_CardinalityType
  <2> QED
    BY <2>0, <2>3, <2>4, HubAssumption DEF FlightInv
<1>4. ASSUME NEW c \in Conn, PeerCloses(c) \/ PeerStalls(c) PROVE FlightInv'
  BY <1>1, <1>4 DEF PeerCloses, PeerStalls
<1>5. ASSUME NEW c \in Conn, Handler(c) PROVE FlightInv'
  BY <1>0, <1>5, HandlerFlight
<1>6. CASE Hub
  BY <1>0, <1>6, HubFlight
<1>7. CASE HubStops
  <2>1. UNCHANGED <<at, chans, clients, todo, failed>>
    BY <1>7 DEF HubStops, conns
  <2>2. InFlight' = InFlight
    BY <2>1 DEF InFlight, chans
  <2> QED
    BY <2>2, <1>0
<1>8. CASE PurgeExpiredTickets \/ Stop \/ UNCHANGED vars
  BY <1>1, <1>8 DEF PurgeExpiredTickets, Stop, vars, conns, chans, loop
<1> QED
  BY <1>2, <1>3, <1>4, <1>5, <1>6, <1>7, <1>8 DEF Next

\* Who joins the queue, and who leaves it, changes the entries of nobody else.
LEMMA EntriesOfOthers ==
  ASSUME TypeOK, EntriesInv, UNCHANGED unregister,
         \A c \in Conn : (HandlerNotYet(c)' => HandlerNotYet(c)) /\ (HubNotYet(c)' => HubNotYet(c))
  PROVE  EntriesInv'
<1>1. \A c \in Conn : Repeats(c)' = Repeats(c) /\ Occurs(c)' = Occurs(c)
  BY DEF Repeats, Occurs
<1> QED
  BY <1>1 DEF EntriesInv

LEMMA EntriesLeave ==
  ASSUME TypeOK, EntriesInv, unregister # <<>>, unregister' = Tail(unregister),
         \A c \in Conn : (HandlerNotYet(c)' => HandlerNotYet(c)) /\ (HubNotYet(c)' => HubNotYet(c))
  PROVE  EntriesInv'
<1>1. /\ \A k \in DOMAIN unregister' : k \in Nat /\ k + 1 \in DOMAIN unregister /\ unregister'[k] = unregister[k + 1]
  <2>1. Len(unregister) \in Nat /\ DOMAIN unregister = 1..Len(unregister)
    BY DEF TypeOK
  <2>2. DOMAIN unregister' = 1..(Len(unregister) - 1)
    BY <2>1, TailHolds DEF TypeOK
  <2>3. \A k \in 1..(Len(unregister) - 1) : unregister'[k] = unregister[k + 1]
    BY DEF TypeOK
  <2> QED
    BY <2>1, <2>2, <2>3
<1>2. ASSUME NEW i \in DOMAIN unregister', NEW j \in DOMAIN unregister', NEW k \in DOMAIN unregister',
             unregister'[i] = unregister'[j], unregister'[j] = unregister'[k]
      PROVE  i = j \/ j = k \/ i = k
  <2>1. i + 1 = j + 1 \/ j + 1 = k + 1 \/ i + 1 = k + 1
    BY <1>1, <1>2 DEF EntriesInv
  <2> QED
    BY <1>1, <2>1
<1>3. \A c \in Conn : (Repeats(c)' => Repeats(c)) /\ (Occurs(c)' => Occurs(c))
  <2>1. ASSUME NEW c \in Conn, NEW i \in DOMAIN unregister', NEW j \in DOMAIN unregister', i # j,
               unregister'[i] = c, unregister'[j] = c
        PROVE  Repeats(c)
    <3>1. i + 1 # j + 1
      BY <1>1, <2>1
    <3> QED
      BY <1>1, <2>1, <3>1 DEF Repeats
  <2> QED
    BY <1>1, <2>1 DEF Repeats, Occurs
<1> QED
  BY <1>2, <1>3 DEF EntriesInv

\* c joins, put there by somebody who had not put it there before.
LEMMA EntriesJoin ==
  ASSUME TypeOK, EntriesInv, NEW c \in Conn, unregister' = Append(unregister, c),
         HandlerNotYet(c) \/ HubNotYet(c),
         HandlerNotYet(c)' \/ HubNotYet(c)' => HandlerNotYet(c) /\ HubNotYet(c),
         ~(HandlerNotYet(c)' /\ HubNotYet(c)'),
         \A d \in Conn \ {c} : (HandlerNotYet(d)' => HandlerNotYet(d)) /\ (HubNotYet(d)' => HubNotYet(d))
  PROVE  EntriesInv'
<1> DEFINE n == Len(unregister)
<1>1. /\ n \in Nat /\ DOMAIN unregister = 1..n /\ DOMAIN unregister' = 1..(n + 1)
      /\ unregister'[n + 1] = c
      /\ \A k \in 1..n : unregister'[k] = unregister[k]
  BY AppendHolds DEF TypeOK
<1>2. \A k \in 1..(n + 1) : k \in 1..n \/ k = n + 1
  BY <1>1
<1>3. ~Repeats(c)
  BY DEF EntriesInv
<1> HIDE DEF n
<1>4. ASSUME NEW i \in DOMAIN unregister', NEW j \in DOMAIN unregister', NEW k \in DOMAIN unregister',
             unregister'[i] = unregister'[j], unregister'[j] = unregister'[k]
      PROVE  i = j \/ j = k \/ i = k
  BY <1>1, <1>2, <1>3, <1>4 DEF EntriesInv, Repeats
<1>5. \A d \in Conn \ {c} : (Repeats(d)' => Repeats(d)) /\ (Occurs(d)' => Occurs(d))
  BY <1>1, <1>2 DEF Repeats, Occurs
<1>6. Repeats(c)' => Occurs(c)
  BY <1>1, <1>2 DEF Repeats, Occurs
<1>7. ~Occurs(c) \/ ~(HandlerNotYet(c)' \/ HubNotYet(c)')
  BY DEF EntriesInv
<1> QED
  BY <1>4, <1>5, <1>6, <1>7 DEF EntriesInv

\* Between two ticks a connection joins once for its handler, once for the hub.
LEMMA EntriesBetweenTicks ==
  ASSUME TypeOK, LoopInv, EntriesInv, [Next]_vars, ~HubTick
  PROVE  EntriesInv'
<1>1. CASE UNCHANGED <<at, unregister, loop>>
  BY <1>1, EntriesOfOthers DEF HandlerNotYet, HubNotYet, loop
<1>2. ASSUME NEW t \in Ticket, IssueWSTicket(t) \/ TicketExpires(t) PROVE EntriesInv'
  BY <1>1, <1>2 DEF IssueWSTicket, TicketExpires, conns, chans
<1>3. ASSUME NEW c \in Conn, NEW t \in Ticket, DashboardWS(c, t) PROVE EntriesInv'
  <2>1. UNCHANGED <<unregister, loop>>
    BY <1>3 DEF DashboardWS, chans
  <2>2. \A d \in Conn : HandlerNotYet(d)' => HandlerNotYet(d)
    BY <1>3 DEF TypeOK, DashboardWS, HandlerNotYet, conns
  <2> QED
    BY <2>1, <2>2, EntriesOfOthers DEF HubNotYet, loop
<1>4. ASSUME NEW c \in Conn, PeerCloses(c) \/ PeerStalls(c) PROVE EntriesInv'
  BY <1>1, <1>4 DEF PeerCloses, PeerStalls, chans
<1>5. ASSUME NEW c \in Conn, Handler(c) PROVE EntriesInv'
  <2>1. /\ UNCHANGED loop
        /\ \A d \in Conn : HandlerNotYet(d)' => HandlerNotYet(d)
        /\ \A d \in Conn : HubNotYet(d)' <=> HubNotYet(d)
    BY <1>5 DEF TypeOK, Handler, SendRegister, ReadMessage, SendUnregister, CloseConn, HandlerNotYet,
                HubNotYet, loop
  <2>2. CASE SendUnregister(c)
    <3>1. HandlerNotYet(c) /\ ~HandlerNotYet(c)'
      BY <2>2 DEF TypeOK, SendUnregister, HandlerNotYet
    <3> QED
      BY <2>1, <2>2, <3>1, EntriesJoin DEF SendUnregister
  <2>3. CASE UNCHANGED unregister
    BY <2>1, <2>3, EntriesOfOthers
  <2> QED
    BY <1>5, <2>2, <2>3 DEF Handler, SendRegister, ReadMessage, CloseConn, chans
<1>6. CASE Hub
  <2>0. UNCHANGED at /\ \A d \in Conn : HandlerNotYet(d)' <=> HandlerNotYet(d)
    BY <1>6 DEF Hub, HubRegister, HubWelcome, HubUnregister, HubTick, HubWritten, HubWrite, HubEvict, conns,
                HandlerNotYet
  <2>1. CASE HubRegister \/ HubWelcome
    BY <2>0, <2>1, EntriesOfOthers DEF HubRegister, HubWelcome, HubNotYet, chans
  <2>2. CASE HubUnregister
    BY <2>0, <2>2, EntriesLeave DEF HubUnregister, HubNotYet
  <2>4. CASE HubWritten
    BY <2>0, <2>4, EntriesOfOthers DEF HubWritten, HubNotYet, chans
  <2>5. ASSUME NEW c \in Conn, HubWrite(c) PROVE EntriesInv'
    BY <2>0, <2>5, EntriesOfOthers DEF HubWrite, HubNotYet, chans
  <2>6. ASSUME NEW c \in Conn, HubEvict(c) PROVE EntriesInv'
    <3>1. HubNotYet(c) /\ ~HubNotYet(c)'
      BY <2>6 DEF HubEvict, HubNotYet, LoopInv
    <3>2. \A d \in Conn : HubNotYet(d)' => HubNotYet(d)
      BY <2>6 DEF HubEvict, HubNotYet
    <3> QED
      BY <2>0, <2>6, <3>1, <3>2, EntriesJoin DEF HubEvict
  <2> QED
    BY <1>6, <2>1, <2>2, <2>4, <2>5, <2>6 DEF Hub
<1>7. CASE HubStops
  <2>1. UNCHANGED <<at, unregister>> /\ hub' = "stopped"
    BY <1>7 DEF HubStops, conns, chans
  <2> QED
    BY <2>1, EntriesOfOthers DEF HandlerNotYet, HubNotYet
<1>8. CASE PurgeExpiredTickets \/ Stop \/ UNCHANGED vars
  BY <1>1, <1>8 DEF PurgeExpiredTickets, Stop, vars, conns, chans, loop
<1> QED
  BY <1>2, <1>3, <1>4, <1>5, <1>6, <1>7, <1>8 DEF Next

\* A tick that finds the channel empty begins anew.
LEMMA NextEntries ==
  ASSUME TypeOK, LoopInv, ~late => EntriesInv, [Next]_vars
  PROVE  ~late' => EntriesInv'
<1> SUFFICES ASSUME ~late' PROVE EntriesInv'
  OBVIOUS
<1>1. CASE HubTick
  <2>1. unregister = <<>> /\ unregister' = <<>>
    BY <1>1 DEF HubTick, chans
  <2> QED
    BY <2>1 DEF EntriesInv, Repeats, Occurs
<1>2. CASE ~HubTick
  <2>1. late' = late
    BY <1>2 DEF Next, Handler, Hub, IssueWSTicket, TicketExpires, DashboardWS, PeerCloses, PeerStalls,
                SendRegister, ReadMessage, SendUnregister, CloseConn, HubRegister, HubWelcome, HubUnregister,
                HubWritten, HubWrite, HubEvict, PurgeExpiredTickets, Stop, HubStops, loop, vars
  <2> QED
    BY <1>2, <2>1, EntriesBetweenTicks
<1> QED
  BY <1>1, <1>2

-----------------------------------------------------------------------------
LEMMA Inductive == Spec => []IInv
<1>1. Init => IInv
  BY InitType, InitUsedUp, InitDeadWait DEF IInv
<1>2. IInv /\ [Next]_vars => IInv'
  BY NextType, NextUsedUp, NextDeadWait DEF IInv
<1> QED
  BY <1>1, <1>2, PTL DEF Spec

\* A one-time ticket opens at most one connection (DashboardWS), however
\* requests, expiry and the cleanup of the hub interleave.
THEOREM TicketsOpenOnce == Spec => []OneConnPerTicket
<1>1. IInv => OneConnPerTicket
  BY DEF IInv, UsedUp
<1> QED
  BY <1>1, Inductive, PTL

\* No step takes a connection from the clients whose peer still reads: the hub
\* removes only what a read loop that ended or a failed write put in its queue.
THEOREM LiveStay == Spec => OnlyDeadLeave
<1> DEFINE Stay == \A c \in clients \ clients' : sock[c] \in {"broken", "closed"}
<1>1. IInv /\ [Next]_vars => [Stay]_vars
  <2> SUFFICES ASSUME IInv, Next PROVE Stay
    OBVIOUS
  <2>1. CASE clients \subseteq clients'
    BY <2>1
  <2>2. CASE HubUnregister
    BY <2>2, TailHolds DEF IInv, TypeOK, DeadWait, Dead, HubUnregister
  <2>3. ASSUME NEW t \in Ticket, IssueWSTicket(t) \/ TicketExpires(t) PROVE Stay
    BY <2>1, <2>3 DEF IssueWSTicket, TicketExpires, loop
  <2>4. ASSUME NEW c \in Conn, NEW t \in Ticket, DashboardWS(c, t) PROVE Stay
    BY <2>1, <2>4 DEF DashboardWS, loop
  <2>5. ASSUME NEW c \in Conn, PeerCloses(c) \/ PeerStalls(c) \/ Handler(c) PROVE Stay
    BY <2>1, <2>5 DEF PeerCloses, PeerStalls, Handler, SendRegister, ReadMessage, SendUnregister,
                      CloseConn, loop
  <2>6. CASE Hub
    BY <2>1, <2>2, <2>6 DEF Hub, HubRegister, HubWelcome, HubTick, HubWritten, HubWrite, HubEvict
  <2>7. CASE PurgeExpiredTickets \/ Stop \/ HubStops
    BY <2>1, <2>7 DEF PurgeExpiredTickets, Stop, HubStops, loop
  <2> QED
    BY <2>3, <2>4, <2>5, <2>6, <2>7 DEF Next
<1> QED
  BY <1>1, Inductive, PTL DEF Spec, OnlyDeadLeave

\* With room for two entries of each connection in flight the channel is not
\* full: the one the hub is about to add has one entry at most.
LEMMA RoomIsLeft ==
  ASSUME TypeOK, RoomInv
  PROVE  JamsOnlyCrowded
<1>0. Cardinality(InFlight) \in Nat
  BY FS_CardinalityType DEF RoomInv, FlightInv
<1> SUFFICES ASSUME hub = "evict", Len(unregister) = Cap, ~late, 2 * Cardinality(InFlight) <= Cap PROVE FALSE
  BY <1>0, HubAssumption DEF JamsOnlyCrowded, Jammed
<1>1. PICK c \in failed : TRUE
  BY DEF RoomInv, LoopInv
<1> DEFINE S == DOMAIN unregister
           B == InFlight \X {0, 1}
           T == B \ {<<c, 1>>}
           f == [k \in S |-> <<unregister[k], IF \E j \in S : j < k /\ unregister[j] = unregister[k] THEN 1 ELSE 0>>]
<1>2. c \in InFlight /\ c \in Conn /\ ~Repeats(c)
  BY <1>1 DEF TypeOK, InFlight, RoomInv, EntriesInv, HubNotYet
<1>3. /\ IsFiniteSet(B) /\ Cardinality(B) = Cardinality(InFlight) * 2
      /\ Cardinality(InFlight) \in Nat
  <2>1. IsFiniteSet({0, 1}) /\ Cardinality({0, 1}) = 2
    <3>1. 0..1 = {0, 1}
      OBVIOUS
    <3>2. IsFiniteSet(0..1) /\ Cardinality(0..1) = 2
      BY FS_Interval, 0 \in Int, 1 \in Int, ~(0 > 1), 1 - 0 + 1 = 2
    <3> QED
      BY <3>1, <3>2
  <2> QED
    BY <2>1, FS_Product, FS_CardinalityType DEF RoomInv, FlightInv
<1>4. IsFiniteSet(T) /\ Cardinality(T) < 2 * Cardinality(InFlight)
  <2>1. <<c, 1>> \in B
    BY <1>2
  <2>2. IsFiniteSet(T) /\ Cardinality(T) = Cardinality(B) - 1
    BY <1>3, <2>1, FS_RemoveElement
  <2> QED
    BY <1>3, <2>2
<1>5. S = 1..Len(unregister) /\ Len(unregister) \in Nat
  BY DEF TypeOK
<1>6. IsFiniteSet(S) /\ Cardinality(S) = Len(unregister)
  BY <1>5, FS_Interval
<1>7. f \in [S -> T]
  <2> SUFFICES ASSUME NEW k \in S PROVE f[k] \in T
    OBVIOUS
  <2>1. unregister[k] \in InFlight
    BY DEF InFlight
  <2>2. f[k] \in B
    BY <2>1
  <2>3. f[k] # <<c, 1>>
    <3>1. SUFFICES ASSUME f[k] = <<c, 1>> PROVE FALSE
      OBVIOUS
    <3>2. PICK j \in S : j < k /\ unregister[j] = unregister[k]
      BY <3>1
    <3>3. unregister[k] = c /\ j # k
      BY <3>1, <3>2, <1>5
    <3> QED
      BY <1>2, <3>2, <3>3 DEF Repeats
  <2> QED
    BY <2>2, <2>3
<1>8. Cardinality(T) < Cardinality(S)
  BY <1>3, <1>4, <1>6, FS_CardinalityType, HubAssumption
<1>9. PICK j \in S, k \in S : j # k /\ f[j] = f[k]
  <2> HIDE DEF S, T, f
  <2>1. \E j, k \in S : j # k /\ f[j] = f[k]
    BY <1>4, <1>6, <1>7, <1>8, FS_PigeonHole
  <2> QED
    BY <2>1
<1>10. /\ unregister[j] = unregister[k]
       /\ (\E i \in S : i < j /\ unregister[i] = unregister[j]) <=> (\E i \in S : i < k /\ unregister[i] = unregister[k])
  BY <1>9
<1>11. j < k \/ k < j
  BY <1>5, <1>9
<1>12. PICK i \in S, m \in S, n \in S : i < m /\ m < n /\ unregister[i] = unregister[m] /\ unregister[m] = unregister[n]
  BY <1>10, <1>11
<1> QED
  BY <1>5, <1>12 DEF RoomInv, EntriesInv

\* The hub comes to wait for itself (broadcastAll sends on the channel that only
\* Run receives from) under two conditions alone, whatever the capacity: more
\* connections in flight than half of it, or a broadcast that began with
\* departures still waiting.
THEOREM JamsWhenCrowded == Spec => []JamsOnlyCrowded
<1>1. Init => TypeOK /\ RoomInv
  BY InitType, InitRoom
<1>2. TypeOK /\ RoomInv /\ [Next]_vars => (TypeOK /\ RoomInv)'
  BY NextType, NextLoop, NextFlight, NextEntries DEF RoomInv
<1>3. TypeOK /\ RoomInv => JamsOnlyCrowded
  BY RoomIsLeft
<1> QED
  BY <1>1, <1>2, <1>3, PTL DEF Spec
=============================================================================
