------------------------------- MODULE WsLink -------------------------------
(* The connection of one tab to its user's UserSessionDO                       *)
(* (src/frontend/src/lib/ws.js, src/src/routes/wsRoutes.js): ticket, socket,   *)
(* heartbeat and reconnect timer, with the handlers of old sockets still on.   *)
EXTENDS FiniteSets, Naturals

CONSTANTS Socks,      \* bound: sockets that exist at once
          MaxFaults   \* bound: starts, stops, conversions and faults of a behaviour

VARIABLES running,    \* _running
          name,       \* handle of the tab's session: a guest's, then the account's
          call,       \* _connect calls that await their ticket
          sock,       \* state and handle of each socket
          cur,        \* _ws, 0 for null
          connected,  \* _isConnected
          retry,      \* _reconnectTimer is set
          ping,       \* _pingTimer is set
          pong,       \* _pongTimeoutTimer is set
          due,        \* socket on which a pong is under way, 0 for none
          owed,       \* the conversion has not reconnected yet
          faults

tab == <<running, name, cur, connected, retry, ping, pong, owed>>
vars == <<tab, call, sock, due, faults>>

Calls == 1..2
Names == {"guest", "user"}
NoSock == [st |-> "none", name |-> "guest"]
Up == {"open", "half"}      \* half: the peer is gone and nobody noticed

St(k) == IF k = 0 THEN "none" ELSE sock[k].st
Pending == \E c \in Calls : call[c] # "none"

Init == /\ running = FALSE /\ name = "guest" /\ call = [c \in Calls |-> "none"]
        /\ sock = [k \in Socks |-> NoSock] /\ cur = 0 /\ connected = FALSE
        /\ retry = FALSE /\ ping = FALSE /\ pong = FALSE /\ due = 0 /\ owed = FALSE
        /\ faults = 0

(***************************************************************************)
(* ws.js                                                                   *)
(***************************************************************************)
(* _connect up to the await; nothing if the link is stopped.                   *)
Connect == \E c \in Calls : /\ call[c] = "none" /\ \A d \in Calls : d < c => call[d] # "none"
                            /\ call' = [call EXCEPT ![c] = "asking"]

Start == /\ ~running /\ running' = TRUE /\ Connect
         /\ UNCHANGED <<name, cur, connected, retry, ping, pong, owed, sock, due>>

CloseCurrent == /\ sock' = IF St(cur) \in Up \cup {"connecting"} THEN [sock EXCEPT ![cur].st = "closing"] ELSE sock
                /\ cur' = 0 /\ connected' = FALSE /\ ping' = FALSE /\ pong' = FALSE

Stop == /\ running /\ running' = FALSE /\ retry' = FALSE /\ CloseCurrent
        /\ UNCHANGED <<name, owed, call, due>>

(* reconnect, after the conversion of a guest (App.svelte).                    *)
Reconnect == /\ owed /\ owed' = FALSE
             /\ running' = TRUE /\ retry' = FALSE /\ CloseCurrent /\ Connect
             /\ UNCHANGED <<name, due>>

(* The await is over: a socket is opened, whatever happened meanwhile.         *)
OpenSocket(c) ==
  \E k \in Socks : /\ call[c] \in Names /\ sock[k].st = "none"
                   /\ \A j \in Socks : j < k => sock[j].st # "none"
                   /\ call' = [call EXCEPT ![c] = "none"]
                   /\ sock' = [sock EXCEPT ![k] = [st |-> "connecting", name |-> call[c]]]
                   /\ cur' = k
                   /\ UNCHANGED <<running, name, connected, retry, ping, pong, owed, due>>

Opened(k) == /\ sock[k].st = "connecting" /\ sock' = [sock EXCEPT ![k].st = "open"]
             /\ connected' = TRUE /\ ping' = TRUE
             /\ UNCHANGED <<running, name, cur, retry, pong, owed, call, due>>

(* onclose of any socket, also of one that is no longer _ws.                   *)
Retries == retry \/ running
OnClose(k) == /\ sock' = [sock EXCEPT ![k] = IF k = cur THEN [NoSock EXCEPT !.st = "closed"] ELSE NoSock]
              /\ connected' = FALSE /\ ping' = FALSE /\ pong' = FALSE
              /\ retry' = Retries
              /\ due' = IF due = k THEN 0 ELSE due
              /\ UNCHANGED <<running, name, cur, owed, call>>

Closed(k) == sock[k].st = "closing" /\ OnClose(k)

RetryFires == /\ retry /\ retry' = FALSE
              /\ IF running THEN Connect ELSE UNCHANGED call
              /\ UNCHANGED <<running, name, cur, connected, ping, pong, owed, sock, due>>

(* The object of a closed socket is dropped once _ws names another.            *)
Drop(k) == /\ sock[k].st = "closed" /\ k # cur /\ sock' = [sock EXCEPT ![k] = NoSock]
           /\ UNCHANGED <<tab, call, due>>

(* Every 25 s; the timeout of 10 s has ended by then.                          *)
Ping == /\ ping /\ ~pong /\ St(cur) \in Up
        /\ pong' = TRUE /\ due' = IF St(cur) = "open" THEN cur ELSE due
        /\ UNCHANGED <<running, name, cur, connected, retry, ping, owed, call, sock>>

(* A pong on any socket ends the timeout.                                      *)
Pong == /\ due # 0 /\ St(due) = "open" /\ due' = 0 /\ pong' = FALSE
        /\ UNCHANGED <<running, name, cur, connected, retry, ping, owed, call, sock>>

(* The timeout closes _ws, whichever socket that is now.                       *)
Times_Out_Never == UNCHANGED sock                                              \* slip
Times_Out == sock' = IF St(cur) \in Up \cup {"connecting"} THEN [sock EXCEPT ![cur].st = "closing"] ELSE sock
PongTimeout == /\ pong /\ pong' = FALSE /\ Times_Out
               /\ UNCHANGED <<running, name, cur, connected, retry, ping, owed, call, due>>

(***************************************************************************)
(* The server and the network                                              *)
(***************************************************************************)
(* /auth/ws-ticket binds the session's handle at that moment; without a ticket *)
(* the cookie does it when the socket is opened.                               *)
Ticket(c) == /\ call[c] = "asking" /\ call' = [call EXCEPT ![c] = name]
             /\ UNCHANGED <<tab, sock, due>>

(* The handle changes at the server before the tab reconnects.                 *)
Convert == /\ name = "guest" /\ running /\ name' = "user" /\ owed' = TRUE
           /\ UNCHANGED <<running, cur, connected, retry, ping, pong, call, sock, due>>

HalfOpen(k) == /\ sock[k].st = "open" /\ sock' = [sock EXCEPT ![k].st = "half"]
               /\ UNCHANGED <<tab, call, due>>
Drops(k) == sock[k].st \in Up \cup {"connecting"} /\ OnClose(k)

Fault == \/ Start \/ Stop \/ Convert
         \/ \E k \in Socks : HalfOpen(k) \/ Drops(k)
         \/ St(cur) # "half" /\ PongTimeout

(* A network that answers, and timers that fire.                               *)
Settles == \/ \E c \in Calls : Ticket(c) \/ OpenSocket(c)
           \/ \E k \in Socks : Opened(k) \/ Closed(k) \/ Drop(k)
           \/ RetryFires \/ Reconnect
           \/ St(cur) = "half" /\ PongTimeout
Beats == Ping \/ Pong

WNext == \/ faults < MaxFaults /\ faults' = faults + 1 /\ Fault
         \/ (Settles \/ Beats) /\ UNCHANGED faults

WSpec == Init /\ [][WNext]_vars /\ WF_vars(Settles /\ UNCHANGED faults) /\ WF_vars(Beats /\ UNCHANGED faults)

(***************************************************************************)
(* Properties                                                              *)
(***************************************************************************)
(* A running link is never left alone: _ws is up with its heartbeat on, or it  *)
(* is opening or closing, or a timer or a pending call will replace it.        *)
LinkWatched == running => \/ St(cur) \in Up /\ ping
                          \/ St(cur) \in {"connecting", "closing"}
                          \/ retry \/ Pending

(* Once users and network leave it alone, a running link ends with an open     *)
(* socket, heartbeat on, and no retry.                                         *)
ComesBack == <>[](running => St(cur) = "open" /\ ping /\ connected /\ ~retry)

(* When nothing is in flight, a socket of the tab is bound to its handle.      *)
HearsItsName == running /\ ~retry /\ ~Pending /\ ~owed
                  /\ (\A k \in Socks : sock[k].st \notin {"connecting", "closing"})
                => \E k \in Socks : sock[k].st \in Up /\ sock[k].name = name

(* ws.js: "nur die Connection wird geschlossen und neu aufgebaut". It does not *)
(* hold: the closed socket's onclose schedules a second connect.               *)
OneSocket == Cardinality({k \in Socks : sock[k].st \in Up}) <= 1
=============================================================================
