----------------------------- MODULE MockBackend -----------------------------
(* MockCifXBackend (cifx/backend.py), the card of a gateway without          *)
(* hardware, under the threads of gateway/udp_server.py, one per datagram.   *)
(* io_read() and io_write() take the lock, the other methods do not; a step  *)
(* is what the interpreter does without switching threads.                   *)
EXTENDS Naturals, FiniteSets

CONSTANTS
  Areas,      \* the areas datagrams name
  Datagrams   \* datagrams that arrive, each with its thread

Commands == {"READ_INPUT", "WRITE_OUTPUT", "READ_OUTPUT", "GET_STATUS",
             "SET_HOST_STATE", "WATCHDOG_TRIGGER", "RESET"}

\* fits: offset and length lie within area_size.
Requests == [command: Commands, area: Areas, fits: BOOLEAN]

VARIABLES
  isOpen,    \* _is_open
  areas,     \* _areas: the buffers that exist, "zeros" or "data"
  bus,       \* _bus_state
  host,      \* _host_state
  locked,    \* _config_locked
  holder,    \* who has _lock: {} or one datagram
  main,      \* where the thread that owns the backend is
  request,   \* per datagram, what it asks
  pc,        \* per datagram, where its thread is
  iterator,  \* per datagram, reset()'s walk through _areas
  response   \* per datagram, the status it was answered with, "none" so far

state == <<bus, host, locked>>
thread == <<request, iterator, response>>
vars == <<isOpen, areas, state, holder, main, thread, pc>>

NoWalk == [size |-> 0, left |-> {}]

Init ==
  /\ isOpen = FALSE
  /\ areas = [a \in {} |-> "zeros"]
  /\ bus = "off" /\ host = "off" /\ locked = FALSE
  /\ holder = {}
  /\ main = "open"
  /\ request \in [Datagrams -> Requests]
  /\ pc = [d \in Datagrams |-> "away"]
  /\ iterator = [d \in Datagrams |-> NoWalk]
  /\ response = [d \in Datagrams |-> "none"]

At(d, label) == pc[d] = label
Goto(d, label) == pc' = [pc EXCEPT ![d] = label]
Asks(d, commands) == request[d].command \in commands

-----------------------------------------------------------------------------
(* GatewayRunner.start() and stop()                                         *)

MainTo(from, to) == main = from /\ main' = to

Open ==
  /\ MainTo("open", "unlock")
  /\ isOpen' = TRUE /\ bus' = "on"
  /\ UNCHANGED <<areas, host, locked, holder, thread, pc>>

SetConfigLock ==
  /\ MainTo("unlock", "host")
  /\ locked' = FALSE
  /\ UNCHANGED <<isOpen, areas, bus, host, holder, thread, pc>>

SetHostReady ==
  /\ MainTo("host", "bus")
  /\ host' = "on"
  /\ UNCHANGED <<isOpen, areas, bus, locked, holder, thread, pc>>

SetBusState ==
  /\ MainTo("bus", "serving")
  /\ bus' = "on"
  /\ UNCHANGED <<isOpen, areas, host, locked, holder, thread, pc>>

\* The threads that handle datagrams are not waited for.
Close ==
  /\ MainTo("serving", "stopped")
  /\ isOpen' = FALSE /\ bus' = "off"
  /\ UNCHANGED <<areas, host, locked, holder, thread, pc>>

Owner == Open \/ SetConfigLock \/ SetHostReady \/ SetBusState \/ Close

-----------------------------------------------------------------------------
(* The backend's methods                                                    *)

Ends(d, status) ==
  /\ Goto(d, "reply")
  /\ response' = [response EXCEPT ![d] = status]

Arrive(d) ==
  /\ main = "serving" /\ At(d, "away")
  /\ Goto(d, "call")
  /\ UNCHANGED <<isOpen, areas, state, holder, main, thread>>

\* _check_open(), the first thing every method does.
CheckOpen(d) ==
  /\ At(d, "call")
  /\ IF isOpen THEN Goto(d, "body") /\ UNCHANGED response ELSE Ends(d, "BACKEND_ERROR")
  /\ UNCHANGED <<isOpen, areas, state, holder, main, request, iterator>>

Transfers == {"READ_INPUT", "WRITE_OUTPUT", "READ_OUTPUT"}

Lock(d) ==
  /\ At(d, "body") /\ Asks(d, Transfers)
  /\ holder = {}
  /\ holder' = {d}
  /\ Goto(d, "area")
  /\ UNCHANGED <<isOpen, areas, state, main, thread>>

\* _area(): an area comes into being when it is first named.
FindArea(d) ==
  /\ At(d, "area")
  /\ LET a == request[d].area
     IN areas' = IF a \in DOMAIN areas THEN areas
                 ELSE [b \in DOMAIN areas \cup {a} |-> IF b = a THEN "zeros" ELSE areas[b]]
  /\ Goto(d, "transfer")
  /\ UNCHANGED <<isOpen, state, holder, main, thread>>

Transfer(d) ==
  /\ At(d, "transfer")
  /\ Ends(d, IF request[d].fits THEN "OK" ELSE "BACKEND_ERROR")
  /\ areas' = IF request[d].fits /\ Asks(d, {"WRITE_OUTPUT"})
              THEN [areas EXCEPT ![request[d].area] = "data"] ELSE areas
  /\ holder' = {}
  /\ UNCHANGED <<isOpen, state, main, request, iterator>>

GetStatus(d) ==
  /\ At(d, "body") /\ Asks(d, {"GET_STATUS", "WATCHDOG_TRIGGER"})
  /\ Ends(d, "OK")
  /\ UNCHANGED <<isOpen, areas, state, holder, main, request, iterator>>

SetHostState(d) ==
  /\ At(d, "body") /\ Asks(d, {"SET_HOST_STATE"})
  /\ host' \in {"on", "off"}
  /\ Ends(d, "OK")
  /\ UNCHANGED <<isOpen, areas, bus, locked, holder, main, request, iterator>>

\* reset(): for buf in self._areas.values()
Reset(d) ==
  /\ At(d, "body") /\ Asks(d, {"RESET"})
  /\ iterator' = [iterator EXCEPT ![d] =
       [size |-> Cardinality(DOMAIN areas), left |-> DOMAIN areas]]
  /\ Goto(d, "walk")
  /\ UNCHANGED <<isOpen, areas, state, holder, main, request, response>>

Resized(d) == Cardinality(DOMAIN areas) # iterator[d].size

ClearArea(d) ==
  /\ At(d, "walk") /\ ~Resized(d)
  /\ \E a \in iterator[d].left :
       /\ areas' = [areas EXCEPT ![a] = "zeros"]
       /\ iterator' = [iterator EXCEPT ![d].left = @ \ {a}]
  /\ UNCHANGED <<isOpen, state, holder, main, request, response, pc>>

ResetEnds(d) ==
  /\ At(d, "walk") /\ ~Resized(d) /\ iterator[d].left = {}
  /\ Ends(d, "OK")
  /\ UNCHANGED <<isOpen, areas, state, holder, main, request, iterator>>

\* RuntimeError: dictionary changed size during iteration.  It is no CifXError:
\* handle_frame() lets it through, and the datagram's handler logs it.
ResetRaises(d) ==
  /\ At(d, "walk") /\ Resized(d)
  /\ Goto(d, "end")
  /\ UNCHANGED <<isOpen, areas, state, holder, main, thread>>

\* sock.sendto()
Reply(d) ==
  /\ At(d, "reply")
  /\ Goto(d, "end")
  /\ UNCHANGED <<isOpen, areas, state, holder, main, thread>>

Handler(d) ==
  \/ Arrive(d) \/ CheckOpen(d) \/ Lock(d) \/ FindArea(d) \/ Transfer(d) \/ GetStatus(d)
  \/ SetHostState(d) \/ Reset(d) \/ ClearArea(d) \/ ResetEnds(d) \/ ResetRaises(d) \/ Reply(d)

Next == Owner \/ \E d \in Datagrams : Handler(d)

Spec == Init /\ [][Next]_vars

-----------------------------------------------------------------------------
(* Properties                                                               *)

\* One request datagram gets exactly one response datagram, whatever its
\* request and whatever the others ask meanwhile.
OneResponse == \A d \in Datagrams : At(d, "end") => response[d] # "none"
=============================================================================
