---------------------------- MODULE AlertStream ----------------------------
(***************************************************************************)
(* services/sip-processor/app/sentinel/websocket.py: the connected clients *)
(* and the loops that send to each of them.                                *)
(*                                                                         *)
(* A loop walks the live set active_connections and awaits a send for each *)
(* member, so clients come and go between two sends. Python's iterator     *)
(* then raises RuntimeError when the SIZE of the set has changed. When the *)
(* set was changed and the size is what it was, the hash table may have    *)
(* been rebuilt, also by a client that came and left: the iterator then    *)
(* visits anybody, some twice and some not at all.                         *)
(***************************************************************************)
EXTENDS Integers, FiniteSets

CONSTANTS
    Clients,        \* bound: WebSocket connections, each made once
    Loops,          \* coroutines that broadcast
    Heart,          \* the one among them that is the heartbeat task
    Heartbeat,      \* its message
    NoClient, NoMessage

ASSUME StreamAssumption ==
    /\ Heart \in Loops /\ NoClient \notin Clients

VARIABLES
    client,     \* connection -> "new", "open", "gone" (nobody at the other end), "closed"
    active,     \* active_connections
    loop,       \* loop -> [at, message, to, size, unheard, failed, disturbed]
    missed      \* history: who a broadcast of an alert passed over

stream == <<client, active, loop, missed>>

\* at: "idle", "send" or, for the heartbeat task, "dead". size is what the iterator
\* keeps of the set, failed the local set of clients to remove. unheard (the clients
\* that were there from the beginning and had no send yet) and disturbed (the set was
\* changed during the walk) stand for the place of the iterator in the hash table.
Resting == [at |-> "idle", message |-> NoMessage, to |-> NoClient, size |-> 0,
            unheard |-> {}, failed |-> {}, disturbed |-> FALSE]

InitStream ==
    /\ client = [c \in Clients |-> "new"]
    /\ active = {}
    /\ loop = [l \in Loops |-> Resting]
    /\ missed = {}

Broadcasting(l) == loop[l].at = "send"

\* active_connections becomes s, under every walk that is under way.
Walks(s) == [l \in Loops |->
    IF Broadcasting(l) /\ s # active
    THEN [loop[l] EXCEPT !.disturbed = TRUE, !.unheard = @ \cap s] ELSE loop[l]]

\* connect: the set grows when accept() has returned.
Connect(c) ==
    /\ client[c] = "new"
    /\ client' = [client EXCEPT ![c] = "open"]
    /\ active' = active \cup {c}
    /\ loop' = Walks(active \cup {c})
    /\ UNCHANGED missed

\* The other end is lost. External.
Drop(c) ==
    /\ client[c] = "open"
    /\ client' = [client EXCEPT ![c] = "gone"]
    /\ UNCHANGED <<active, loop, missed>>

\* websocket_alerts_endpoint: a receive or a heartbeat of its own raised.
Disconnect(c) ==
    /\ client[c] = "gone"
    /\ client' = [client EXCEPT ![c] = "closed"]
    /\ active' = active \ {c}
    /\ loop' = Walks(active \ {c})
    /\ UNCHANGED missed

---------------------------------------------------------------------------
(* broadcast_alert and send_heartbeat.                                     *)

\* The loop begins: with nobody there it ends at once.
Begin(l, message) ==
    \/ /\ active = {}
       /\ loop' = [loop EXCEPT ![l] = Resting]
    \/ \E c \in active :
          loop' = [loop EXCEPT ![l] = [Resting EXCEPT !.at = "send", !.message = message,
                                                      !.size = Cardinality(active),
                                                      !.unheard = active, !.to = c]]

\* The awaited send returns or raises. To a client that is gone it may do
\* either, one that is there gets the message.
SendResult(l, result) ==
    CASE client[loop[l].to] = "open"   -> result = "sent"
      [] client[loop[l].to] = "gone"   -> result \in {"sent", "raised"}
      [] client[loop[l].to] = "closed" -> result = "raised"

AfterSend(l, result) ==
    LET b == loop[l]
    IN  [b EXCEPT !.failed = IF result = "raised" THEN @ \cup {b.to} ELSE @,
                  !.unheard = @ \ {b.to}]

SizeChanged(b) == Cardinality(active) # b.size

\* Who was there from the beginning to the end and has not heard the alert.
PassedOver(b) ==
    IF b.message = Heartbeat THEN {}
    ELSE {[message |-> b.message, client |-> c, disturbed |-> b.disturbed] :
             c \in {d \in b.unheard : client[d] = "open"}}

\* The iterator gives another client. Which of them comes next is the hash
\* table's choice; none comes twice as long as the table is what it was.
SendNext(l, c, result) ==
    LET b == AfterSend(l, result)
    IN  /\ Broadcasting(l) /\ SendResult(l, result)
        /\ ~SizeChanged(b)
        /\ c \in IF b.disturbed THEN active ELSE b.unheard
        /\ loop' = [loop EXCEPT ![l] = [b EXCEPT !.to = c]]
        /\ UNCHANGED <<client, active, missed>>

\* Mutant: a send that raises ends the walk.
ExhaustedByFailure(b) == b.failed # {} \/ b.disturbed \/ b.unheard = {}

\* The iterator is exhausted: it gave everybody, unless the set was changed.
Exhausted(b) == b.disturbed \/ b.unheard = {}

\* Clients whose send raised are removed.
EndLoop(l, result) ==
    LET b == AfterSend(l, result)
    IN  /\ Broadcasting(l) /\ SendResult(l, result)
        /\ ~SizeChanged(b) /\ Exhausted(b)
        /\ active' = active \ b.failed
        /\ missed' = missed \cup PassedOver(b)
        /\ loop' = [Walks(active \ b.failed) EXCEPT ![l] = Resting]
        /\ UNCHANGED client

\* RuntimeError: _create_alert catches it; the heartbeat task does not.
BreakLoop(l, result) ==
    LET b == AfterSend(l, result)
    IN  /\ Broadcasting(l) /\ SendResult(l, result)
        /\ SizeChanged(b)
        /\ missed' = missed \cup PassedOver(b)
        /\ loop' = [loop EXCEPT ![l] = [Resting EXCEPT !.at = IF l = Heart THEN "dead" ELSE "idle"]]
        /\ UNCHANGED <<client, active>>

\* start_heartbeat_task: every 30 seconds, as long as nothing was raised.
Beat ==
    /\ loop[Heart].at = "idle"
    /\ Begin(Heart, Heartbeat)
    /\ UNCHANGED <<client, active, missed>>

LoopStep(l) ==
    \E result \in {"sent", "raised"} :
        \/ \E c \in Clients : SendNext(l, c, result)
        \/ EndLoop(l, result)
        \/ BreakLoop(l, result)

StreamStep ==
    \/ \E c \in Clients : Connect(c) \/ Drop(c) \/ Disconnect(c)
    \/ \E l \in Loops : LoopStep(l)
    \/ Beat
============================================================================
