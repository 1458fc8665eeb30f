------------------------------ MODULE Gateway ------------------------------
(***************************************************************************)
(* What stands around the request handlers of the API: the rate limiter    *)
(* (internal/api/middleware.go) that every registration, search and claim  *)
(* passes, and the event bus (internal/events/bus.go) from which           *)
(* handleActivityStream serves its WebSocket clients.                      *)
(*                                                                         *)
(* A request that the limiter lets through publishes an event. The bus's   *)
(* read-write lock is held by a publisher while it goes round the          *)
(* subscribers; a channel is closed after its lock is given up.            *)
(***************************************************************************)
EXTENDS Naturals

CONSTANTS
    Ip,       \* clients
    Rate,     \* requests per minute
    Minute,   \* a minute, in ticks
    Handler,  \* goroutines of requests
    Stream,   \* calls of handleActivityStream, and the channel of each
    Buffer    \* the capacity of a channel; 256 in the code

ASSUME GatewayAssumption == Rate \in Nat \ {0} /\ Minute \in Nat \ {0} /\ Buffer \in Nat

NoBucket == [tokens |-> 0, since |-> 2 * Minute + 2]
Ancient == 2 * Minute + 1  \* stands for that and all longer times

VARIABLES
    limiter,   \* limiter[ip]: tokens, and ticks since lastReset
    granted,   \* history, granted[ip][t]: requests let through in this and the last t ticks
    subs,      \* Bus.subscribers
    closed,    \* the channels that have been closed
    buffered,  \* buffered[s]: the events in the channel
    visit,     \* visit[h]: the subscribers that publisher h has still to visit
    handler,   \* handler[h]: idle, publish (let through) or locked
    stream     \* stream[s]: new, open, leaving (deleted, to be closed), over

gatewayVars == <<limiter, granted, subs, closed, buffered, visit, handler, stream>>
limiterVars == <<limiter, granted>>
busVars == <<subs, closed, buffered, visit, stream>>

GatewayInit ==
    /\ limiter = [i \in Ip |-> NoBucket]
    /\ granted = [i \in Ip |-> [t \in 0..Minute |-> 0]]
    /\ subs = {} /\ closed = {}
    /\ buffered = [s \in Stream |-> 0]
    /\ visit = [h \in Handler |-> {}]
    /\ handler = [h \in Handler |-> "idle"]
    /\ stream = [s \in Stream |-> "new"]

Reading == \E h \in Handler : handler[h] = "locked"
-----------------------------------------------------------------------------
(* RateLimiter *)

Spent(b) == [b EXCEPT !.tokens = @ - 1]
FullBucket == [tokens |-> Rate - 1, since |-> 0]

Refused(b) == b # NoBucket /\ b.since <= Minute /\ b.tokens = 0
AfterAllowUnreset(b) == IF b = NoBucket THEN FullBucket ELSE Spent(b)
AfterAllow(b) == IF b = NoBucket \/ b.since > Minute THEN FullBucket ELSE Spent(b)

\* rateLimited lets the request through to its handler.
Allow(h, ip) ==
    /\ handler[h] = "idle"
    /\ ~Refused(limiter[ip])
    /\ limiter' = [limiter EXCEPT ![ip] = AfterAllow(@)]
    /\ granted' = [granted EXCEPT ![ip] = [t \in 0..Minute |-> @[t] + 1]]
    /\ handler' = [handler EXCEPT ![h] = "publish"]
    /\ UNCHANGED busVars

\* cleanupLoop drops the buckets that have not been reset for two minutes.
CleanupEarly ==
    /\ \E i \in Ip : limiter[i].since \in 1..Ancient
    /\ limiter' = [i \in Ip |-> IF limiter[i].since > 0 THEN NoBucket ELSE limiter[i]]
    /\ UNCHANGED <<granted, handler, busVars>>
Cleanup ==
    /\ \E i \in Ip : limiter[i].since = Ancient
    /\ limiter' = [i \in Ip |-> IF limiter[i].since > 2 * Minute THEN NoBucket ELSE limiter[i]]
    /\ UNCHANGED <<granted, handler, busVars>>

TickLimiter ==
    /\ limiter' = [i \in Ip |-> IF limiter[i].since < Ancient
                                  THEN [limiter[i] EXCEPT !.since = @ + 1] ELSE limiter[i]]
    /\ granted' = [i \in Ip |-> [t \in 0..Minute |-> IF t = 0 THEN 0 ELSE granted[i][t - 1]]]
    /\ UNCHANGED <<handler, busVars>>
-----------------------------------------------------------------------------
(* Bus *)

\* Subscribe and Unsubscribe take the write lock: no publisher is at work.
Subscribe(s) ==
    /\ stream[s] = "new" /\ ~Reading
    /\ subs' = subs \cup {s}
    /\ stream' = [stream EXCEPT ![s] = "open"]
    /\ UNCHANGED <<closed, buffered, visit, handler, limiterVars>>

\* The client has gone or a write to it has failed.
UnsubscribeUnlocked(s) ==
    /\ stream[s] = "open"
    /\ subs' = subs \ {s}
    /\ stream' = [stream EXCEPT ![s] = "leaving"]
    /\ UNCHANGED <<closed, buffered, visit, handler, limiterVars>>
Unsubscribe(s) ==
    /\ stream[s] = "open" /\ ~Reading
    /\ subs' = subs \ {s}
    /\ stream' = [stream EXCEPT ![s] = "leaving"]
    /\ UNCHANGED <<closed, buffered, visit, handler, limiterVars>>

CloseChannel(s) ==
    /\ stream[s] = "leaving"
    /\ closed' = closed \cup {s}
    /\ stream' = [stream EXCEPT ![s] = "over"]
    /\ UNCHANGED <<subs, buffered, visit, handler, limiterVars>>

\* Publish takes the read lock and goes round the subscribers in any order.
Publish(h) ==
    /\ handler[h] = "publish"
    /\ handler' = [handler EXCEPT ![h] = "locked"]
    /\ visit' = [visit EXCEPT ![h] = subs]
    /\ UNCHANGED <<subs, closed, buffered, stream, limiterVars>>

\* A full channel loses the event.
Send(h, s) ==
    /\ s \in visit[h]
    /\ visit' = [visit EXCEPT ![h] = @ \ {s}]
    /\ buffered' = [buffered EXCEPT ![s] = IF @ < Buffer THEN @ + 1 ELSE @]
    /\ UNCHANGED <<subs, closed, handler, stream, limiterVars>>

Published(h) ==
    /\ handler[h] = "locked" /\ visit[h] = {}
    /\ handler' = [handler EXCEPT ![h] = "idle"]
    /\ UNCHANGED <<busVars, limiterVars>>

\* The stream takes an event and writes it to its client.
WriteEvent(s) ==
    /\ stream[s] = "open" /\ buffered[s] > 0
    /\ buffered' = [buffered EXCEPT ![s] = @ - 1]
    /\ UNCHANGED <<subs, closed, visit, stream, handler, limiterVars>>

GatewayNext ==
    \/ \E h \in Handler, i \in Ip : Allow(h, i)
    \/ Cleanup
    \/ TickLimiter
    \/ \E s \in Stream : Subscribe(s) \/ Unsubscribe(s) \/ CloseChannel(s) \/ WriteEvent(s)
    \/ \E h \in Handler : Publish(h) \/ Published(h) \/ \E s \in Stream : Send(h, s)

GatewaySpec == GatewayInit /\ [][GatewayNext]_gatewayVars
-----------------------------------------------------------------------------
GatewayTypeOK ==
    /\ \A i \in Ip : limiter[i] = NoBucket
                     \/ limiter[i] \in [tokens : 0..(Rate - 1), since : 0..Ancient]
    /\ granted \in [Ip -> [0..Minute -> Nat]]
    /\ subs \in SUBSET Stream /\ closed \in SUBSET Stream
    /\ buffered \in [Stream -> 0..Buffer]
    /\ visit \in [Handler -> SUBSET Stream]
    /\ handler \in [Handler -> {"idle", "publish", "locked"}]
    /\ stream \in [Stream -> {"new", "open", "leaving", "over"}]

\* No minute, wherever it starts, lets twice the rate of requests of one client
\* through: the bucket of the client is refilled in one go, and neither that nor
\* the clean-up gives it back early.
MinuteBounded == \A i \in Ip : granted[i][Minute] < 2 * Rate

\* A publisher never has a closed channel still to visit: the send of Publish
\* would panic.
NeverSendsOnClosed ==
    \A h \in Handler : visit[h] \cap closed = {}
=============================================================================
