------------------------------- MODULE Cards -------------------------------
(***************************************************************************)
(* The agent cards that a search fetches for its results (engine.go,       *)
(* enrichCandidates), one goroutine per result, and the two caches they go *)
(* through (internal/card/fetch.go, card/cache.go, cache/redis.go): an LRU *)
(* list with a map in the process, and Redis.                              *)
(*                                                                         *)
(* LRUCache.Get looks the key up, reads the entry and then removes it or   *)
(* moves it to the front, under three separate locks: the list element it  *)
(* holds may meanwhile have been renewed, evicted or replaced. An element  *)
(* is a number; a number is used again when nobody refers to it.           *)
(*                                                                         *)
(* A tick is long next to a request, which has timeouts of seconds: no     *)
(* tick passes between the moment a card is found and its last use.        *)
(***************************************************************************)
EXTENDS Integers, Sequences, FiniteSets, SequencesExt

CONSTANTS
    Key,      \* entity ids
    Fetch,    \* the goroutines that run FetchCard
    MaxSize,  \* the size of the LRU cache
    TTL,      \* the time to live of both caches, in ticks
    NoKey

ASSUME CardsAssumption ==
    /\ MaxSize \in Nat \ {0} /\ TTL \in Nat \ {0}
    /\ IsFiniteSet(Fetch) /\ NoKey \notin Key

MaxElem == MaxSize + Cardinality(Fetch)  \* enough for the list and the fetches
Elem == 1..MaxElem
NoElem == 0
Old == 2 * TTL + 1     \* stands for that age and all beyond
Card == [age : 0..Old]
NoCard == [age |-> -1]

VARIABLES
    list,    \* LRUCache.eviction, front first
    items,   \* LRUCache.items: the element of a key
    entry,   \* entry[e]: key and card of an element, and its ticks to expiry
    redis,   \* redis[k]: the card of a key and its ticks to expiry
    fetch    \* fetch[f]: where a fetch is, its key, element and card

cardVars == <<list, items, entry, redis, fetch>>

NoEntryYet == [key |-> NoKey, card |-> NoCard, left |-> -1]
Idle == [at |-> "idle", key |-> NoKey, elem |-> NoElem, card |-> NoCard, src |-> "none"]
NotInRedis == [card |-> NoCard, left |-> 0]

CardsInit ==
    /\ list = << >>
    /\ items = [k \in Key |-> NoElem]
    /\ entry = [e \in Elem |-> NoEntryYet]
    /\ redis = [k \in Key |-> NotInRedis]
    /\ fetch = [f \in Fetch |-> Idle]

Listed(e) == \E i \in DOMAIN list : list[i] = e
Unlisted(e) == IF Listed(e) THEN RemoveAt(list, CHOOSE i \in DOMAIN list : list[i] = e)
                            ELSE list
InUse(e) == Listed(e) \/ \E f \in Fetch : fetch[f].elem = e
FreeElem == CHOOSE e \in Elem : ~InUse(e)
Collected == [e \in Elem |-> IF InUse(e) THEN entry[e] ELSE NoEntryYet]
At(f, where) == fetch[f].at = where
Go(f, where) == fetch' = [fetch EXCEPT ![f].at = where]
-----------------------------------------------------------------------------
(* LRUCache.Get *)

\* The look-up under the read lock.
LookUp(f, k) ==
    /\ At(f, "idle")
    /\ fetch' = [fetch EXCEPT ![f] =
          [Idle EXCEPT !.at = IF items[k] = NoElem THEN "redis" ELSE "check",
                       !.key = k, !.elem = items[k]]]
    /\ entry' = Collected
    /\ UNCHANGED <<list, items, redis>>

\* The expiry is read without a lock.
CheckExpiry(f) ==
    /\ At(f, "check")
    /\ Go(f, IF entry[fetch[f].elem].left < 0 THEN "remove" ELSE "touch")
    /\ UNCHANGED <<list, items, entry, redis>>

\* removeElement: the element leaves the list if it is still in it, and the map
\* loses the entry of its key, whichever element that is by now.
RemoveFromListOnly(e) == list' = Unlisted(e) /\ UNCHANGED items
RemoveElement(e) ==
    /\ list' = Unlisted(e)
    /\ items' = [items EXCEPT ![entry[e].key] = NoElem]

RemoveExpired(f) ==
    /\ At(f, "remove")
    /\ RemoveElement(fetch[f].elem)
    /\ fetch' = [fetch EXCEPT ![f].at = "redis", ![f].elem = NoElem]
    /\ UNCHANGED <<entry, redis>>

\* MoveToFront does nothing to an element that has left the list; the card is
\* the one the entry now has.
TouchRenews(f) ==
    /\ At(f, "touch")
    /\ entry' = [entry EXCEPT ![fetch[f].elem].left = TTL]
    /\ fetch' = [fetch EXCEPT ![f].at = "answer", ![f].card = entry[fetch[f].elem].card]
    /\ UNCHANGED <<list, items, redis>>
Touch(f) ==
    LET e == fetch[f].elem
    IN  /\ At(f, "touch")
        /\ list' = IF Listed(e) THEN <<e>> \o Unlisted(e) ELSE list
        /\ fetch' = [fetch EXCEPT ![f].at = "answer", ![f].card = entry[e].card]
        /\ UNCHANGED <<items, entry, redis>>
-----------------------------------------------------------------------------
(* LRUCache.Put *)

PutExisting(k, card) ==
    LET e == items[k]
    IN  /\ list' = IF Listed(e) THEN <<e>> \o Unlisted(e) ELSE list
        /\ entry' = [entry EXCEPT ![e].card = card, ![e].left = TTL]
        /\ UNCHANGED items

\* A new element goes to the front; the last one is evicted when the list is
\* full, with the map's entry of its key.
PutNew(k, card) ==
    LET full == Len(list) >= MaxSize
        e == FreeElem
        kept == IF full THEN Front(list) ELSE list
        rest == IF full THEN [items EXCEPT ![entry[Last(list)].key] = NoElem] ELSE items
    IN  /\ list' = <<e>> \o kept
        /\ items' = [rest EXCEPT ![k] = e]
        /\ entry' = [entry EXCEPT ![e] = [key |-> k, card |-> card, left |-> TTL]]

Put(k, card) == IF items[k] # NoElem THEN PutExisting(k, card) ELSE PutNew(k, card)
-----------------------------------------------------------------------------
(* Fetcher.FetchCard *)

\* A card that Redis has is put into the LRU cache for its own time to live.
RedisHit(f) ==
    LET r == redis[fetch[f].key]
    IN  /\ At(f, "redis") /\ r # NotInRedis
        /\ fetch' = [fetch EXCEPT ![f].at = "put", ![f].card = r.card, ![f].src = "redis"]
        /\ UNCHANGED <<list, items, entry, redis>>

\* No Redis, an error, or no such key.
RedisMiss(f) ==
    /\ At(f, "redis")
    /\ Go(f, "http")
    /\ UNCHANGED <<list, items, entry, redis>>

\* A well-known path answers with a card of this entity.
HttpAnswers(f) ==
    /\ At(f, "http")
    /\ fetch' = [fetch EXCEPT ![f].at = "put", ![f].card = [age |-> 0], ![f].src = "http"]
    /\ UNCHANGED <<list, items, entry, redis>>

\* None of the paths answers, or the card is malformed or another entity's.
HttpFails(f) ==
    /\ At(f, "http")
    /\ fetch' = [fetch EXCEPT ![f] = Idle]
    /\ UNCHANGED <<list, items, entry, redis>>

PutCard(f) ==
    /\ At(f, "put")
    /\ Put(fetch[f].key, fetch[f].card)
    /\ Go(f, IF fetch[f].src = "redis" THEN "answer" ELSE "set")
    /\ UNCHANGED redis

\* SetAgentCard, whose failure is ignored.
SetRedis(f) ==
    /\ At(f, "set")
    /\ \/ redis' = [redis EXCEPT ![fetch[f].key] = [card |-> fetch[f].card, left |-> TTL]]
       \/ UNCHANGED redis
    /\ Go(f, "answer")
    /\ UNCHANGED <<list, items, entry>>

\* enrichCandidates takes the card.
Finish(f) ==
    /\ At(f, "answer")
    /\ fetch' = [fetch EXCEPT ![f] = Idle]
    /\ UNCHANGED <<list, items, entry, redis>>

\* The process starts again: Redis keeps its keys.
RestartProcess ==
    /\ list # << >>
    /\ list' = << >>
    /\ items' = [k \in Key |-> NoElem]
    /\ entry' = [e \in Elem |-> NoEntryYet]
    /\ fetch' = [f \in Fetch |-> Idle]
    /\ UNCHANGED redis

Aged(card) == IF card = NoCard THEN card
              ELSE [age |-> IF card.age < Old THEN card.age + 1 ELSE Old]

TickCards ==
    /\ \A f \in Fetch : fetch[f].at \notin {"touch", "put", "set", "answer"}
    /\ entry' = [e \in Elem |-> [Collected[e] EXCEPT
          !.card = Aged(@), !.left = IF @ < 0 THEN @ ELSE @ - 1]]
    /\ redis' = [k \in Key |-> IF redis[k].left <= 1 THEN NotInRedis ELSE
          [card |-> Aged(redis[k].card), left |-> redis[k].left - 1]]
    /\ UNCHANGED <<list, items, fetch>>

FetchStep(f) ==
    \/ \E k \in Key : LookUp(f, k)
    \/ CheckExpiry(f)
    \/ RemoveExpired(f)
    \/ Touch(f)
    \/ RedisHit(f)
    \/ RedisMiss(f)
    \/ HttpAnswers(f)
    \/ HttpFails(f)
    \/ PutCard(f)
    \/ SetRedis(f)
    \/ Finish(f)

CardsNext == (\E f \in Fetch : FetchStep(f)) \/ RestartProcess \/ TickCards

CardsSpec == CardsInit /\ [][CardsNext]_cardVars
-----------------------------------------------------------------------------
CardsTypeOK ==
    /\ list \in Seq(Elem)
    /\ items \in [Key -> Elem \cup {NoElem}]
    /\ \A e \in Elem : /\ entry[e].key \in Key \cup {NoKey}
                       /\ entry[e].card \in Card \cup {NoCard}
                       /\ entry[e].left \in -1..TTL
    /\ \A k \in Key : \/ redis[k] = NotInRedis
                      \/ redis[k].card \in Card /\ redis[k].left \in 1..TTL
    /\ \A f \in Fetch : fetch[f].at = "answer" => fetch[f].card \in Card

\* Although Get acts on an element that others may have replaced, the map never
\* points to an element that has left the list or that holds another key: no
\* card of another entity is ever returned. The list stays within its size,
\* with the elements that the map has lost counted.
IndexMatchesList ==
    /\ Len(list) <= MaxSize
    /\ IsInjective(list)
    /\ \A k \in Key : items[k] # NoElem => Listed(items[k]) /\ entry[items[k]].key = k

\* A search shows no card that was fetched more than twice the time to live ago:
\* once in Redis, and once more in the LRU cache that a Redis hit fills.
CardsAreRecent ==
    \A f \in Fetch : At(f, "answer") => fetch[f].card.age <= 2 * TTL
=============================================================================
