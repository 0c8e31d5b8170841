----------------------------- MODULE HttpServer -----------------------------
(***************************************************************************)
(* The handlers of src/src/main.cpp, run by the threads of httplib over    *)
(* its globals.  None of them locks g_sim: `reset` replaces the simulator  *)
(* and destroys the old one while other handlers may be inside it.  Each   *)
(* g_sim-> loads the pointer, and uses what it loaded in a later step.     *)
(* (reset_sim evaluates it once for each of five symbols and two callbacks;*)
(* the symbols are one load and one use here, and so are the callbacks.)   *)
(*                                                                         *)
(* g_log_mtx is not a variable: whoever holds it only appends to the logs, *)
(* cuts, copies or clears them, waits for nothing and lets it go, so each  *)
(* of these is one step.                                                   *)
(*                                                                         *)
(* A book is abstracted to the orders it has queued: an order trades with  *)
(* any of them and may join them (OrderBook says with which, and when).    *)
(* The book keeps pointers; order_store_ owns the orders, by id, so that   *)
(* storing an order destroys the one it had stored under that id.  What    *)
(* happens once freed memory is used is not modelled: `wild` ends a run.   *)
(***************************************************************************)
EXTENDS Integers, Sequences, FiniteSets

CONSTANTS
    Threads,        \* httplib's thread pool
    Ids,            \* ids a simulator may give, 1 .. n
    Named,          \* the ids that DELETE requests name
    DefaultLimits,  \* g_limits as main sets them: a number for each field
    LimitBodies,    \* bodies of risk/limits: the fields in the order they are read
    Bad,            \* a field that does not parse
    FeedSize,       \* ticks in g_tick_feed
    Steps,          \* the n of feed/step requests
    MaxLog,         \* entries of the log at most
    MaxRequests     \* bound: requests

ASSUME FeedAssumption == FeedSize \in Nat \ {0} /\ Steps \subseteq Int
ASSUME IdsAssumption == Ids \subseteq Nat
ASSUME LimitsAssumption ==
    /\ DefaultLimits \in [DOMAIN DefaultLimits -> Int]
    /\ \A body \in LimitBodies :
          body \in Seq([name : DOMAIN DefaultLimits, value : Int \cup {Bad}])
ASSUME BoundsAssumption == MaxLog \in Nat /\ MaxRequests \in Nat

VARIABLES
    sims,           \* the simulators made so far
    g_sim, g_limits, g_feed_idx,
    g_recent,       \* g_recent_orders: for each entry the simulator and the id
    handler,        \* where each thread is in its request
    wild            \* freed memory was used

VARIABLES           \* history
    requests,       \* the number of requests received
    overlaps,       \* the kinds of requests that ran at the same time
    ticks,          \* the indices that were taken, in that order
    applied,        \* the positions in ticks that reached a simulator
    refused         \* the last risk/limits was answered with an error

vars == <<sims, g_sim, g_limits, g_feed_idx, g_recent, handler, wild,
          requests, overlaps, ticks, applied, refused>>

Nobody == "nobody"
ASSUME NobodyAssumption == Nobody \notin Threads

Idle == [kind |-> "none", at |-> "idle"]

\* What reset_sim makes of g_limits, before it adds symbols and callbacks.
Fresh(limits) ==
    [alive |-> TRUE, holder |-> Nobody,     \* mtx_
     limits |-> limits, next_oid |-> 1,
     stored |-> [id \in Ids |-> 0],         \* order_store_: the how many-th order of that id
     queued |-> {},                         \* orders in the books' queues
     listed |-> FALSE, heard |-> FALSE,     \* the books, the callbacks are there
     price |-> 0]                           \* market price: the position in ticks it is from

\* Queued orders that have been destroyed.
Dangling(sim) == {o \in sim.queued : o.copy # sim.stored[o.id]}

Init ==
    /\ sims = <<[Fresh(DefaultLimits) EXCEPT !.listed = TRUE, !.heard = TRUE]>>
    /\ g_sim = 1 /\ g_limits = DefaultLimits /\ g_feed_idx = 0
    /\ g_recent = << >>
    /\ handler = [t \in Threads |-> Idle]
    /\ wild = FALSE
    /\ requests = 0 /\ overlaps = {} /\ refused = FALSE
    /\ ticks = << >> /\ applied = {}
-----------------------------------------------------------------------------
At(t, place) == ~wild /\ handler[t].at = place
Mine(t) == handler[t].sim
Inside(t, place) == At(t, place) /\ sims[Mine(t)].alive
Goto(t, place) == handler' = [handler EXCEPT ![t].at = place]
Reply(t) == handler' = [handler EXCEPT ![t] = Idle]
Busy == {t \in Threads : handler[t] # Idle}

histories == <<requests, overlaps, ticks, applied, refused>>
globals == <<g_sim, g_limits, g_feed_idx, g_recent>>

Receive(t, request) ==
    /\ At(t, "idle")
    /\ requests < MaxRequests
    /\ requests' = requests + 1
    /\ handler' = [handler EXCEPT ![t] = request]
    /\ overlaps' = overlaps \cup {{request.kind, handler[u].kind} : u \in Busy}
    /\ UNCHANGED <<sims, globals, wild, ticks, applied, refused>>

\* g_sim-> is evaluated: the pointer, before what it points to is used.
Loads == [order |-> "id", submit |-> "check", delete |-> "cancel", tick |-> "price",
          status |-> "counters", book |-> "snapshot",
          list |-> "listing", hear |-> "hearing"]

Load(t) ==
    /\ ~wild /\ handler[t].at \in DOMAIN Loads
    /\ handler' = [handler EXCEPT ![t].at = Loads[@], ![t].sim = g_sim]
    /\ UNCHANGED <<sims, globals, wild, histories>>

\* A simulator that has been destroyed is used.
UseAfterFree(t) ==
    /\ ~wild /\ handler[t].at \in {"id", "check", "match", "log", "cancel", "price", "counters", "snapshot",
                                  "limit", "destroy", "listing", "hearing"}
    /\ ~sims[Mine(t)].alive
    /\ wild' = TRUE
    /\ UNCHANGED <<sims, globals, handler, histories>>
-----------------------------------------------------------------------------
(* POST /api/order and DELETE /api/order.                                  *)

\* Mutant of NextId: the id is one more than the number of stored orders.
NextIdFromStore(t) ==
    LET id == Cardinality({i \in Ids : sims[Mine(t)].stored[i] > 0}) + 1
    IN  /\ Inside(t, "id")
        /\ handler' = [handler EXCEPT ![t].at = "submit", ![t].id = id]
        /\ UNCHANGED <<sims, globals, wild, histories>>

NextId(t) ==
    LET id == sims[Mine(t)].next_oid
    IN  /\ Inside(t, "id")
        /\ id \in Ids
        /\ sims' = [sims EXCEPT ![Mine(t)].next_oid = @ + 1]
        /\ handler' = [handler EXCEPT ![t].at = "submit", ![t].id = id]
        /\ UNCHANGED <<globals, wild, histories>>

\* The price or the quantity does not parse.
Unreadable(t) ==
    /\ At(t, "submit")
    /\ Reply(t)
    /\ UNCHANGED <<sims, globals, wild, histories>>

\* check_order approves or rejects.
Check(t) ==
    /\ Inside(t, "check")
    /\ Goto(t, "match") \/ Reply(t)
    /\ UNCHANGED <<sims, globals, wild, histories>>

Free(t) == sims[Mine(t)].holder = Nobody

UnknownSymbol(t) ==
    /\ Inside(t, "match") /\ Free(t)
    /\ ~sims[Mine(t)].listed
    /\ Reply(t)
    /\ UNCHANGED <<sims, globals, wild, histories>>

\* Mutant of Store: the simulator's mutex is not taken.
StoreUnlocked(t, filled, partly, rests) ==
    LET id == handler[t].id
        copy == sims[Mine(t)].stored[id] + 1
    IN  /\ Inside(t, "match")
        /\ sims[Mine(t)].listed
        /\ LET after == [sims[Mine(t)] EXCEPT !.stored[id] = copy]
               own == IF rests THEN {[id |-> id, copy |-> copy]} ELSE {}
           IN  /\ sims' = [sims EXCEPT ![Mine(t)] =
                             [after EXCEPT !.holder = t, !.queued = (@ \ filled) \cup own]]
               /\ wild' = ((filled \cup partly) \cap Dangling(after) # {})
        /\ Goto(t, "log")
        /\ UNCHANGED <<globals, histories>>

\* The order replaces what was stored under its id, and is matched: it fills
\* queued orders, the last one perhaps in part, and may be queued itself.
Store(t, filled, partly, rests) ==
    LET id == handler[t].id
        copy == sims[Mine(t)].stored[id] + 1
    IN  /\ Inside(t, "match") /\ Free(t)
        /\ sims[Mine(t)].listed
        /\ LET after == [sims[Mine(t)] EXCEPT !.stored[id] = copy]
               own == IF rests THEN {[id |-> id, copy |-> copy]} ELSE {}
           IN  /\ sims' = [sims EXCEPT ![Mine(t)] =
                             [after EXCEPT !.holder = t, !.queued = (@ \ filled) \cup own]]
               /\ wild' = ((filled \cup partly) \cap Dangling(after) # {})
        /\ Goto(t, "log")
        /\ UNCHANGED <<globals, histories>>

Logged(entry) ==
    LET all == Append(g_recent, entry) IN IF Len(all) > MaxLog THEN Tail(all) ELSE all

\* Mutant of Log: the mutex is released only if the callback is there.
LogUnreleased(t) ==
    /\ Inside(t, "log")
    /\ g_recent' = IF sims[Mine(t)].heard THEN Logged([sim |-> Mine(t), id |-> handler[t].id])
                   ELSE g_recent
    /\ sims' = [sims EXCEPT ![Mine(t)].holder = IF sims[Mine(t)].heard THEN Nobody ELSE "gone"]
    /\ Reply(t)
    /\ UNCHANGED <<g_sim, g_limits, g_feed_idx, wild, histories>>

\* The callback logs the order under g_log_mtx; then mtx_ is released.
Log(t) ==
    /\ Inside(t, "log")
    /\ g_recent' = IF sims[Mine(t)].heard THEN Logged([sim |-> Mine(t), id |-> handler[t].id])
                   ELSE g_recent
    /\ sims' = [sims EXCEPT ![Mine(t)].holder = Nobody]
    /\ Reply(t)
    /\ UNCHANGED <<g_sim, g_limits, g_feed_idx, wild, histories>>

\* cancel_order finds no order of that id.  (One that was destroyed may still be
\* queued: the index lost the id with the order that replaced it.)
CancelUnknown(t) ==
    /\ Inside(t, "cancel") /\ Free(t)
    /\ {o \in sims[Mine(t)].queued : o.id = handler[t].id} \subseteq Dangling(sims[Mine(t)])
    /\ Reply(t)
    /\ UNCHANGED <<sims, globals, wild, histories>>

\* cancel_order walks the level of the order of that id: it looks at each order
\* there, and takes out those that have the id.
Cancel(t, level) ==
    LET named == {o \in sims[Mine(t)].queued : o.id = handler[t].id}
    IN  /\ Inside(t, "cancel") /\ Free(t)
        /\ level \cap named # {} /\ named \ Dangling(sims[Mine(t)]) \subseteq level
        /\ wild' = (level \cap Dangling(sims[Mine(t)]) # {})
        /\ sims' = [sims EXCEPT ![Mine(t)].holder = t, ![Mine(t)].queued = @ \ (level \cap named)]
        /\ Goto(t, "log")
        /\ UNCHANGED <<globals, histories>>
-----------------------------------------------------------------------------
(* POST /api/feed/step.                                                    *)

\* Mutant of Take: the index is set back to 0 at the end of the feed.
TakeResetting(t) ==
    LET idx == IF g_feed_idx >= FeedSize THEN 0 ELSE g_feed_idx
    IN  /\ At(t, "take") /\ handler[t].left > 0
        /\ g_feed_idx' = IF g_feed_idx >= FeedSize THEN 0 ELSE g_feed_idx + 1
        /\ ticks' = Append(ticks, idx)
        /\ handler' = [handler EXCEPT ![t].at = "tick", ![t].left = @ - 1, ![t].tick = Len(ticks')]
        /\ UNCHANGED <<sims, g_sim, g_limits, g_recent, wild, requests, overlaps, applied, refused>>

\* fetch_add, modulo the size of the feed.
Take(t) ==
    /\ At(t, "take") /\ handler[t].left > 0
    /\ g_feed_idx' = g_feed_idx + 1
    /\ ticks' = Append(ticks, g_feed_idx % FeedSize)
    /\ handler' = [handler EXCEPT ![t].at = "tick", ![t].left = @ - 1, ![t].tick = Len(ticks')]
    /\ UNCHANGED <<sims, g_sim, g_limits, g_recent, wild, requests, overlaps, applied, refused>>

\* on_tick.
OnTick(t) ==
    /\ Inside(t, "price") /\ Free(t)
    /\ sims' = [sims EXCEPT ![Mine(t)].price = handler[t].tick]
    /\ applied' = applied \cup {handler[t].tick}
    /\ Goto(t, "take")
    /\ UNCHANGED <<globals, wild, requests, overlaps, ticks, refused>>

FeedDone(t) ==
    /\ At(t, "take") /\ handler[t].left <= 0
    /\ Reply(t)
    /\ UNCHANGED <<sims, globals, wild, histories>>
-----------------------------------------------------------------------------
(* The GET requests that use g_sim.                                        *)

\* status, positions and risk/limits do not take the simulator's mutex.
Counters(t) ==
    /\ Inside(t, "counters")
    /\ Reply(t)
    /\ UNCHANGED <<sims, globals, wild, histories>>

\* get_snapshot reads the levels' totals, and symbols the books.
Snapshot(t) ==
    /\ Inside(t, "snapshot") /\ Free(t)
    /\ Reply(t)
    /\ UNCHANGED <<sims, globals, wild, histories>>
-----------------------------------------------------------------------------
(* POST /api/risk/limits: one field of g_limits at a time, without a lock. *)

Parse(t) ==
    LET f == Head(handler[t].fields)
    IN  /\ At(t, "parse") /\ handler[t].fields # << >>
        /\ IF f.value = Bad
           THEN Reply(t) /\ refused' = TRUE /\ UNCHANGED g_limits
           ELSE /\ g_limits' = [g_limits EXCEPT ![f.name] = f.value]
                /\ handler' = [handler EXCEPT ![t].fields = Tail(@)]
                /\ UNCHANGED refused
        /\ UNCHANGED <<sims, g_sim, g_feed_idx, g_recent, wild, requests, overlaps, ticks, applied>>

\* Mutant of PassLimits: g_limits was copied before its fields were assigned.
PassLimitsOld(t) ==
    /\ At(t, "parse") /\ handler[t].fields = << >>
    /\ handler' = [handler EXCEPT ![t].at = "limit", ![t].sim = g_sim]
    /\ UNCHANGED <<sims, globals, wild, histories>>

\* set_limits is given a copy of g_limits as it is now.
PassLimits(t) ==
    /\ At(t, "parse") /\ handler[t].fields = << >>
    /\ handler' = [handler EXCEPT ![t].at = "limit", ![t].sim = g_sim, ![t].limits = g_limits]
    /\ UNCHANGED <<sims, globals, wild, histories>>

SetLimits(t) ==
    /\ Inside(t, "limit")
    /\ sims' = [sims EXCEPT ![Mine(t)].limits = handler[t].limits]
    /\ refused' = FALSE
    /\ Reply(t)
    /\ UNCHANGED <<globals, wild, requests, overlaps, ticks, applied>>
-----------------------------------------------------------------------------
(* POST /api/reset.                                                        *)

\* Mutant of Clear: the log is kept.
ClearNothing(t) ==
    /\ At(t, "clear")
    /\ Goto(t, "make")
    /\ UNCHANGED <<sims, globals, wild, histories>>

Clear(t) ==
    /\ At(t, "clear")
    /\ g_recent' = << >>
    /\ Goto(t, "make")
    /\ UNCHANGED <<sims, g_sim, g_limits, g_feed_idx, wild, histories>>

\* make_unique, and the first half of the assignment: the old pointer is read.
Make(t) ==
    /\ At(t, "make")
    /\ sims' = Append(sims, Fresh(g_limits))
    /\ handler' = [handler EXCEPT ![t].at = "install", ![t].made = Len(sims'), ![t].sim = g_sim]
    /\ UNCHANGED <<globals, wild, histories>>

Install(t) ==
    /\ At(t, "install")
    /\ g_sim' = handler[t].made
    /\ Goto(t, "destroy")
    /\ UNCHANGED <<sims, g_limits, g_feed_idx, g_recent, wild, histories>>

Destroy(t) ==
    /\ Inside(t, "destroy")
    /\ sims' = [sims EXCEPT ![Mine(t)].alive = FALSE]
    /\ Goto(t, "list")
    /\ UNCHANGED <<globals, wild, histories>>

\* add_symbol for each symbol, on whatever g_sim was when it was loaded.
List(t) ==
    /\ Inside(t, "listing") /\ Free(t)
    /\ sims' = [sims EXCEPT ![Mine(t)].listed = TRUE]
    /\ Goto(t, "hear")
    /\ UNCHANGED <<globals, wild, histories>>

\* The two callbacks.
Hear(t) ==
    /\ Inside(t, "hearing")
    /\ sims' = [sims EXCEPT ![Mine(t)].heard = TRUE]
    /\ Reply(t)
    /\ UNCHANGED <<globals, wild, histories>>
-----------------------------------------------------------------------------
Requests ==
    {[kind |-> "order", at |-> "order", sim |-> 0, id |-> 0]}
        \cup {[kind |-> "cancel", at |-> "delete", sim |-> 0, id |-> id] : id \in Named}
        \cup {[kind |-> "feed", at |-> "take", sim |-> 0, left |-> n, tick |-> 0] : n \in Steps}
        \cup {[kind |-> "limits", at |-> "parse", sim |-> 0, fields |-> b, limits |-> g_limits] : b \in LimitBodies}
        \cup {[kind |-> "read", at |-> what, sim |-> 0] : what \in {"status", "book"}}
        \cup {[kind |-> "reset", at |-> "clear", sim |-> 0, made |-> 0]}

\* A thread goes on with the request it has.
Proceed(t) ==
    \/ Load(t) \/ UseAfterFree(t)
    \/ NextId(t) \/ Unreadable(t) \/ Check(t) \/ UnknownSymbol(t)
    \/ At(t, "match") /\ \E filled \in SUBSET sims[Mine(t)].queued,
                            partly \in SUBSET sims[Mine(t)].queued, rests \in BOOLEAN :
          Store(t, filled, partly, rests)
    \/ At(t, "cancel") /\ \E level \in SUBSET sims[Mine(t)].queued : Cancel(t, level)
    \/ Log(t) \/ CancelUnknown(t)
    \/ Take(t) \/ OnTick(t) \/ FeedDone(t)
    \/ Counters(t) \/ Snapshot(t)
    \/ Parse(t) \/ PassLimits(t) \/ SetLimits(t)
    \/ Clear(t) \/ Make(t) \/ Install(t) \/ Destroy(t) \/ List(t) \/ Hear(t)

Next == \E t \in Threads : (\E request \in Requests : Receive(t, request)) \/ Proceed(t)

\* A request that was begun is not left alone; nobody needs to send one.
Spec == Init /\ [][Next]_vars /\ \A t \in Threads : WF_vars(Proceed(t))
-----------------------------------------------------------------------------
(* Properties.                                                             *)

ResetOverlapped == \E pair \in overlaps : "reset" \in pair

\* Types, and mutual exclusion: a simulator's mutex is held by the one thread
\* that is about to log and leave.
TypeOK ==
    /\ g_sim \in DOMAIN sims /\ g_feed_idx \in Nat /\ wild \in BOOLEAN
    /\ Len(g_recent) <= MaxLog
    /\ \A i \in DOMAIN g_recent : g_recent[i].sim \in DOMAIN sims /\ g_recent[i].id \in Ids
    /\ \A s \in DOMAIN sims, t \in Threads :
          sims[s].holder = t <=> handler[t].at = "log" /\ Mine(t) = s
    /\ \A s \in DOMAIN sims : \A o \in sims[s].queued : o.id \in Ids

\* Orders, cancels, feed steps, limits and reads may overlap in any way: as
\* long as no reset overlaps another request, no queued order is destroyed,
\* no freed memory is used, and the log only has entries of the running
\* simulator, although every simulator's ids start at 1001.
OnlyResetIsUnsafe ==
    \/ ResetOverlapped
    \/ /\ ~wild
       /\ \A s \in DOMAIN sims : sims[s].alive => Dangling(sims[s]) = {}
       /\ \A i \in DOMAIN g_recent : g_recent[i].sim = g_sim

InHand == {handler[t].tick : t \in {u \in Threads : handler[u].at \in {"tick", "price"}}}

\* However feed steps and resets overlap, ticks are taken in the order of the
\* feed, none is skipped or repeated, and each is applied once.  (In which
\* order overlapping steps apply them is free.)
FeedTakenOnce ==
    /\ \A i \in DOMAIN ticks : ticks[i] = (i - 1) % FeedSize
    /\ DOMAIN ticks = applied \cup InHand
    /\ applied \cap InHand = {}

\* When no risk/limits or reset is under way, and none of them overlapped, the
\* running simulator has the limits of g_limits, unless the last risk/limits
\* was refused half way.
LimitsInForce ==
    (/\ ~ResetOverlapped /\ {"limits"} \notin overlaps /\ ~refused
     /\ \A t \in Threads : handler[t].kind \notin {"limits", "reset"})
        => sims[g_sim].limits = g_limits

\* Every request is answered, however the handlers wait for each other's
\* locks, unless freed memory is used: no thread is busy for ever.
Answered == \A t \in Threads : []<>(handler[t] = Idle \/ wild)

\* README.md:264 of the pointers to orders: "no dangling pointers after order
\* completion".  An id taken from the old simulator and used in the new one
\* destroys the order that was given the same id there.
NoDanglingOrders == \A s \in DOMAIN sims : sims[s].alive => Dangling(sims[s]) = {}
=============================================================================
