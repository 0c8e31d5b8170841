-------------------------- MODULE HttpServerProofs --------------------------
(***************************************************************************)
(* Proofs about HttpServer, for any number of threads and requests, any    *)
(* feed and any limits.                                                    *)
(*                                                                         *)
(* The inductive invariant says what every place of every handler relies   *)
(* on.  Seen is its key: two requests under way at the same time are known *)
(* to have overlapped, so that while no reset is known to have overlapped  *)
(* another request, a thread that is inside reset is alone, and the others *)
(* all use the running simulator.                                          *)
(***************************************************************************)
EXTENDS HttpServer, TLAPS

LimitSet == [DOMAIN DefaultLimits -> Int]
Fields == [name : DOMAIN DefaultLimits, value : Int \cup {Bad}]

Order == [id : Ids, copy : Nat]
Sim == [alive : BOOLEAN, holder : Threads \cup {Nobody}, limits : LimitSet, next_oid : Nat,
        stored : [Ids -> Nat], queued : SUBSET Order, listed : BOOLEAN, heard : BOOLEAN,
        price : Nat]

\* What a thread's request looks like, by the place where it is.
OrderCall == [kind : {"order"}, at : {"order", "id"}, sim : Nat, id : Nat]
PlacedCall == [kind : {"order"}, at : {"submit", "check", "match", "log"}, sim : Nat, id : Ids]
CancelCall == [kind : {"cancel"}, at : {"delete", "cancel"}, sim : Nat, id : Named]
CancelledCall == [kind : {"cancel"}, at : {"log"}, sim : Nat, id : Ids]
FeedCall == [kind : {"feed"}, at : {"take", "tick", "price"}, sim : Nat, left : Int, tick : Nat]
LimitsCall == [kind : {"limits"}, at : {"parse", "limit"}, sim : Nat, fields : Seq(Fields), limits : LimitSet]
ReadCall == [kind : {"read"}, at : {"status", "book", "counters", "snapshot"}, sim : Nat]
ResetCall == [kind : {"reset"}, at : {"clear", "make", "install", "destroy", "list", "listing", "hear", "hearing"},
              sim : Nat, made : Nat]

Handling ==
    {Idle} \cup OrderCall \cup PlacedCall \cup CancelCall \cup CancelledCall
        \cup FeedCall \cup LimitsCall \cup ReadCall \cup ResetCall

\* The places where a thread uses the running simulator, as long as no reset
\* gets in its way, where it has an id that is not in the store yet, and
\* where it has a tick that is not applied yet.
Using == {"id", "check", "match", "log", "cancel", "price", "counters", "snapshot", "limit",
          "listing", "hearing"}
Resetting == {"clear", "make", "install", "destroy", "list", "listing", "hear", "hearing"}
Placing == {"submit", "check", "match"}
Ticking == {"tick", "price"}

Numbers == 1 .. Len(sims)

Typed ==
    /\ sims \in Seq(Sim) /\ g_sim \in Numbers
    /\ g_limits \in LimitSet /\ g_feed_idx \in Nat
    /\ g_recent \in Seq([sim : Nat, id : Ids])
    /\ handler \in [Threads -> Handling]
    /\ wild \in BOOLEAN

\* What a thread points to exists.
Points ==
    \A t \in Threads :
        /\ handler[t].at \in Using \cup {"install", "destroy"} => handler[t].sim \in Numbers
        /\ handler[t].at = "install" => handler[t].made \in Numbers

\* A simulator's mutex is held by the thread that is about to log.
Locks ==
    \A s \in Numbers, t \in Threads :
        sims[s].holder = t <=> handler[t].at = "log" /\ handler[t].sim = s

Logs ==
    /\ Len(g_recent) <= MaxLog
    /\ \A i \in 1 .. Len(g_recent) : g_recent[i].sim \in Numbers

\* The ticks taken are in order; each has been applied or is in one hand.
Feed ==
    /\ ticks \in Seq(Nat) /\ Len(ticks) = g_feed_idx
    /\ \A i \in 1 .. Len(ticks) : ticks[i] = (i - 1) % FeedSize
    /\ applied \subseteq 1 .. Len(ticks)
    /\ \A t \in Threads : handler[t].at \in Ticking => handler[t].tick \in (1 .. Len(ticks)) \ applied
    /\ \A t, u \in Threads :
          handler[t].at \in Ticking /\ handler[u].at \in Ticking /\ handler[t].tick = handler[u].tick => t = u
    /\ \A i \in 1 .. Len(ticks) :
          i \in applied \/ \E t \in Threads : handler[t].at \in Ticking /\ handler[t].tick = i

\* Requests that are under way together have been seen to overlap.
Seen ==
    \A t, u \in Threads :
        t # u /\ handler[t] # Idle /\ handler[u] # Idle => {handler[t].kind, handler[u].kind} \in overlaps

\* Every queued order is the stored one of its id, and ids are stored in order.
Sound(S) ==
    /\ \A o \in S.queued : o.copy > 0 /\ o.copy = S.stored[o.id]
    /\ \A id \in Ids : S.stored[id] > 0 => id < S.next_oid

SafeAt(t) ==
    /\ handler[t].at \in Using \cup {"submit", "install"} => handler[t].sim = g_sim
    /\ handler[t].at \in Placing =>
          handler[t].id < sims[g_sim].next_oid /\ sims[g_sim].stored[handler[t].id] = 0
    /\ handler[t].at \in {"make", "install"} => g_recent = << >>
    /\ handler[t].at = "install" => handler[t].made # g_sim /\ sims[handler[t].made].alive
    /\ handler[t].at = "destroy" => handler[t].sim # g_sim /\ sims[handler[t].sim].alive

Safe ==
    /\ ~wild
    /\ sims[g_sim].alive
    /\ \A s \in Numbers : Sound(sims[s])
    /\ \A i \in 1 .. Len(g_recent) : g_recent[i].sim = g_sim
    /\ \A t \in Threads : SafeAt(t)
    /\ \A t, u \in Threads :
          handler[t].at \in Placing /\ handler[u].at \in Placing /\ handler[t].id = handler[u].id => t = u

InForce ==
    /\ ~refused /\ (\A t \in Threads : handler[t].kind # "limits") => sims[g_sim].limits = g_limits
    /\ \A t \in Threads :
          /\ handler[t].at = "limit" => handler[t].limits = g_limits
          /\ handler[t].at = "install" => sims[handler[t].made].limits = g_limits

HInv ==
    /\ Typed /\ Points /\ Locks /\ Logs /\ Feed /\ Seen
    /\ ~ResetOverlapped => Safe
    /\ ~ResetOverlapped /\ {"limits"} \notin overlaps => InForce

-----------------------------------------------------------------------------
(* Requests.                                                               *)

\* A handler that is at a place has the request of that place.
LEMMA Shapes ==
    ASSUME NEW h \in Handling
    PROVE  /\ h.at \in {"order", "id"} => h \in OrderCall
           /\ h.at \in Placing => h \in PlacedCall
           /\ h.at = "log" => h \in PlacedCall \cup CancelledCall
           /\ h.at \in {"delete", "cancel"} => h \in CancelCall
           /\ h.at \in {"take", "tick", "price"} => h \in FeedCall
           /\ h.at \in {"parse", "limit"} => h \in LimitsCall
           /\ h.at \in {"status", "book", "counters", "snapshot"} => h \in ReadCall
           /\ h.at \in Resetting => h \in ResetCall
           /\ h.at = "idle" => h = Idle
           /\ h # Idle => h.at # "idle"
  BY DEF Handling, Idle, OrderCall, PlacedCall, CancelCall, CancelledCall, FeedCall, LimitsCall,
         ReadCall, ResetCall, Placing, Resetting

\* Idle is nowhere, and no request is of its kind.
LEMMA IdleIsNowhere ==
    /\ Idle \in Handling /\ Idle.kind = "none" /\ Idle.at = "idle"
    /\ Idle.at \notin Using \cup Placing \cup Ticking
    /\ \A h \in Handling : h # Idle => h.kind # "none"
    /\ \A h \in Handling : h.kind = "limits" <=> h.at \in {"parse", "limit"}
    /\ \A h \in Handling : h.kind = "reset" <=> h.at \in Resetting
  BY DEF Handling, Idle, OrderCall, PlacedCall, CancelCall, CancelledCall, FeedCall, LimitsCall,
         ReadCall, ResetCall, Using, Placing, Ticking, Resetting

\* A simulator is made with the limits of g_limits.
LEMMA FreshType ==
    ASSUME NEW limits \in LimitSet
    PROVE  /\ Fresh(limits) \in Sim /\ Sound(Fresh(limits))
           /\ Fresh(limits).limits = limits /\ Fresh(limits).alive /\ Fresh(limits).holder = Nobody
  BY IdsAssumption DEF Fresh, Sim, Sound

\* The fields of a simulator.
LEMMA SimFields ==
    ASSUME NEW S \in Sim
    PROVE  /\ S.alive \in BOOLEAN /\ S.holder \in Threads \cup {Nobody} /\ S.limits \in LimitSet
           /\ S.next_oid \in Nat /\ S.stored \in [Ids -> Nat] /\ S.queued \subseteq Order
           /\ S.listed \in BOOLEAN /\ S.heard \in BOOLEAN /\ S.price \in Nat
  BY DEF Sim

\* Only the thread t has moved.
Moves(t) ==
    /\ handler' \in [Threads -> Handling]
    /\ \A u \in Threads : u # t => handler'[u] = handler[u]

\* A thread is given a new request, or a new place.
LEMMA Moving ==
    ASSUME handler \in [Threads -> Handling], NEW t \in Threads, NEW g \in Handling,
           handler' = [handler EXCEPT ![t] = g]
    PROVE  Moves(t) /\ handler'[t] = g
  BY DEF Moves

\* One simulator is changed.
LEMMA SimChange ==
    ASSUME sims \in Seq(Sim), NEW s \in Numbers, NEW S \in Sim, sims' = [sims EXCEPT ![s] = S]
    PROVE  /\ sims' \in Seq(Sim) /\ Numbers' = Numbers /\ sims'[s] = S
           /\ \A r \in Numbers : r # s => sims'[r] = sims[r]
<1>1. DOMAIN sims = Numbers /\ Len(sims) \in Nat
  BY DEF Numbers
<1>2. sims' \in [Numbers -> Sim]
  BY <1>1
<1>3. sims' \in Seq(Sim) /\ Len(sims') = Len(sims)
  <2> HIDE DEF Sim
  <2> QED
    BY <1>1
<1> QED
  BY <1>1, <1>3 DEF Numbers

-----------------------------------------------------------------------------
(* What a step leaves alone.                                               *)

\* A request that goes on, or ends, overlaps with nothing new.
LEMMA SeenKept ==
    ASSUME Seen, NEW t \in Threads, Moves(t), handler[t] # Idle,
           handler'[t] = Idle \/ handler'[t].kind = handler[t].kind, UNCHANGED overlaps
    PROVE  Seen'
  BY DEF Seen, Moves

\* A step that takes and applies no tick.
LEMMA FeedKept ==
    ASSUME Feed, NEW t \in Threads, Moves(t), UNCHANGED <<ticks, applied, g_feed_idx>>,
           handler[t].at \in Ticking <=> handler'[t].at \in Ticking,
           handler[t].at \in Ticking => handler'[t].tick = handler[t].tick
    PROVE  Feed'
<1>1. \A u \in Threads : handler[u].at \in Ticking <=> handler'[u].at \in Ticking
  BY DEF Moves
<1>2. \A u \in Threads : handler[u].at \in Ticking => handler'[u].tick = handler[u].tick
  BY DEF Moves
<1>3. ticks' = ticks /\ applied' = applied /\ g_feed_idx' = g_feed_idx
  OBVIOUS
<1>4. \A u \in Threads : handler'[u].at \in Ticking => handler'[u].tick \in (1 .. Len(ticks)) \ applied
  BY <1>1, <1>2 DEF Feed
<1>5. \A u, v \in Threads :
          handler'[u].at \in Ticking /\ handler'[v].at \in Ticking /\ handler'[u].tick = handler'[v].tick => u = v
  BY <1>1, <1>2 DEF Feed
<1>6. \A i \in 1 .. Len(ticks) :
          i \in applied \/ \E u \in Threads : handler'[u].at \in Ticking /\ handler'[u].tick = i
  <2> SUFFICES ASSUME NEW i \in 1 .. Len(ticks), i \notin applied
               PROVE  \E u \in Threads : handler'[u].at \in Ticking /\ handler'[u].tick = i
    OBVIOUS
  <2>1. PICK u \in Threads : handler[u].at \in Ticking /\ handler[u].tick = i
    BY DEF Feed
  <2>2. handler'[u].at \in Ticking /\ handler'[u].tick = i
    BY <1>1, <1>2, <2>1
  <2> QED
    BY <2>2
<1>7. /\ ticks \in Seq(Nat) /\ Len(ticks) = g_feed_idx
      /\ \A i \in 1 .. Len(ticks) : ticks[i] = (i - 1) % FeedSize
      /\ applied \subseteq 1 .. Len(ticks)
  BY DEF Feed
<1> QED
  BY <1>3, <1>4, <1>5, <1>6, <1>7 DEF Feed

\* A step that takes and releases no mutex.
LEMMA LocksKept ==
    ASSUME Locks, NEW t \in Threads, Moves(t), handler[t].at # "log", handler'[t].at # "log",
           Numbers' = Numbers, \A s \in Numbers : sims'[s].holder = sims[s].holder
    PROVE  Locks'
  BY DEF Locks, Moves

\* A thread's pointers still point to simulators.
LEMMA PointsKept ==
    ASSUME Points, NEW t \in Threads, Moves(t), Numbers \subseteq Numbers',
           handler'[t].at \in Using \cup {"install", "destroy"} => handler'[t].sim \in Numbers',
           handler'[t].at = "install" => handler'[t].made \in Numbers'
    PROVE  Points'
  BY DEF Points, Moves

\* While no reset is known to overlap, a busy thread next to another one is
\* not resetting.
LEMMA NoReset ==
    ASSUME HInv, ~ResetOverlapped, NEW t \in Threads, NEW u \in Threads, t # u,
           handler[t] # Idle, handler[u] # Idle
    PROVE  handler[t].kind # "reset" /\ handler[u].kind # "reset"
  BY DEF HInv, Seen, ResetOverlapped

\* Nor do two threads assign limits at once when no two are known to.
LEMMA OneLimits ==
    ASSUME HInv, {"limits"} \notin overlaps, NEW t \in Threads, NEW u \in Threads, t # u,
           handler[t].kind = "limits"
    PROVE  handler[u].kind # "limits"
<1> SUFFICES ASSUME handler[u].kind = "limits" PROVE FALSE
  OBVIOUS
<1>1. handler[t] # Idle /\ handler[u] # Idle
  BY IdleIsNowhere
<1>2. {handler[t].kind, handler[u].kind} = {"limits"}
  OBVIOUS
<1> QED
  BY <1>1, <1>2 DEF HInv, Seen

\* The thread t moves on to g, and nothing else is changed.
QuietMove(t, g) ==
    /\ g \in Handling
    /\ handler' = [handler EXCEPT ![t] = g]
    /\ UNCHANGED <<sims, globals, wild, histories>>
    /\ handler[t].at \notin {"idle", "log"}
    /\ g.at \notin {"log", "make", "install", "destroy"}
    /\ g = Idle \/ g.kind = handler[t].kind
    /\ handler[t].kind = "limits" => g.kind = "limits"
    /\ g.at \in Using \cup {"submit"} =>
          g.sim = g_sim \/ (g.sim = handler[t].sim /\ handler[t].at \in Using)
    /\ g.at \in Placing => handler[t].at \in Placing /\ g.id = handler[t].id
    /\ g.at \in Ticking <=> handler[t].at \in Ticking
    /\ g.at \in Ticking => g.tick = handler[t].tick
    /\ g.at = "limit" => g.limits = g_limits

\* Such a step keeps the invariant.
LEMMA Quiet ==
    ASSUME HInv, NEW t \in Threads, NEW g, QuietMove(t, g)
    PROVE  HInv'
<1> USE DEF QuietMove
<1>1. handler \in [Threads -> Handling] /\ Moves(t) /\ handler'[t] = g /\ handler[t] # Idle
  BY Moving, IdleIsNowhere DEF HInv, Typed
<1>2. Typed'
  BY <1>1 DEF HInv, Typed, Moves, globals, Numbers
<1>3. Numbers' = Numbers /\ UNCHANGED <<overlaps, ticks, applied, g_feed_idx, sims, g_sim, g_recent, wild, g_limits, refused>>
  BY DEF globals, histories, Numbers
<1>4. Points'
  BY <1>1, <1>3, PointsKept DEF HInv, Typed, Points
<1>5. Locks'
  BY <1>1, <1>3, LocksKept DEF HInv
<1>6. Logs'
  BY <1>3 DEF HInv, Logs
<1>7. Feed'
  BY <1>1, <1>3, FeedKept DEF HInv
<1>8. Seen'
  BY <1>1, <1>3, SeenKept DEF HInv
<1>9. ~ResetOverlapped' => Safe'
  <2> SUFFICES ASSUME ~ResetOverlapped PROVE Safe'
    BY <1>3 DEF ResetOverlapped
  <2>1. Safe
    BY DEF HInv
  <2>2. SafeAt(t)'
    BY <1>1, <1>3, <2>1 DEF Safe, SafeAt
  <2>3. \A u \in Threads : SafeAt(u)'
    BY <1>1, <1>3, <2>1, <2>2 DEF Safe, SafeAt, Moves
  <2>4. \A u \in Threads : handler'[u].at \in Placing => handler[u].at \in Placing /\ handler'[u].id = handler[u].id
    BY <1>1 DEF Moves
  <2> QED
    BY <1>3, <2>1, <2>3, <2>4 DEF Safe, Sound
<1>10. ~ResetOverlapped' /\ {"limits"} \notin overlaps' => InForce'
  <2> SUFFICES ASSUME ~ResetOverlapped, {"limits"} \notin overlaps PROVE InForce'
    BY <1>3 DEF ResetOverlapped
  <2>1. InForce
    BY DEF HInv
  <2>2. (\A u \in Threads : handler'[u].kind # "limits") => \A u \in Threads : handler[u].kind # "limits"
    BY <1>1 DEF Moves
  <2> QED
    BY <1>1, <1>3, <2>1, <2>2 DEF InForce, Moves
<1> QED
  BY <1>2, <1>4, <1>5, <1>6, <1>7, <1>8, <1>9, <1>10 DEF HInv
-----------------------------------------------------------------------------
(* The steps that change nothing but the thread that takes them.           *)

\* Where a thread goes on once it has the pointer.
LEMMA LoadsAre ==
    /\ Loads["order"] = "id" /\ Loads["submit"] = "check" /\ Loads["delete"] = "cancel"
    /\ Loads["tick"] = "price" /\ Loads["status"] = "counters" /\ Loads["book"] = "snapshot"
    /\ Loads["list"] = "listing" /\ Loads["hear"] = "hearing"
    /\ DOMAIN Loads = {"order", "submit", "delete", "tick", "status", "book", "list", "hear"}
  BY DEF Loads

\* g_sim-> is evaluated.
LEMMA LoadStep == ASSUME HInv, NEW t \in Threads, Load(t) PROVE HInv'
<1> DEFINE h == handler[t]
           g == [h EXCEPT !.at = Loads[@], !.sim = g_sim]
<1>1. h \in Handling /\ g_sim \in Nat /\ h.at \in DOMAIN Loads
  BY LoadsAre DEF HInv, Typed, Numbers, Load
<1>2. handler' = [handler EXCEPT ![t] = g] /\ UNCHANGED <<sims, globals, wild, histories>>
  BY DEF Load
<1>3. /\ g \in Handling /\ g.kind = h.kind /\ g.sim = g_sim
      /\ g.at \in {"id", "check", "cancel", "price", "counters", "snapshot", "listing", "hearing"}
      /\ g.at \in Placing => h.at \in Placing /\ g.id = h.id
      /\ g.at \in Ticking <=> h.at \in Ticking
      /\ g.at \in Ticking => g.tick = h.tick
  <2>1. CASE h.at = "order"
    <3>1. h \in OrderCall
      BY <1>1, <2>1, Shapes
    <3>2. g \in OrderCall /\ g.kind = "order" /\ h.kind = "order" /\ g.at = "id" /\ g.sim = g_sim /\ g.id = h.id
      BY <1>1, <2>1, <3>1, LoadsAre DEF OrderCall
    <3> QED
      BY <1>1, <2>1, <3>1, <3>2 DEF OrderCall, Handling, Placing, Ticking
  <2>2. CASE h.at = "submit"
    <3>1. h \in PlacedCall
      BY <1>1, <2>2, Shapes DEF Placing
    <3>2. g \in PlacedCall /\ g.kind = "order" /\ h.kind = "order" /\ g.at = "check" /\ g.sim = g_sim /\ g.id = h.id
      BY <1>1, <2>2, <3>1, LoadsAre DEF PlacedCall
    <3> QED
      BY <1>1, <2>2, <3>1, <3>2 DEF PlacedCall, Handling, Placing, Ticking
  <2>3. CASE h.at = "delete"
    <3>1. h \in CancelCall
      BY <1>1, <2>3, Shapes
    <3>2. g \in CancelCall /\ g.kind = "cancel" /\ h.kind = "cancel" /\ g.at = "cancel" /\ g.sim = g_sim /\ g.id = h.id
      BY <1>1, <2>3, <3>1, LoadsAre DEF CancelCall
    <3> QED
      BY <1>1, <2>3, <3>1, <3>2 DEF CancelCall, Handling, Placing, Ticking
  <2>4. CASE h.at = "tick"
    <3>1. h \in FeedCall
      BY <1>1, <2>4, Shapes
    <3>2. g \in FeedCall /\ g.kind = "feed" /\ h.kind = "feed" /\ g.at = "price" /\ g.sim = g_sim /\ g.tick = h.tick
      BY <1>1, <2>4, <3>1, LoadsAre DEF FeedCall
    <3> QED
      BY <1>1, <2>4, <3>1, <3>2 DEF FeedCall, Handling, Placing, Ticking
  <2>5. CASE h.at \in {"status", "book"}
    <3>1. h \in ReadCall
      BY <1>1, <2>5, Shapes
    <3>2. g \in ReadCall /\ g.kind = "read" /\ h.kind = "read" /\ g.at \in {"counters", "snapshot"} /\ g.sim = g_sim
      BY <1>1, <2>5, <3>1, LoadsAre DEF ReadCall
    <3> QED
      BY <1>1, <2>5, <3>1, <3>2 DEF ReadCall, Handling, Placing, Ticking
  <2>6. CASE h.at \in {"list", "hear"}
    <3>1. h \in ResetCall
      BY <1>1, <2>6, Shapes DEF Resetting
    <3>2. g \in ResetCall /\ g.kind = "reset" /\ h.kind = "reset" /\ g.at \in {"listing", "hearing"} /\ g.sim = g_sim
      BY <1>1, <2>6, <3>1, LoadsAre DEF ResetCall
    <3> QED
      BY <1>1, <2>6, <3>1, <3>2 DEF ResetCall, Handling, Placing, Ticking
  <2> QED
    BY <1>1, <2>1, <2>2, <2>3, <2>4, <2>5, <2>6, LoadsAre
<1>4. /\ h.at \notin {"idle", "log"} /\ g.at \notin {"log", "make", "install", "destroy", "limit"}
      /\ h.kind = "limits" => g.kind = "limits"
  BY <1>1, <1>3, LoadsAre
<1> HIDE DEF g
<1>5. QuietMove(t, g)
  BY <1>2, <1>3, <1>4 DEF QuietMove
<1> QED
  BY <1>5, Quiet

\* A request is answered, without another effect.
LEMMA AnswerStep ==
    ASSUME HInv, NEW t \in Threads, Reply(t), UNCHANGED <<sims, globals, wild, histories>>,
           handler[t].at \in {"submit", "check", "match", "cancel", "take", "counters", "snapshot"}
    PROVE  HInv'
<1>1. handler' = [handler EXCEPT ![t] = Idle]
  BY DEF Reply
<1>2. handler[t].kind # "limits"
  BY IdleIsNowhere DEF HInv, Typed
<1>3. Idle.at \notin {"log", "make", "install", "destroy", "submit", "limit"}
  BY IdleIsNowhere
<1>4. handler[t].at \notin Ticking \cup {"idle", "log"}
  BY DEF Ticking
<1>5. QuietMove(t, Idle)
  BY <1>1, <1>2, <1>3, <1>4, IdleIsNowhere DEF QuietMove
<1> QED
  BY <1>5, Quiet

\* check_order approves the order, or the request is answered.
LEMMA CheckStep == ASSUME HInv, NEW t \in Threads, Check(t) PROVE HInv'
<1> DEFINE h == handler[t]
           g == [h EXCEPT !.at = "match"]
<1>1. h \in Handling /\ h.at = "check"
  BY DEF HInv, Typed, Check, Inside, At
<1>2. CASE Reply(t)
  BY <1>1, <1>2, AnswerStep DEF Check
<1>3. CASE Goto(t, "match")
  <2>1. handler' = [handler EXCEPT ![t] = g] /\ UNCHANGED <<sims, globals, wild, histories>>
    BY <1>3 DEF Check, Goto
  <2>2. h \in PlacedCall
    BY <1>1, Shapes DEF Placing
  <2>3. g \in PlacedCall /\ g.kind = "order" /\ h.kind = "order" /\ g.at = "match" /\ g.sim = h.sim /\ g.id = h.id
    BY <2>2 DEF PlacedCall
  <2>4. g \in Handling
    BY <2>3 DEF Handling
  <2> HIDE DEF g
  <2>5. QuietMove(t, g)
    BY <1>1, <2>1, <2>3, <2>4 DEF QuietMove, Using, Placing, Ticking
  <2> QED
    BY <2>5, Quiet
<1> QED
  BY <1>2, <1>3 DEF Check

\* set_limits is about to be given a copy of g_limits.
LEMMA PassLimitsStep == ASSUME HInv, NEW t \in Threads, PassLimits(t) PROVE HInv'
<1> DEFINE h == handler[t]
           g == [h EXCEPT !.at = "limit", !.sim = g_sim, !.limits = g_limits]
<1>1. h \in Handling /\ h.at = "parse" /\ g_sim \in Nat /\ g_limits \in LimitSet
  BY DEF HInv, Typed, PassLimits, At, Numbers
<1>2. handler' = [handler EXCEPT ![t] = g] /\ UNCHANGED <<sims, globals, wild, histories>>
  BY DEF PassLimits
<1>3. h \in LimitsCall
  BY <1>1, Shapes
<1>4. /\ g \in LimitsCall /\ g.kind = "limits" /\ h.kind = "limits" /\ g.at = "limit"
      /\ g.sim = g_sim /\ g.limits = g_limits
  <2> HIDE DEF LimitSet
  <2> QED
    BY <1>1, <1>3 DEF LimitsCall
<1>5. g \in Handling
  BY <1>4 DEF Handling
<1>6. /\ h.at \notin {"idle", "log"} /\ g.at \notin {"log", "make", "install", "destroy"}
      /\ g.at \notin Placing /\ g.at \notin Ticking /\ h.at \notin Ticking
  BY <1>1, <1>4 DEF Placing, Ticking
<1> HIDE DEF g
<1>7. QuietMove(t, g)
  BY <1>2, <1>4, <1>5, <1>6 DEF QuietMove
<1> QED
  BY <1>7, Quiet

\* Freed memory is used: by then a reset has overlapped another request.
LEMMA UseAfterFreeStep == ASSUME HInv, NEW t \in Threads, UseAfterFree(t) PROVE HInv'
<1>1. UNCHANGED <<sims, globals, handler, histories>> /\ wild' = TRUE
  BY DEF UseAfterFree
<1>2. Numbers' = Numbers /\ UNCHANGED <<sims, handler, g_sim, g_limits, g_feed_idx, g_recent, overlaps, ticks, applied, refused>>
  BY <1>1 DEF Numbers, globals, histories
<1>3. Typed' /\ Points' /\ Locks' /\ Logs' /\ Feed' /\ Seen'
  <2>0. Typed /\ Points /\ Locks /\ Logs /\ Feed /\ Seen
    BY DEF HInv
  <2>1. Typed'
    BY <1>1, <1>2, <2>0 DEF Typed
  <2>2. Points' /\ Locks'
    BY <1>2, <2>0 DEF Points, Locks
  <2>3. Logs'
    BY <1>2, <2>0 DEF Logs
  <2>4. Feed'
    BY <1>2, <2>0 DEF Feed
  <2>5. Seen'
    BY <1>2, <2>0 DEF Seen
  <2> QED
    BY <2>1, <2>2, <2>3, <2>4, <2>5
<1>4. ResetOverlapped
  <2> SUFFICES ASSUME ~ResetOverlapped PROVE FALSE
    OBVIOUS
  <2>1. Safe
    BY DEF HInv
  <2>2. handler[t].at \in Using \cup {"destroy"} /\ ~sims[handler[t].sim].alive
    BY DEF UseAfterFree, Using, Mine
  <2>3. SafeAt(t)
    BY <2>1 DEF Safe
  <2> QED
    BY <2>1, <2>2, <2>3 DEF Safe, SafeAt
<1>5. ResetOverlapped'
  BY <1>2, <1>4 DEF ResetOverlapped
<1> QED
  BY <1>3, <1>5 DEF HInv

-----------------------------------------------------------------------------
(* POST and DELETE /api/order.                                             *)

\* The running simulator is changed by a thread that uses it.
LEMMA SafeKept ==
    ASSUME HInv, Safe, Typed', NEW t \in Threads, Moves(t), handler[t] # Idle,
           UNCHANGED g_sim, ~wild', Numbers' = Numbers,
           \A s \in Numbers : sims'[s].alive = sims[s].alive /\ Sound(sims'[s]),
           \A i \in 1 .. Len(g_recent') : g_recent'[i].sim = g_sim,
           g_recent' # g_recent => \A u \in Threads : u # t => handler[u].at \notin {"make", "install"},
           SafeAt(t)',
           \A u \in Threads : u # t /\ handler[u].at \in Placing =>
               /\ handler[u].id < sims'[g_sim].next_oid /\ sims'[g_sim].stored[handler[u].id] = 0
               /\ handler'[t].at \in Placing => handler'[t].id # handler[u].id
    PROVE  Safe'
<1>1. \A u \in Threads : u # t => handler'[u] = handler[u]
  BY DEF Moves
<1>2. g_sim \in Numbers
  BY DEF HInv, Typed
<1>3. \A u \in Threads : u # t => SafeAt(u)'
  <2> SUFFICES ASSUME NEW u \in Threads, u # t PROVE SafeAt(u)'
    OBVIOUS
  <2>1. SafeAt(u) /\ handler'[u] = handler[u]
    BY <1>1 DEF Safe
  <2>2. handler[u].at = "install" => handler[u].made \in Numbers
    BY DEF HInv, Points
  <2>3. handler[u].at = "destroy" => handler[u].sim \in Numbers
    BY DEF HInv, Points
  <2> QED
    BY <2>1, <2>2, <2>3 DEF SafeAt
<1>4. \A u \in Threads : SafeAt(u)'
  BY <1>3
<1>5. \A u, v \in Threads :
          handler'[u].at \in Placing /\ handler'[v].at \in Placing /\ handler'[u].id = handler'[v].id => u = v
  BY <1>1 DEF Safe
<1>6. \A s \in Numbers' : Sound(sims[s])'
  BY DEF Sound
<1> QED
  BY <1>2, <1>4, <1>5, <1>6 DEF Safe

\* The limits in force stay when neither they nor g_limits are assigned.
LEMMA InForceKept ==
    ASSUME HInv, InForce, NEW t \in Threads, Moves(t), UNCHANGED <<g_sim, g_limits>>,
           Numbers' = Numbers, \A s \in Numbers : sims'[s].limits = sims[s].limits,
           refused => refused', handler[t].kind = "limits" => handler'[t].kind = "limits",
           handler'[t].at \notin {"limit", "install"}
    PROVE  InForce'
<1>1. \A u \in Threads : u # t => handler'[u] = handler[u]
  BY DEF Moves
<1>2. g_sim \in Numbers /\ \A u \in Threads : handler[u].at = "install" => handler[u].made \in Numbers
  BY DEF HInv, Typed, Points
<1>3. (\A u \in Threads : handler'[u].kind # "limits") => \A u \in Threads : handler[u].kind # "limits"
  BY <1>1
<1> QED
  BY <1>1, <1>2, <1>3 DEF InForce

\* One simulator is changed, and one thread moves on.
SimMove(t, g, s, S) ==
    /\ g \in Handling /\ S \in Sim /\ s \in Numbers
    /\ handler' = [handler EXCEPT ![t] = g]
    /\ sims' = [sims EXCEPT ![s] = S]
    /\ UNCHANGED <<g_sim, g_limits, g_feed_idx, overlaps>>
    /\ wild' \in BOOLEAN /\ g_recent' \in Seq([sim : Nat, id : Ids])
    /\ handler[t] # Idle
    /\ g = Idle \/ g.kind = handler[t].kind
    /\ g.at \in Using \cup {"install", "destroy"} => g.sim \in Numbers
    /\ g.at # "install"

\* What such a step does to the state.
LEMMA SimMoves ==
    ASSUME HInv, NEW t \in Threads, NEW g, NEW s, NEW S, SimMove(t, g, s, S)
    PROVE  /\ Moves(t) /\ handler'[t] = g
           /\ Numbers' = Numbers /\ sims'[s] = S
           /\ \A r \in Numbers : r # s => sims'[r] = sims[r]
           /\ Typed' /\ Points' /\ Seen'
<1>1. Moves(t) /\ handler'[t] = g
  BY Moving DEF HInv, Typed, SimMove
<1>2. /\ sims' \in Seq(Sim) /\ Numbers' = Numbers /\ sims'[s] = S
      /\ \A r \in Numbers : r # s => sims'[r] = sims[r]
  BY SimChange DEF HInv, Typed, SimMove
<1>3. Typed'
  BY <1>1, <1>2 DEF HInv, Typed, Moves, SimMove
<1>4. Points'
  BY <1>1, <1>2, PointsKept DEF HInv, SimMove
<1>5. Seen'
  BY <1>1, SeenKept DEF HInv, SimMove
<1> QED
  BY <1>1, <1>2, <1>3, <1>4, <1>5

\* next_order_id.
LEMMA NextIdStep == ASSUME HInv, NEW t \in Threads, NextId(t) PROVE HInv'
<1> DEFINE h == handler[t]
           s == h.sim
           id == sims[s].next_oid
           S == [sims[s] EXCEPT !.next_oid = @ + 1]
           g == [h EXCEPT !.at = "submit", !.id = id]
<1>1. /\ h \in Handling /\ h.at = "id" /\ s \in Numbers /\ sims[s] \in Sim /\ id \in Ids
  BY DEF HInv, Typed, Points, NextId, Inside, At, Mine, Numbers, Using
<1>2. /\ handler' = [handler EXCEPT ![t] = g] /\ sims' = [sims EXCEPT ![s] = S]
      /\ UNCHANGED <<globals, wild, histories>>
  BY DEF NextId, Mine
<1>3. UNCHANGED <<g_sim, g_limits, g_feed_idx, g_recent, wild, overlaps, ticks, applied, refused>>
  BY <1>2 DEF globals, histories
<1>4. /\ g \in Handling /\ g.kind = "order" /\ h.kind = "order" /\ g.at = "submit"
      /\ g.sim = s /\ g.id = id
  <2>1. h \in OrderCall
    BY <1>1, Shapes
  <2> QED
    BY <1>1, <2>1 DEF OrderCall, PlacedCall, Handling
<1>5. /\ S \in Sim /\ S.alive = sims[s].alive /\ S.holder = sims[s].holder /\ S.limits = sims[s].limits
      /\ S.queued = sims[s].queued /\ S.stored = sims[s].stored /\ S.next_oid = id + 1
  <2> DEFINE old == sims[s]
  <2>1. old \in Sim /\ old.next_oid + 1 \in Nat
    BY <1>1, SimFields
  <2> HIDE DEF old
  <2> QED
    BY <2>1 DEF Sim, old
<1>6. h # Idle
  BY <1>1, IdleIsNowhere
<1> HIDE DEF g, S
<1>7. SimMove(t, g, s, S)
  BY <1>1, <1>2, <1>3, <1>4, <1>5, <1>6 DEF SimMove, HInv, Typed, Using
<1>8. /\ Moves(t) /\ handler'[t] = g
      /\ Numbers' = Numbers /\ sims'[s] = S
      /\ \A r \in Numbers : r # s => sims'[r] = sims[r]
      /\ Typed' /\ Points' /\ Seen'
  BY <1>7, SimMoves
<1>9. Locks'
  BY <1>1, <1>4, <1>5, <1>8, LocksKept DEF HInv
<1>10. Logs'
  BY <1>3, <1>8 DEF HInv, Logs
<1>11. Feed'
  BY <1>1, <1>3, <1>4, <1>8, FeedKept DEF HInv, Ticking
<1>12. ~ResetOverlapped' => Safe'
  <2> SUFFICES ASSUME ~ResetOverlapped PROVE Safe'
    BY <1>3 DEF ResetOverlapped
  <2>1. Safe /\ s = g_sim /\ id \in Nat
    BY <1>1, IdsAssumption DEF HInv, Safe, SafeAt, Using
  <2>2. S.stored[id] = 0 /\ Sound(S)
    <3>1. sims[s].stored \in [Ids -> Nat] /\ Sound(sims[s])
      BY <1>1, <2>1, SimFields DEF Safe
    <3>2. \A i \in Ids : i \in Nat
      BY IdsAssumption
    <3> QED
      BY <1>1, <1>5, <2>1, <3>1, <3>2 DEF Sound
  <2>3. \A r \in Numbers : sims'[r].alive = sims[r].alive /\ Sound(sims'[r])
    BY <1>5, <1>8, <2>1, <2>2 DEF Safe
  <2>4. SafeAt(t)'
    BY <1>3, <1>4, <1>5, <1>8, <2>1, <2>2 DEF SafeAt, Using
  <2>5. ASSUME NEW u \in Threads, u # t, handler[u].at \in Placing
        PROVE  /\ handler[u].id < sims'[g_sim].next_oid /\ sims'[g_sim].stored[handler[u].id] = 0
               /\ handler'[t].id # handler[u].id
    <3>1. handler[u].id < id /\ sims[g_sim].stored[handler[u].id] = 0
      BY <2>1, <2>5 DEF Safe, SafeAt
    <3>2. handler[u].id \in Nat
      <4>1. handler[u] \in PlacedCall
        BY <2>5, Shapes DEF HInv, Typed
      <4> QED
        BY <4>1, IdsAssumption DEF PlacedCall
    <3> QED
      BY <1>4, <1>5, <1>8, <2>1, <3>1, <3>2
  <2> QED
    BY <1>3, <1>6, <1>8, <2>1, <2>3, <2>4, <2>5, SafeKept DEF Safe
<1>13. ~ResetOverlapped' /\ {"limits"} \notin overlaps' => InForce'
  <2>1. \A r \in Numbers : sims'[r].limits = sims[r].limits
    BY <1>5, <1>8
  <2> QED
    BY <1>3, <1>4, <1>8, <2>1, InForceKept DEF HInv, ResetOverlapped
<1> QED
  BY <1>8, <1>9, <1>10, <1>11, <1>12, <1>13 DEF HInv

\* add_order, as far as the callback: the id is stored for the first time, so
\* nothing queued is destroyed.
LEMMA StoreStep ==
    ASSUME HInv, NEW t \in Threads, NEW filled, NEW partly, NEW rests,
           filled \subseteq sims[Mine(t)].queued, partly \subseteq sims[Mine(t)].queued,
           Store(t, filled, partly, rests)
    PROVE  HInv'
<1> DEFINE h == handler[t]
           s == h.sim
           id == h.id
           copy == sims[s].stored[id] + 1
           after == [sims[s] EXCEPT !.stored[id] = copy]
           own == IF rests THEN {[id |-> id, copy |-> copy]} ELSE {}
           S == [after EXCEPT !.holder = t, !.queued = (@ \ filled) \cup own]
           g == [h EXCEPT !.at = "log"]
<1>1. /\ h \in Handling /\ h.at = "match" /\ s \in Numbers /\ sims[s] \in Sim
      /\ sims[s].holder = Nobody
  BY DEF HInv, Typed, Points, Store, Inside, At, Mine, Numbers, Using, Free
<1>2. /\ handler' = [handler EXCEPT ![t] = g] /\ sims' = [sims EXCEPT ![s] = S]
      /\ wild' = ((filled \cup partly) \cap Dangling(after) # {})
      /\ UNCHANGED <<globals, histories>>
  BY DEF Store, Mine, Goto
<1>3. UNCHANGED <<g_sim, g_limits, g_feed_idx, g_recent, overlaps, ticks, applied, refused>>
  BY <1>2 DEF globals, histories
<1>4. /\ g \in Handling /\ g.kind = "order" /\ h.kind = "order" /\ g.at = "log"
      /\ g.sim = s /\ g.id = id /\ id \in Ids /\ id \in Nat
  <2>1. h \in PlacedCall
    BY <1>1, Shapes DEF Placing
  <2> QED
    BY <1>1, <2>1, IdsAssumption DEF PlacedCall, Handling
<1>5. copy \in Nat /\ own \subseteq Order /\ filled \subseteq sims[s].queued /\ partly \subseteq sims[s].queued
  BY <1>1, <1>4, SimFields DEF Order, Mine
<1>6. /\ after \in Sim /\ after.alive = sims[s].alive /\ after.limits = sims[s].limits
      /\ after.queued = sims[s].queued /\ after.next_oid = sims[s].next_oid
      /\ after.stored = [sims[s].stored EXCEPT ![id] = copy]
  <2> DEFINE old == sims[s]
             stored == [old.stored EXCEPT ![id] = copy]
  <2>1. old \in Sim /\ stored \in [Ids -> Nat] /\ after = [old EXCEPT !.stored = stored]
    BY <1>1, <1>4, <1>5, SimFields
  <2> HIDE DEF old, stored, after, copy
  <2> QED
    BY <2>1 DEF Sim, old, stored
<1>7. /\ S \in Sim /\ S.alive = sims[s].alive /\ S.holder = t /\ S.limits = sims[s].limits
      /\ S.queued = (sims[s].queued \ filled) \cup own /\ S.next_oid = sims[s].next_oid
      /\ S.stored = [sims[s].stored EXCEPT ![id] = copy]
  <2> DEFINE queued == (after.queued \ filled) \cup own
  <2>1. queued \subseteq Order /\ S = [after EXCEPT !.holder = t, !.queued = queued]
    BY <1>5, <1>6, SimFields
  <2> HIDE DEF after, queued, S
  <2>2. /\ S \in Sim /\ S.alive = after.alive /\ S.holder = t /\ S.limits = after.limits
        /\ S.queued = queued /\ S.next_oid = after.next_oid /\ S.stored = after.stored
    BY <1>6, <2>1 DEF Sim
  <2> QED
    BY <1>6, <2>2 DEF queued
<1>8. h # Idle /\ wild' \in BOOLEAN
  BY <1>1, <1>2, IdleIsNowhere
<1> HIDE DEF g, S, after
<1>9. SimMove(t, g, s, S)
  BY <1>1, <1>2, <1>3, <1>4, <1>7, <1>8 DEF SimMove, HInv, Typed
<1>10. /\ Moves(t) /\ handler'[t] = g
       /\ Numbers' = Numbers /\ sims'[s] = S
       /\ \A r \in Numbers : r # s => sims'[r] = sims[r]
       /\ Typed' /\ Points' /\ Seen'
  BY <1>9, SimMoves
<1>11. Locks'
  BY <1>1, <1>4, <1>7, <1>10, NobodyAssumption DEF HInv, Locks, Moves
<1>12. Logs'
  BY <1>3, <1>10 DEF HInv, Logs
<1>13. Feed'
  BY <1>1, <1>3, <1>4, <1>10, FeedKept DEF HInv, Ticking
<1>14. ~ResetOverlapped' => Safe'
  <2> SUFFICES ASSUME ~ResetOverlapped PROVE Safe'
    BY <1>3 DEF ResetOverlapped
  <2>1. Safe /\ s = g_sim /\ sims[s].stored \in [Ids -> Nat]
    BY <1>1, SimFields DEF HInv, Safe, SafeAt, Using
  <2>2. id < sims[s].next_oid /\ sims[s].stored[id] = 0 /\ copy = 1
    BY <1>1, <2>1 DEF Safe, SafeAt, Placing
  <2>3. \A o \in sims[s].queued : o.copy > 0 /\ o.copy = sims[s].stored[o.id] /\ o.id \in Ids /\ o.id # id
    <3>1. Sound(sims[s]) /\ sims[s].queued \subseteq Order
      BY <1>1, <2>1, SimFields DEF Safe
    <3> QED
      BY <2>1, <2>2, <3>1 DEF Sound, Order
  <2>4. \A i \in Ids : S.stored[i] = IF i = id THEN 1 ELSE sims[s].stored[i]
    BY <1>4, <1>7, <2>1, <2>2
  <2>5. Sound(S)
    <3>1. \A o \in own : o.copy = 1 /\ o.id = id
      BY <2>2
    <3>2. ASSUME NEW o \in S.queued PROVE o.copy > 0 /\ o.copy = S.stored[o.id]
      <4>1. CASE o \in own
        <5>1. o.copy = 1 /\ o.id = id
          BY <3>1, <4>1
        <5>2. S.stored[id] = 1
          BY <1>4, <2>4
        <5> QED
          BY <5>1, <5>2
      <4>2. CASE o \notin own
        <5>1. o \in sims[s].queued
          BY <1>7, <4>2
        <5>2. o.copy > 0 /\ o.copy = sims[s].stored[o.id] /\ o.id \in Ids /\ o.id # id
          BY <2>3, <5>1
        <5>3. S.stored[o.id] = sims[s].stored[o.id]
          BY <2>4, <5>2
        <5> QED
          BY <5>2, <5>3
      <4> QED
        BY <4>1, <4>2
    <3>3. \A i \in Ids : S.stored[i] > 0 => i < S.next_oid
      <4>1. Sound(sims[s])
        BY <1>1, <2>1 DEF Safe
      <4> QED
        BY <1>7, <2>2, <2>4, <4>1 DEF Sound
    <3> QED
      BY <3>2, <3>3 DEF Sound
  <2>6. ~wild'
    <3>1. \A o \in filled \cup partly : o.copy = after.stored[o.id]
      BY <1>5, <1>6, <2>1, <2>3
    <3> QED
      BY <1>2, <3>1 DEF Dangling
  <2>7. \A r \in Numbers : sims'[r].alive = sims[r].alive /\ Sound(sims'[r])
    BY <1>7, <1>10, <2>1, <2>5 DEF Safe
  <2>8. SafeAt(t)'
    BY <1>3, <1>4, <1>10, <2>1 DEF SafeAt, Placing
  <2>9. ASSUME NEW u \in Threads, u # t, handler[u].at \in Placing
        PROVE  handler[u].id < sims'[g_sim].next_oid /\ sims'[g_sim].stored[handler[u].id] = 0
    <3>1. handler[u].id < sims[s].next_oid /\ sims[s].stored[handler[u].id] = 0
      BY <2>1, <2>9 DEF Safe, SafeAt
    <3>2. handler[u].id # id
      BY <1>1, <2>1, <2>9 DEF Safe, Placing
    <3>3. handler[u].id \in Ids
      <4>1. handler[u] \in PlacedCall
        BY <2>9, Shapes DEF HInv, Typed
      <4> QED
        BY <4>1 DEF PlacedCall
    <3> QED
      BY <1>7, <1>10, <2>1, <2>4, <3>1, <3>2, <3>3
  <2>10. handler'[t].at \notin Placing
    BY <1>4, <1>10 DEF Placing
  <2>11. /\ \A i \in 1 .. Len(g_recent') : g_recent'[i].sim = g_sim
         /\ UNCHANGED g_recent
    BY <1>3, <2>1 DEF Safe
  <2> HIDE DEF own, copy
  <2> QED
    BY <1>3, <1>8, <1>10, <2>1, <2>6, <2>7, <2>8, <2>9, <2>10, <2>11, SafeKept
<1>15. ~ResetOverlapped' /\ {"limits"} \notin overlaps' => InForce'
  <2>1. \A r \in Numbers : sims'[r].limits = sims[r].limits
    BY <1>7, <1>10
  <2> QED
    BY <1>3, <1>4, <1>10, <2>1, InForceKept DEF HInv, ResetOverlapped
<1> HIDE DEF own, copy
<1> QED
  BY <1>10, <1>11, <1>12, <1>13, <1>14, <1>15 DEF HInv
\* The log after one more entry.
LEMMA LoggedIs ==
    ASSUME NEW E, g_recent \in Seq(E), Len(g_recent) <= MaxLog, NEW e \in E
    PROVE  /\ Logged(e) \in Seq(E) /\ Len(Logged(e)) <= MaxLog
           /\ \A i \in 1 .. Len(Logged(e)) :
                 Logged(e)[i] = e \/ \E j \in 1 .. Len(g_recent) : Logged(e)[i] = g_recent[j]
<1> DEFINE all == Append(g_recent, e)
           n == Len(g_recent)
<1>1. /\ n \in Nat /\ MaxLog \in Nat /\ all \in Seq(E) /\ Len(all) = n + 1
      /\ all[n + 1] = e /\ \A i \in 1 .. n : all[i] = g_recent[i]
  BY BoundsAssumption
<1>2. \A i \in 1 .. n + 1 : i \in 1 .. n \/ i = n + 1
  BY <1>1
<1>3. Tail(all) \in Seq(E) /\ Len(Tail(all)) = n /\ \A i \in 1 .. n : Tail(all)[i] = all[i + 1]
  <2>1. all # << >>
    BY <1>1
  <2> HIDE DEF all, n
  <2> QED
    BY <1>1, <2>1
<1>4. \A i \in 1 .. n : i + 1 \in 1 .. n + 1
  BY <1>1
<1>5. Logged(e) = IF n + 1 > MaxLog THEN Tail(all) ELSE all
  BY <1>1 DEF Logged
<1> HIDE DEF all, n
<1>6. CASE n + 1 > MaxLog
  BY <1>1, <1>2, <1>3, <1>4, <1>5, <1>6 DEF n
<1>7. CASE ~(n + 1 > MaxLog)
  BY <1>1, <1>2, <1>5, <1>7 DEF n
<1> QED
  BY <1>6, <1>7

\* The callback logs the order, and the mutex is released.
LEMMA LogStep == ASSUME HInv, NEW t \in Threads, Log(t) PROVE HInv'
<1> DEFINE h == handler[t]
           s == h.sim
           e == [sim |-> s, id |-> h.id]
           S == [sims[s] EXCEPT !.holder = Nobody]
<1>1. h \in Handling /\ h.at = "log" /\ s \in Numbers /\ sims[s] \in Sim /\ h # Idle
  BY IdleIsNowhere DEF HInv, Typed, Points, Log, Inside, At, Mine, Numbers, Using
<1>2. /\ handler' = [handler EXCEPT ![t] = Idle] /\ sims' = [sims EXCEPT ![s] = S]
      /\ g_recent' = IF sims[s].heard THEN Logged(e) ELSE g_recent
      /\ UNCHANGED <<g_sim, g_limits, g_feed_idx, wild, histories>>
  BY DEF Log, Mine, Reply
<1>3. UNCHANGED <<g_sim, g_limits, g_feed_idx, wild, overlaps, ticks, applied, refused>>
  BY <1>2 DEF histories
<1>4. h.kind \in {"order", "cancel"} /\ h.id \in Ids /\ s \in Nat /\ e \in [sim : Nat, id : Ids]
  <2>1. h \in PlacedCall \cup CancelledCall
    BY <1>1, Shapes
  <2> QED
    BY <2>1 DEF PlacedCall, CancelledCall
<1>5. /\ S \in Sim /\ S.alive = sims[s].alive /\ S.holder = Nobody /\ S.limits = sims[s].limits
      /\ S.queued = sims[s].queued /\ S.stored = sims[s].stored /\ S.next_oid = sims[s].next_oid
  <2> DEFINE old == sims[s]
  <2>1. old \in Sim
    BY <1>1
  <2> HIDE DEF old
  <2> QED
    BY <2>1 DEF Sim, old
<1> HIDE DEF S, e
<1>6. /\ g_recent' \in Seq([sim : Nat, id : Ids]) /\ Len(g_recent') <= MaxLog
      /\ \A i \in 1 .. Len(g_recent') :
            g_recent'[i] = e \/ \E j \in 1 .. Len(g_recent) : g_recent'[i] = g_recent[j]
  BY <1>2, <1>4, LoggedIs DEF HInv, Typed, Logs
<1>7. SimMove(t, Idle, s, S)
  <2>1. Idle \in Handling /\ Idle.at \notin Using \cup {"install", "destroy"} /\ Idle.at # "install"
    BY IdleIsNowhere
  <2>2. UNCHANGED <<g_sim, g_limits, g_feed_idx, overlaps>> /\ wild' \in BOOLEAN
    BY <1>3 DEF HInv, Typed
  <2> QED
    BY <1>1, <1>2, <1>5, <1>6, <2>1, <2>2 DEF SimMove
<1>8. /\ Moves(t) /\ handler'[t] = Idle
      /\ Numbers' = Numbers /\ sims'[s] = S
      /\ \A r \in Numbers : r # s => sims'[r] = sims[r]
      /\ Typed' /\ Points' /\ Seen'
  BY <1>7, SimMoves
<1>9. Locks'
  BY <1>1, <1>5, <1>8, IdleIsNowhere, NobodyAssumption DEF HInv, Locks, Moves
<1>10. Logs'
  <2>1. e.sim = s
    BY DEF e
  <2>2. \A j \in 1 .. Len(g_recent) : g_recent[j].sim \in Numbers
    BY DEF HInv, Logs
  <2> QED
    BY <1>1, <1>6, <1>8, <2>1, <2>2 DEF Logs
<1>11. Feed'
  BY <1>1, <1>3, <1>8, IdleIsNowhere, FeedKept DEF HInv, Ticking
<1>12. ~ResetOverlapped' => Safe'
  <2> SUFFICES ASSUME ~ResetOverlapped PROVE Safe'
    BY <1>3 DEF ResetOverlapped
  <2>1. Safe /\ s = g_sim
    BY <1>1 DEF HInv, Safe, SafeAt, Using
  <2>2. \A r \in Numbers : sims'[r].alive = sims[r].alive /\ Sound(sims'[r])
    BY <1>5, <1>8, <2>1 DEF Safe, Sound
  <2>3. SafeAt(t)'
    BY <1>8, IdleIsNowhere DEF SafeAt
  <2>4. ASSUME NEW u \in Threads, u # t PROVE handler[u].at \notin {"make", "install"}
    <3>1. handler[u] \in Handling
      BY DEF HInv, Typed
    <3>2. handler[u].at \in {"make", "install"} => handler[u] # Idle /\ handler[u].kind = "reset"
      BY <3>1, IdleIsNowhere DEF Resetting
    <3> QED
      BY <1>1, <2>4, <3>2, NoReset
  <2>5. \A i \in 1 .. Len(g_recent') : g_recent'[i].sim = g_sim
    BY <1>6, <2>1 DEF Safe, e
  <2>6. ASSUME NEW u \in Threads, u # t, handler[u].at \in Placing
        PROVE  handler[u].id < sims'[g_sim].next_oid /\ sims'[g_sim].stored[handler[u].id] = 0
    BY <1>5, <1>8, <2>1, <2>6 DEF Safe, SafeAt
  <2>7. handler'[t].at \notin Placing /\ ~wild'
    BY <1>3, <1>8, <2>1, IdleIsNowhere DEF Safe
  <2> QED
    BY <1>1, <1>3, <1>8, <2>1, <2>2, <2>3, <2>4, <2>5, <2>6, <2>7, SafeKept
<1>13. ~ResetOverlapped' /\ {"limits"} \notin overlaps' => InForce'
  <2>1. \A r \in Numbers : sims'[r].limits = sims[r].limits
    BY <1>5, <1>8
  <2> QED
    BY <1>3, <1>4, <1>8, <2>1, IdleIsNowhere, InForceKept DEF HInv, ResetOverlapped
<1> QED
  BY <1>8, <1>9, <1>10, <1>11, <1>12, <1>13 DEF HInv

\* cancel_order: what it takes out of the queue is stored.
LEMMA CancelStep == ASSUME HInv, NEW t \in Threads, NEW level, Cancel(t, level) PROVE HInv'
<1> DEFINE h == handler[t]
           s == h.sim
           named == {o \in sims[s].queued : o.id = h.id}
           out == level \cap named
           S == [sims[s] EXCEPT !.holder = t, !.queued = @ \ out]
           g == [h EXCEPT !.at = "log"]
<1>1. /\ h \in Handling /\ h.at = "cancel" /\ s \in Numbers /\ sims[s] \in Sim /\ h # Idle
      /\ sims[s].holder = Nobody
  BY IdleIsNowhere DEF HInv, Typed, Points, Cancel, Inside, At, Mine, Numbers, Using, Free
<1>2. /\ UNCHANGED <<globals, histories>> /\ ~wild
      /\ wild' = (level \cap Dangling(sims[s]) # {})
      /\ out # {}
  BY DEF Cancel, Mine, Inside, At
<1>3. handler' = [handler EXCEPT ![t] = g] /\ sims' = [sims EXCEPT ![s] = S]
  BY DEF Cancel, Mine, Goto
<1>4. UNCHANGED <<g_sim, g_limits, g_feed_idx, g_recent, overlaps, ticks, applied, refused>>
  BY <1>2 DEF globals, histories
<1>5. h.id \in Ids
  BY <1>1, <1>2, SimFields DEF Order
<1>6. g \in Handling /\ g.kind = "cancel" /\ h.kind = "cancel" /\ g.at = "log" /\ g.sim = s
  <2>1. h \in CancelCall
    BY <1>1, Shapes
  <2> QED
    BY <1>5, <2>1 DEF CancelCall, CancelledCall, Handling
<1>7. /\ S \in Sim /\ S.alive = sims[s].alive /\ S.holder = t /\ S.limits = sims[s].limits
      /\ S.queued = sims[s].queued \ out /\ S.stored = sims[s].stored
      /\ S.next_oid = sims[s].next_oid
  <2> DEFINE old == sims[s]
             queued == old.queued \ out
  <2>1. old \in Sim /\ queued \subseteq Order /\ S = [old EXCEPT !.holder = t, !.queued = queued]
    BY <1>1, SimFields
  <2> HIDE DEF old, queued, S
  <2>2. /\ S \in Sim /\ S.alive = old.alive /\ S.holder = t /\ S.limits = old.limits
        /\ S.queued = queued /\ S.stored = old.stored /\ S.next_oid = old.next_oid
    BY <2>1 DEF Sim
  <2> QED
    BY <2>2 DEF old, queued
<1> HIDE DEF g, S, out, named
<1>8. SimMove(t, g, s, S)
  BY <1>1, <1>2, <1>3, <1>4, <1>6, <1>7 DEF SimMove, HInv, Typed
<1>9. /\ Moves(t) /\ handler'[t] = g
      /\ Numbers' = Numbers /\ sims'[s] = S
      /\ \A r \in Numbers : r # s => sims'[r] = sims[r]
      /\ Typed' /\ Points' /\ Seen'
  BY <1>8, SimMoves
<1>10. Locks'
  BY <1>1, <1>6, <1>7, <1>9, NobodyAssumption DEF HInv, Locks, Moves
<1>11. Logs'
  BY <1>4, <1>9 DEF HInv, Logs
<1>12. Feed'
  BY <1>1, <1>4, <1>6, <1>9, FeedKept DEF HInv, Ticking
<1>13. ~ResetOverlapped' => Safe'
  <2> SUFFICES ASSUME ~ResetOverlapped PROVE Safe'
    BY <1>4 DEF ResetOverlapped
  <2>1. Safe /\ s = g_sim /\ Sound(sims[s])
    BY <1>1 DEF HInv, Safe, SafeAt, Using
  <2>2. \A r \in Numbers : sims'[r].alive = sims[r].alive /\ Sound(sims'[r])
    BY <1>7, <1>9, <2>1 DEF Safe, Sound
  <2>3. SafeAt(t)'
    BY <1>4, <1>6, <1>9, <2>1 DEF SafeAt, Placing
  <2>4. ASSUME NEW u \in Threads, u # t, handler[u].at \in Placing
        PROVE  handler[u].id < sims'[g_sim].next_oid /\ sims'[g_sim].stored[handler[u].id] = 0
    BY <1>7, <1>9, <2>1, <2>4 DEF Safe, SafeAt
  <2>5. ~wild'
    BY <1>2, <2>1 DEF Dangling, Sound
  <2>6. handler'[t].at \notin Placing /\ UNCHANGED g_recent
    BY <1>4, <1>6, <1>9 DEF Placing
  <2>7. \A i \in 1 .. Len(g_recent') : g_recent'[i].sim = g_sim
    BY <2>1, <2>6 DEF Safe
  <2> QED
    BY <1>1, <1>4, <1>9, <2>1, <2>2, <2>3, <2>4, <2>5, <2>6, <2>7, SafeKept
<1>14. ~ResetOverlapped' /\ {"limits"} \notin overlaps' => InForce'
  <2>1. \A r \in Numbers : sims'[r].limits = sims[r].limits
    BY <1>7, <1>9
  <2> QED
    BY <1>4, <1>6, <1>9, <2>1, InForceKept DEF HInv, ResetOverlapped
<1> QED
  BY <1>9, <1>10, <1>11, <1>12, <1>13, <1>14 DEF HInv
-----------------------------------------------------------------------------
(* POST /api/feed/step.                                                    *)

\* A thread moves on, and no simulator is changed.
PlainMove(t, g) ==
    /\ g \in Handling
    /\ handler' = [handler EXCEPT ![t] = g]
    /\ UNCHANGED <<sims, overlaps, wild>>
    /\ g_sim' \in Numbers /\ g_limits' \in LimitSet /\ g_feed_idx' \in Nat
    /\ g_recent' \in Seq([sim : Nat, id : Ids])
    /\ handler[t].at \notin {"idle", "log"} /\ g.at # "log"
    /\ g = Idle \/ g.kind = handler[t].kind
    /\ g.at \in Using \cup {"install", "destroy"} => g.sim \in Numbers
    /\ g.at # "install"

\* What such a step does to the state.
LEMMA PlainMoves ==
    ASSUME HInv, NEW t \in Threads, NEW g, PlainMove(t, g)
    PROVE  /\ Moves(t) /\ handler'[t] = g
           /\ Numbers' = Numbers
           /\ Typed' /\ Points' /\ Locks' /\ Seen'
<1>1. Moves(t) /\ handler'[t] = g /\ Numbers' = Numbers /\ handler[t] # Idle
  BY Moving, IdleIsNowhere DEF HInv, Typed, PlainMove, Numbers
<1>2. Typed'
  BY <1>1 DEF HInv, Typed, Moves, PlainMove
<1>3. Points'
  BY <1>1, PointsKept DEF HInv, PlainMove
<1>4. Locks'
  BY <1>1, LocksKept DEF HInv, PlainMove
<1>5. Seen'
  BY <1>1, SeenKept DEF HInv, PlainMove
<1> QED
  BY <1>1, <1>2, <1>3, <1>4, <1>5
\* fetch_add: the next tick of the feed comes into one hand.
LEMMA TakeStep == ASSUME HInv, NEW t \in Threads, Take(t) PROVE HInv'
<1> DEFINE h == handler[t]
           n == Len(ticks)
           g == [h EXCEPT !.at = "tick", !.left = @ - 1, !.tick = Len(ticks')]
<1>1. /\ h \in Handling /\ h.at = "take" /\ g_feed_idx = n /\ n \in Nat /\ ticks \in Seq(Nat)
      /\ h.at \notin {"idle", "log"} /\ h # Idle
  BY IdleIsNowhere DEF HInv, Typed, Feed, Take, At
<1>2. /\ handler' = [handler EXCEPT ![t] = g]
      /\ g_feed_idx' = g_feed_idx + 1 /\ ticks' = Append(ticks, g_feed_idx % FeedSize)
      /\ UNCHANGED <<sims, g_sim, g_limits, g_recent, wild, overlaps, applied, refused>>
  BY DEF Take
<1>3. g_feed_idx % FeedSize \in Nat
  BY <1>1, FeedAssumption
<1>4. /\ ticks' \in Seq(Nat) /\ Len(ticks') = n + 1 /\ ticks'[n + 1] = n % FeedSize
      /\ \A i \in 1 .. n : ticks'[i] = ticks[i]
  BY <1>1, <1>2, <1>3
<1>5. g \in Handling /\ g.kind = "feed" /\ h.kind = "feed" /\ g.at = "tick" /\ g.tick = n + 1
  <2>1. h \in FeedCall
    BY <1>1, Shapes
  <2>2. h.left - 1 \in Int /\ Len(ticks') \in Nat
    BY <1>1, <1>4, <2>1 DEF FeedCall
  <2> QED
    BY <1>4, <2>1, <2>2 DEF FeedCall, Handling
<1> HIDE DEF g, n
<1>6. PlainMove(t, g)
  <2>1. g.at \notin Using \cup {"install", "destroy", "log"}
    BY <1>5 DEF Using
  <2> QED
    BY <1>1, <1>2, <1>5, <2>1 DEF PlainMove, HInv, Typed
<1>7. Moves(t) /\ handler'[t] = g /\ Numbers' = Numbers /\ Typed' /\ Points' /\ Locks' /\ Seen'
  BY <1>6, PlainMoves
<1>8. Logs'
  BY <1>2, <1>7 DEF HInv, Logs
<1>9. \A i \in 1 .. n + 1 : i \in 1 .. n \/ i = n + 1
  BY <1>1
<1>10. Feed'
  <2>1. Feed /\ n + 1 \notin 1 .. n /\ n + 1 \in 1 .. n + 1 /\ \A i \in 1 .. n : i \in 1 .. n + 1
    BY <1>1 DEF HInv
  <2>2. \A i \in 1 .. n + 1 : ticks'[i] = (i - 1) % FeedSize
    BY <1>1, <1>4, <1>9, <2>1 DEF Feed, n
  <2>3. \A u \in Threads : u # t => handler'[u] = handler[u]
    BY <1>7 DEF Moves
  <2>4. applied \subseteq 1 .. n /\ \A u \in Threads : handler[u].at \in Ticking => handler[u].tick \in (1 .. n) \ applied
    BY <2>1 DEF Feed, n
  <2>5. handler[t].at \notin Ticking /\ handler'[t].at \in Ticking /\ handler'[t].tick = n + 1
    BY <1>1, <1>5, <1>7 DEF Ticking
  <2>6. \A u \in Threads : handler'[u].at \in Ticking => handler'[u].tick \in (1 .. n + 1) \ applied
    BY <2>1, <2>3, <2>4, <2>5
  <2>7. \A u, v \in Threads :
          handler'[u].at \in Ticking /\ handler'[v].at \in Ticking /\ handler'[u].tick = handler'[v].tick => u = v
    BY <2>1, <2>3, <2>4, <2>5 DEF Feed
  <2>8. \A i \in 1 .. n + 1 :
          i \in applied \/ \E u \in Threads : handler'[u].at \in Ticking /\ handler'[u].tick = i
    <3> SUFFICES ASSUME NEW i \in 1 .. n + 1, i \notin applied
                 PROVE  \E u \in Threads : handler'[u].at \in Ticking /\ handler'[u].tick = i
      OBVIOUS
    <3>1. CASE i = n + 1
      BY <2>5, <3>1
    <3>2. CASE i \in 1 .. n
      <4>1. PICK u \in Threads : handler[u].at \in Ticking /\ handler[u].tick = i
        BY <2>1, <3>2 DEF Feed, n
      <4> QED
        BY <2>3, <2>5, <4>1
    <3> QED
      BY <1>9, <3>1, <3>2
  <2>9. applied' \subseteq 1 .. n + 1
    BY <1>2, <2>1, <2>4
  <2>10. g_feed_idx' = n + 1
    BY <1>1, <1>2
  <2> QED
    BY <1>2, <1>4, <2>2, <2>6, <2>7, <2>8, <2>9, <2>10 DEF Feed
<1>11. ~ResetOverlapped' => Safe'
  <2> SUFFICES ASSUME ~ResetOverlapped PROVE Safe'
    BY <1>2 DEF ResetOverlapped
  <2>1. Safe
    BY DEF HInv
  <2>2. SafeAt(t)'
    BY <1>5, <1>7 DEF SafeAt, Using, Placing
  <2>3. \A r \in Numbers : sims'[r].alive = sims[r].alive /\ Sound(sims'[r])
    BY <1>2, <2>1 DEF Safe
  <2>4. handler'[t].at \notin Placing
    BY <1>5, <1>7 DEF Placing
  <2>5. \A u \in Threads : u # t /\ handler[u].at \in Placing =>
            handler[u].id < sims'[g_sim].next_oid /\ sims'[g_sim].stored[handler[u].id] = 0
    BY <1>2, <2>1 DEF Safe, SafeAt
  <2>6. ~wild' /\ UNCHANGED <<g_sim, g_recent>> /\ \A i \in 1 .. Len(g_recent') : g_recent'[i].sim = g_sim
    BY <1>2, <2>1 DEF Safe
  <2> QED
    BY <1>1, <1>7, <2>1, <2>2, <2>3, <2>4, <2>5, <2>6, SafeKept
<1>12. ~ResetOverlapped' /\ {"limits"} \notin overlaps' => InForce'
  BY <1>2, <1>5, <1>7, InForceKept DEF HInv, ResetOverlapped
<1> QED
  BY <1>7, <1>8, <1>10, <1>11, <1>12 DEF HInv

\* on_tick: the tick in hand is applied.
LEMMA OnTickStep == ASSUME HInv, NEW t \in Threads, OnTick(t) PROVE HInv'
<1> DEFINE h == handler[t]
           s == h.sim
           S == [sims[s] EXCEPT !.price = h.tick]
           g == [h EXCEPT !.at = "take"]
<1>1. h \in Handling /\ h.at = "price" /\ s \in Numbers /\ sims[s] \in Sim /\ h # Idle
  BY IdleIsNowhere DEF HInv, Typed, Points, OnTick, Inside, At, Mine, Numbers, Using
<1>2. /\ handler' = [handler EXCEPT ![t] = g] /\ sims' = [sims EXCEPT ![s] = S]
      /\ applied' = applied \cup {h.tick}
      /\ UNCHANGED <<globals, wild, overlaps, ticks, refused>>
  BY DEF OnTick, Mine, Goto
<1>3. UNCHANGED <<g_sim, g_limits, g_feed_idx, g_recent, wild, overlaps, ticks, refused>>
  BY <1>2 DEF globals
<1>4. g \in Handling /\ g.kind = "feed" /\ h.kind = "feed" /\ g.at = "take" /\ h.tick \in Nat
  <2>1. h \in FeedCall
    BY <1>1, Shapes
  <2> QED
    BY <2>1 DEF FeedCall, Handling
<1>5. /\ S \in Sim /\ S.alive = sims[s].alive /\ S.holder = sims[s].holder /\ S.limits = sims[s].limits
      /\ S.queued = sims[s].queued /\ S.stored = sims[s].stored /\ S.next_oid = sims[s].next_oid
  <2> DEFINE old == sims[s]
  <2>1. old \in Sim
    BY <1>1
  <2> HIDE DEF old
  <2> QED
    BY <1>4, <2>1 DEF Sim, old
<1> HIDE DEF S, g
<1>6. SimMove(t, g, s, S)
  <2>1. g.at \notin Using \cup {"install", "destroy"} /\ g.at # "install"
    BY <1>4 DEF Using
  <2> QED
    BY <1>1, <1>2, <1>3, <1>4, <1>5, <2>1 DEF SimMove, HInv, Typed
<1>7. /\ Moves(t) /\ handler'[t] = g
      /\ Numbers' = Numbers /\ sims'[s] = S
      /\ \A r \in Numbers : r # s => sims'[r] = sims[r]
      /\ Typed' /\ Points' /\ Seen'
  BY <1>6, SimMoves
<1>8. Locks'
  BY <1>1, <1>4, <1>5, <1>7, LocksKept DEF HInv
<1>9. Logs'
  BY <1>3, <1>7 DEF HInv, Logs
<1>10. Feed'
  <2> DEFINE N == 1 .. Len(ticks)
  <2>1. /\ Feed /\ h.at \in Ticking /\ h.tick \in N \ applied /\ applied \subseteq N
        /\ \A u \in Threads : handler[u].at \in Ticking => handler[u].tick \in N \ applied
    BY <1>1 DEF HInv, Feed, Ticking
  <2>2. \A u \in Threads : u # t => handler'[u] = handler[u]
    BY <1>7 DEF Moves
  <2>3. handler'[t].at \notin Ticking
    BY <1>4, <1>7 DEF Ticking
  <2>4. \A u \in Threads : u # t /\ handler[u].at \in Ticking => handler[u].tick # h.tick
    BY <2>1 DEF Feed
  <2>5. \A u \in Threads : handler'[u].at \in Ticking => handler'[u].tick \in N \ applied'
    BY <1>2, <2>1, <2>2, <2>3, <2>4
  <2>6. \A u, v \in Threads :
          handler'[u].at \in Ticking /\ handler'[v].at \in Ticking /\ handler'[u].tick = handler'[v].tick => u = v
    BY <2>1, <2>2, <2>3 DEF Feed
  <2>7. \A i \in N :
          i \in applied' \/ \E u \in Threads : handler'[u].at \in Ticking /\ handler'[u].tick = i
    <3> SUFFICES ASSUME NEW i \in N, i \notin applied'
                 PROVE  \E u \in Threads : handler'[u].at \in Ticking /\ handler'[u].tick = i
      OBVIOUS
    <3>1. i \notin applied /\ i # h.tick
      BY <1>2
    <3>2. PICK u \in Threads : handler[u].at \in Ticking /\ handler[u].tick = i
      BY <2>1, <3>1 DEF Feed
    <3> QED
      BY <2>2, <3>1, <3>2
  <2>8. applied' \subseteq N
    BY <1>2, <2>1
  <2> HIDE DEF h
  <2> QED
    BY <1>3, <2>1, <2>5, <2>6, <2>7, <2>8 DEF Feed
<1>11. ~ResetOverlapped' => Safe'
  <2> SUFFICES ASSUME ~ResetOverlapped PROVE Safe'
    BY <1>3 DEF ResetOverlapped
  <2>1. Safe
    BY DEF HInv
  <2>2. SafeAt(t)'
    BY <1>4, <1>7 DEF SafeAt, Using, Placing
  <2>3. \A r \in Numbers : sims'[r].alive = sims[r].alive /\ Sound(sims'[r])
    BY <1>5, <1>7, <2>1 DEF Safe, Sound
  <2>4. handler'[t].at \notin Placing
    BY <1>4, <1>7 DEF Placing
  <2>5. g_sim \in Numbers /\ sims'[g_sim].next_oid = sims[g_sim].next_oid
        /\ sims'[g_sim].stored = sims[g_sim].stored
    BY <1>5, <1>7 DEF HInv, Typed
  <2>6. \A u \in Threads : u # t /\ handler[u].at \in Placing =>
            handler[u].id < sims'[g_sim].next_oid /\ sims'[g_sim].stored[handler[u].id] = 0
    BY <2>1, <2>5 DEF Safe, SafeAt
  <2>7. ~wild' /\ UNCHANGED <<g_sim, g_recent>> /\ \A i \in 1 .. Len(g_recent') : g_recent'[i].sim = g_sim
    BY <1>3, <2>1 DEF Safe
  <2> QED
    BY <1>1, <1>7, <2>1, <2>2, <2>3, <2>4, <2>6, <2>7, SafeKept
<1>12. ~ResetOverlapped' /\ {"limits"} \notin overlaps' => InForce'
  <2>1. \A r \in Numbers : sims'[r].limits = sims[r].limits
    BY <1>5, <1>7
  <2> QED
    BY <1>3, <1>4, <1>7, <2>1, InForceKept DEF HInv, ResetOverlapped
<1> QED
  BY <1>7, <1>8, <1>9, <1>10, <1>11, <1>12 DEF HInv

-----------------------------------------------------------------------------
(* POST /api/risk/limits.                                                  *)

\* A step that changes no simulator, id or log keeps what is safe.
LEMMA SafePlain ==
    ASSUME HInv, Safe, Typed', NEW t \in Threads, Moves(t), handler[t] # Idle, Numbers' = Numbers,
           UNCHANGED <<sims, g_sim, g_recent, wild>>, SafeAt(t)', handler'[t].at \notin Placing
    PROVE  Safe'
<1>1. \A r \in Numbers : sims'[r].alive = sims[r].alive /\ Sound(sims'[r])
  BY DEF Safe
<1>2. \A u \in Threads : u # t /\ handler[u].at \in Placing =>
            handler[u].id < sims'[g_sim].next_oid /\ sims'[g_sim].stored[handler[u].id] = 0
  BY DEF Safe, SafeAt
<1>3. ~wild' /\ \A i \in 1 .. Len(g_recent') : g_recent'[i].sim = g_sim
  BY DEF Safe
<1> QED
  BY <1>1, <1>2, <1>3, SafeKept

\* One field of g_limits is assigned, or the request is refused.
LEMMA ParseStep == ASSUME HInv, NEW t \in Threads, Parse(t) PROVE HInv'
<1> DEFINE h == handler[t]
           f == Head(h.fields)
           g == IF f.value = Bad THEN Idle ELSE [h EXCEPT !.fields = Tail(@)]
<1>1. h \in Handling /\ h.at = "parse" /\ h.at \notin {"idle", "log"} /\ h # Idle /\ h \in LimitsCall
      /\ h.kind = "limits"
  <2>1. h \in Handling /\ h.at = "parse"
    BY DEF HInv, Typed, Parse, At
  <2> QED
    BY <2>1, Shapes, IdleIsNowhere DEF LimitsCall
<1>2. f \in Fields /\ Tail(h.fields) \in Seq(Fields)
  <2>1. h.fields \in Seq(Fields) /\ h.fields # << >>
    BY <1>1 DEF LimitsCall, Parse
  <2> HIDE DEF Fields
  <2> QED
    BY <2>1
<1>3. /\ handler' = [handler EXCEPT ![t] = g]
      /\ UNCHANGED <<sims, g_sim, g_feed_idx, g_recent, wild, overlaps, ticks, applied>>
  BY DEF Parse, Reply
<1>4. g_limits' \in LimitSet
  <2>1. CASE f.value = Bad
    BY <2>1 DEF Parse, HInv, Typed
  <2>2. CASE f.value # Bad
    <3>1. f.name \in DOMAIN DefaultLimits /\ f.value \in Int
      BY <1>2, <2>2 DEF Fields
    <3>2. g_limits' = [g_limits EXCEPT ![f.name] = f.value] /\ g_limits \in LimitSet
      BY <2>2 DEF Parse, HInv, Typed
    <3> HIDE DEF f
    <3> QED
      BY <3>1, <3>2 DEF LimitSet
  <2> QED
    BY <2>1, <2>2
<1>5. g \in Handling /\ (g = Idle \/ g.kind = "limits") /\ g.at \in {"idle", "parse"}
  <2>1. CASE f.value = Bad
    BY <2>1, IdleIsNowhere
  <2>2. CASE f.value # Bad
    <3>1. g = [h EXCEPT !.fields = Tail(@)]
      BY <2>2
    <3> HIDE DEF g, f, LimitSet, Fields
    <3>2. g \in LimitsCall /\ g.at = "parse" /\ g.kind = "limits"
      BY <1>1, <1>2, <3>1 DEF LimitsCall
    <3> QED
      BY <3>2 DEF Handling
  <2> QED
    BY <2>1, <2>2
<1>6. g.at \notin Using \cup {"install", "destroy", "log"}
  BY <1>5 DEF Using
<1>7. /\ f.value = Bad => refused'
      /\ f.value # Bad => handler'[t].kind = "limits"
  <2>1. CASE f.value = Bad
    BY <2>1 DEF Parse
  <2>2. CASE f.value # Bad
    <3>1. handler'[t] = [h EXCEPT !.fields = Tail(@)]
      BY <1>3, <2>2 DEF HInv, Typed
    <3> HIDE DEF f
    <3> QED
      BY <1>1, <2>2, <3>1 DEF LimitsCall
  <2> QED
    BY <2>1, <2>2
<1>8. f.value = Bad => UNCHANGED g_limits
  BY DEF Parse
<1> HIDE DEF g, f
<1>9. PlainMove(t, g)
  BY <1>1, <1>3, <1>4, <1>5, <1>6 DEF PlainMove, HInv, Typed
<1>10. Moves(t) /\ handler'[t] = g /\ Numbers' = Numbers /\ Typed' /\ Points' /\ Locks' /\ Seen'
  BY <1>9, PlainMoves
<1>11. Logs'
  BY <1>3, <1>10 DEF HInv, Logs
<1>12. Feed'
  BY <1>1, <1>3, <1>5, <1>10, FeedKept DEF HInv, Ticking
<1>13. ~ResetOverlapped' => Safe'
  <2> SUFFICES ASSUME ~ResetOverlapped PROVE Safe'
    BY <1>3 DEF ResetOverlapped
  <2>1. SafeAt(t)' /\ handler'[t].at \notin Placing
    BY <1>5, <1>6, <1>10 DEF SafeAt, Using, Placing
  <2> QED
    BY <1>1, <1>3, <1>10, <2>1, SafePlain DEF HInv
<1>14. ~ResetOverlapped' /\ {"limits"} \notin overlaps' => InForce'
  <2> SUFFICES ASSUME ~ResetOverlapped, {"limits"} \notin overlaps PROVE InForce'
    BY <1>3 DEF ResetOverlapped
  <2>1. refused' \/ ~\A u \in Threads : handler'[u].kind # "limits"
    BY <1>7
  <2>2. ASSUME NEW u \in Threads PROVE handler'[u].at \notin {"limit", "install"}
    <3>1. CASE u = t
      BY <1>5, <1>10, <3>1
    <3>2. CASE u # t
      <4>1. handler'[u] = handler[u] /\ handler[u] \in Handling
        BY <1>10, <3>2 DEF Moves, HInv, Typed
      <4>2. handler[u].kind # "limits"
        BY <1>1, <3>2, OneLimits
      <4>3. handler[u] # Idle => handler[u].kind # "reset"
        BY <1>1, <3>2, NoReset
      <4> QED
        BY <4>1, <4>2, <4>3, IdleIsNowhere DEF Resetting
    <3> QED
      BY <3>1, <3>2
  <2> QED
    BY <2>1, <2>2 DEF InForce
<1> QED
  BY <1>10, <1>11, <1>12, <1>13, <1>14 DEF HInv

\* set_limits.
LEMMA SetLimitsStep == ASSUME HInv, NEW t \in Threads, SetLimits(t) PROVE HInv'
<1> DEFINE h == handler[t]
           s == h.sim
           S == [sims[s] EXCEPT !.limits = h.limits]
<1>1. /\ h \in Handling /\ h.at = "limit" /\ s \in Numbers /\ sims[s] \in Sim /\ h # Idle
      /\ h.limits \in LimitSet /\ h.kind = "limits"
  <2>1. h \in Handling /\ h.at = "limit" /\ s \in Numbers /\ sims[s] \in Sim
    BY DEF HInv, Typed, Points, SetLimits, Inside, At, Mine, Numbers, Using
  <2> QED
    BY <2>1, Shapes, IdleIsNowhere DEF LimitsCall
<1>2. /\ handler' = [handler EXCEPT ![t] = Idle] /\ sims' = [sims EXCEPT ![s] = S]
      /\ UNCHANGED <<globals, wild, overlaps, ticks, applied>>
  BY DEF SetLimits, Mine, Reply
<1>3. UNCHANGED <<g_sim, g_limits, g_feed_idx, g_recent, wild, overlaps, ticks, applied>>
  BY <1>2 DEF globals
<1>4. /\ S \in Sim /\ S.alive = sims[s].alive /\ S.holder = sims[s].holder /\ S.limits = h.limits
      /\ S.queued = sims[s].queued /\ S.stored = sims[s].stored /\ S.next_oid = sims[s].next_oid
  <2> DEFINE old == sims[s]
  <2>1. old \in Sim
    BY <1>1
  <2> HIDE DEF old
  <2> QED
    BY <1>1, <2>1 DEF Sim, old
<1>5. Idle \in Handling /\ Idle.at \notin Using \cup Placing \cup Ticking \cup {"install", "destroy", "log", "make"}
  BY IdleIsNowhere
<1> HIDE DEF S
<1>6. SimMove(t, Idle, s, S)
  <2>1. wild' \in BOOLEAN /\ g_recent' \in Seq([sim : Nat, id : Ids])
    BY <1>3 DEF HInv, Typed
  <2>2. Idle.at \notin Using \cup {"install", "destroy"} /\ Idle.at # "install"
    BY <1>5
  <2> QED
    BY <1>1, <1>2, <1>3, <1>4, <1>5, <2>1, <2>2 DEF SimMove
<1>7. /\ Moves(t) /\ handler'[t] = Idle
      /\ Numbers' = Numbers /\ sims'[s] = S
      /\ \A r \in Numbers : r # s => sims'[r] = sims[r]
      /\ Typed' /\ Points' /\ Seen'
  BY <1>6, SimMoves
<1>8. Locks'
  BY <1>1, <1>4, <1>5, <1>7, LocksKept DEF HInv
<1>9. Logs'
  BY <1>3, <1>7 DEF HInv, Logs
<1>10. Feed'
  BY <1>1, <1>3, <1>5, <1>7, FeedKept DEF HInv, Ticking
<1>11. ~ResetOverlapped' => Safe'
  <2> SUFFICES ASSUME ~ResetOverlapped PROVE Safe'
    BY <1>3 DEF ResetOverlapped
  <2>1. Safe
    BY DEF HInv
  <2>2. SafeAt(t)'
    BY <1>5, <1>7, IdleIsNowhere DEF SafeAt
  <2>3. \A r \in Numbers : sims'[r].alive = sims[r].alive /\ Sound(sims'[r])
    BY <1>4, <1>7, <2>1 DEF Safe, Sound
  <2>4. handler'[t].at \notin Placing
    BY <1>5, <1>7
  <2>5. /\ g_sim \in Numbers /\ sims'[g_sim].next_oid = sims[g_sim].next_oid
        /\ sims'[g_sim].stored = sims[g_sim].stored
    BY <1>4, <1>7 DEF HInv, Typed
  <2>6. \A u \in Threads : u # t /\ handler[u].at \in Placing =>
            handler[u].id < sims'[g_sim].next_oid /\ sims'[g_sim].stored[handler[u].id] = 0
    BY <2>1, <2>5 DEF Safe, SafeAt
  <2>7. ~wild' /\ UNCHANGED <<g_sim, g_recent>> /\ \A i \in 1 .. Len(g_recent') : g_recent'[i].sim = g_sim
    BY <1>3, <2>1 DEF Safe
  <2> QED
    BY <1>1, <1>7, <2>1, <2>2, <2>3, <2>4, <2>6, <2>7, SafeKept
<1>12. ~ResetOverlapped' /\ {"limits"} \notin overlaps' => InForce'
  <2> SUFFICES ASSUME ~ResetOverlapped, {"limits"} \notin overlaps PROVE InForce'
    BY <1>3 DEF ResetOverlapped
  <2>1. s = g_sim /\ h.limits = g_limits
    BY <1>1 DEF HInv, Safe, SafeAt, Using, InForce
  <2>2. sims'[g_sim].limits = g_limits
    BY <1>4, <1>7, <2>1
  <2>3. ASSUME NEW u \in Threads PROVE handler'[u].at \notin {"limit", "install"}
    <3>1. CASE u = t
      BY <1>7, <3>1, IdleIsNowhere
    <3>2. CASE u # t
      <4>1. handler'[u] = handler[u] /\ handler[u] \in Handling
        BY <1>7, <3>2 DEF Moves, HInv, Typed
      <4>2. handler[u].kind # "limits"
        BY <1>1, <3>2, OneLimits
      <4>3. handler[u] # Idle => handler[u].kind # "reset"
        BY <1>1, <3>2, NoReset
      <4> QED
        BY <4>1, <4>2, <4>3, IdleIsNowhere DEF Resetting
    <3> QED
      BY <3>1, <3>2
  <2> QED
    BY <1>3, <2>2, <2>3 DEF InForce
<1> QED
  BY <1>7, <1>8, <1>9, <1>10, <1>11, <1>12 DEF HInv
-----------------------------------------------------------------------------
(* POST /api/reset.                                                        *)

\* While no reset is known to overlap, a thread that resets is alone.
LEMMA Alone ==
    ASSUME HInv, ~ResetOverlapped, NEW t \in Threads, handler[t].kind = "reset", handler[t] # Idle,
           NEW u \in Threads, u # t
    PROVE  handler[u] = Idle
  BY NoReset

\* What is safe after a step of a reset that is alone.
LEMMA AloneSafe ==
    ASSUME HInv, ~ResetOverlapped, NEW t \in Threads, handler[t].kind = "reset", handler[t] # Idle, Moves(t),
           ~wild', sims'[g_sim'].alive, \A s \in Numbers' : Sound(sims'[s]),
           \A i \in 1 .. Len(g_recent') : g_recent'[i].sim = g_sim',
           SafeAt(t)', handler'[t].at \notin Placing
    PROVE  Safe'
<1>1. \A u \in Threads : u # t => handler'[u] = Idle
  BY Alone DEF Moves
<1>2. \A u \in Threads : u # t => handler'[u].at \notin Using \cup Placing \cup {"submit", "make", "install", "destroy"}
  BY <1>1, IdleIsNowhere
<1>3. \A u \in Threads : SafeAt(u)'
  BY <1>2 DEF SafeAt
<1>4. \A u \in Threads : handler'[u].at \notin Placing
  BY <1>2
<1>5. /\ ~wild' /\ sims'[g_sim'].alive /\ \A s \in Numbers' : Sound(sims'[s])
      /\ \A i \in 1 .. Len(g_recent') : g_recent'[i].sim = g_sim'
  OBVIOUS
<1> QED
  BY <1>3, <1>4, <1>5 DEF Safe, Sound

\* Which limits are in force after a step of a reset that is alone.
LEMMA AloneInForce ==
    ASSUME HInv, ~ResetOverlapped, NEW t \in Threads, handler[t].kind = "reset", handler[t] # Idle, Moves(t),
           ~refused' => sims'[g_sim'].limits = g_limits',
           handler'[t].at # "limit",
           handler'[t].at = "install" => sims'[handler'[t].made].limits = g_limits'
    PROVE  InForce'
<1>1. \A u \in Threads : u # t => handler'[u] = Idle
  BY Alone DEF Moves
<1>2. \A u \in Threads : u # t => handler'[u].at \notin {"limit", "install"}
  BY <1>1, IdleIsNowhere
<1>3. \A u \in Threads :
        /\ handler'[u].at = "limit" => handler'[u].limits = g_limits'
        /\ handler'[u].at = "install" => sims'[handler'[u].made].limits = g_limits'
  BY <1>2
<1> QED
  BY <1>3 DEF InForce

\* Before it: which limits are in force while a reset is alone.
LEMMA AloneLimits ==
    ASSUME HInv, ~ResetOverlapped, {"limits"} \notin overlaps,
           NEW t \in Threads, handler[t].kind = "reset", handler[t] # Idle
    PROVE  ~refused => sims[g_sim].limits = g_limits
<1>1. \A u \in Threads : handler[u].kind # "limits"
  BY Alone, IdleIsNowhere
<1> QED
  BY <1>1 DEF HInv, InForce

\* A reset goes on to its next place.
LEMMA ResetGoes ==
    ASSUME NEW h \in ResetCall, NEW p \in {"make", "destroy", "list", "hear"}, NEW g, g = [h EXCEPT !.at = p]
    PROVE  /\ g \in Handling /\ g.at = p /\ g.kind = "reset" /\ g.sim = h.sim /\ g.made = h.made
           /\ h.kind = "reset" /\ h # Idle /\ h.at \notin {"idle", "log"} \cup Ticking
           /\ g.at \notin Using \cup Placing \cup Ticking \cup {"log", "submit", "install", "limit"}
<1>1. g \in ResetCall /\ g.at = p /\ g.kind = "reset" /\ g.sim = h.sim /\ g.made = h.made
  BY DEF ResetCall
<1>2. h.kind = "reset" /\ h # Idle /\ h.at \notin {"idle", "log"} \cup Ticking
  BY DEF ResetCall, Idle, Ticking
<1>3. p \notin Using \cup Placing \cup Ticking \cup {"log", "submit", "install", "limit"}
  BY DEF Using, Placing, Ticking
<1> QED
  BY <1>1, <1>2, <1>3 DEF Handling

\* The log is cleared.
LEMMA ClearStep == ASSUME HInv, NEW t \in Threads, Clear(t) PROVE HInv'
<1> DEFINE h == handler[t]
           g == [h EXCEPT !.at = "make"]
<1>1. h \in ResetCall
  BY Shapes DEF HInv, Typed, Clear, At, Resetting
<1>2. /\ handler' = [handler EXCEPT ![t] = g] /\ g_recent' = << >>
      /\ UNCHANGED <<sims, g_sim, g_limits, g_feed_idx, wild, overlaps, ticks, applied, refused>>
  BY DEF Clear, Goto, histories
<1>3. /\ g \in Handling /\ g.at = "make" /\ g.kind = "reset" /\ g.sim = h.sim /\ g.made = h.made
      /\ h.kind = "reset" /\ h # Idle /\ h.at \notin {"idle", "log"} \cup Ticking
      /\ g.at \notin Using \cup Placing \cup Ticking \cup {"log", "submit", "install", "limit"}
  BY <1>1, ResetGoes
<1> HIDE DEF g
<1>4. PlainMove(t, g)
  BY <1>2, <1>3 DEF PlainMove, HInv, Typed
<1>5. Moves(t) /\ handler'[t] = g /\ Numbers' = Numbers /\ Typed' /\ Points' /\ Locks' /\ Seen'
  BY <1>4, PlainMoves
<1>6. Logs'
  BY <1>2, BoundsAssumption DEF Logs
<1>7. Feed'
  BY <1>2, <1>3, <1>5, FeedKept DEF HInv
<1>8. ~ResetOverlapped' => Safe'
  <2> SUFFICES ASSUME ~ResetOverlapped PROVE Safe'
    BY <1>2 DEF ResetOverlapped
  <2>1. SafeAt(t)'
    BY <1>2, <1>3, <1>5 DEF SafeAt
  <2>2. sims'[g_sim'].alive /\ ~wild' /\ \A s \in Numbers' : Sound(sims'[s])
    BY <1>2, <1>5 DEF HInv, Safe
  <2>3. \A i \in 1 .. Len(g_recent') : g_recent'[i].sim = g_sim'
    BY <1>2
  <2> QED
    BY <1>3, <1>5, <2>1, <2>2, <2>3, AloneSafe
<1>9. ~ResetOverlapped' /\ {"limits"} \notin overlaps' => InForce'
  <2> SUFFICES ASSUME ~ResetOverlapped, {"limits"} \notin overlaps PROVE InForce'
    BY <1>2 DEF ResetOverlapped
  <2>1. ~refused' => sims'[g_sim'].limits = g_limits'
    BY <1>2, <1>3, AloneLimits
  <2> QED
    BY <1>3, <1>5, <2>1, AloneInForce
<1> QED
  BY <1>5, <1>6, <1>7, <1>8, <1>9 DEF HInv

\* make_unique: the new simulator has the limits of g_limits.
LEMMA MakeStep == ASSUME HInv, NEW t \in Threads, Make(t) PROVE HInv'
<1> DEFINE h == handler[t]
           n == Len(sims)
           F == Fresh(g_limits)
           g == [h EXCEPT !.at = "install", !.made = Len(sims'), !.sim = g_sim]
<1>1. h \in Handling /\ h.at = "make" /\ h \in ResetCall /\ sims \in Seq(Sim) /\ n \in Nat /\ g_sim \in 1 .. n
  BY Shapes DEF HInv, Typed, Make, At, Numbers, Resetting
<1>2. /\ handler' = [handler EXCEPT ![t] = g] /\ sims' = Append(sims, F)
      /\ UNCHANGED <<g_sim, g_recent, g_limits, g_feed_idx, wild, overlaps, ticks, applied, refused>>
  BY DEF Make, globals, histories
<1>3. F \in Sim /\ Sound(F) /\ F.limits = g_limits /\ F.alive /\ F.holder = Nobody
  BY FreshType DEF HInv, Typed
<1> HIDE DEF F
<1>4. /\ sims' \in Seq(Sim) /\ Len(sims') = n + 1 /\ sims'[n + 1] = F
      /\ \A s \in 1 .. n : sims'[s] = sims[s]
  <2> HIDE DEF Sim
  <2> QED
    BY <1>1, <1>2, <1>3
<1>5. Numbers = 1 .. n /\ Numbers' = 1 .. n + 1 /\ Numbers \subseteq Numbers'
      /\ \A s \in Numbers' : s \in Numbers \/ s = n + 1
  BY <1>1, <1>4 DEF Numbers
<1>6. /\ g \in Handling /\ g.at = "install" /\ g.kind = "reset" /\ g.sim = g_sim /\ g.made = n + 1
      /\ h.kind = "reset" /\ h # Idle
  <2>1. n + 1 \in Nat /\ g_sim \in Nat
    BY <1>1
  <2> HIDE DEF n
  <2>2. h.kind = "reset" /\ h # Idle
    BY <1>1 DEF ResetCall, Idle
  <2>3. g \in ResetCall /\ g.at = "install" /\ g.kind = "reset" /\ g.sim = g_sim /\ g.made = n + 1
    BY <1>1, <1>4, <2>1 DEF ResetCall
  <2> QED
    BY <2>2, <2>3 DEF Handling
<1>7. /\ g.at \notin Using \cup Placing \cup Ticking \cup {"log", "make", "destroy", "limit"}
      /\ h.at \notin Ticking \cup {"log"}
  BY <1>1, <1>6 DEF Using, Placing, Ticking
<1> HIDE DEF g
<1>8. Moves(t) /\ handler'[t] = g
  BY <1>2, <1>6, Moving DEF HInv, Typed
<1>9. Typed'
  BY <1>1, <1>2, <1>4, <1>5, <1>8 DEF HInv, Typed, Moves
<1>10. Points'
  BY <1>1, <1>5, <1>6, <1>8, PointsKept DEF HInv
<1>11. Locks'
  <2>1. \A u \in Threads : handler'[u].at = "log" /\ handler'[u].sim = n + 1 => FALSE
    <3> SUFFICES ASSUME NEW u \in Threads, handler'[u].at = "log", handler'[u].sim = n + 1 PROVE FALSE
      OBVIOUS
    <3>1. u # t /\ handler[u].at = "log" /\ handler[u].sim = n + 1
      BY <1>7, <1>8 DEF Moves
    <3>2. handler[u].sim \in 1 .. n
      BY <1>5, <3>1 DEF HInv, Points, Using
    <3> QED
      BY <1>1, <3>1, <3>2
  <2>2. \A u \in Threads : sims'[n + 1].holder # u
    BY <1>3, <1>4, NobodyAssumption
  <2>3. \A s \in Numbers, u \in Threads : sims'[s].holder = u <=> handler'[u].at = "log" /\ handler'[u].sim = s
    BY <1>4, <1>5, <1>7, <1>8 DEF HInv, Locks, Moves
  <2> HIDE DEF n
  <2> QED
    BY <1>5, <2>1, <2>2, <2>3 DEF Locks
<1>12. Logs'
  BY <1>2, <1>5 DEF HInv, Logs
<1>13. Feed'
  BY <1>2, <1>7, <1>8, FeedKept DEF HInv
<1>14. Seen'
  BY <1>2, <1>6, <1>8, SeenKept DEF HInv
<1>15. ~ResetOverlapped' => Safe'
  <2> SUFFICES ASSUME ~ResetOverlapped PROVE Safe'
    BY <1>2 DEF ResetOverlapped
  <2>1. Safe /\ g_recent = << >>
    BY <1>1 DEF HInv, Safe, SafeAt
  <2>2. sims'[g_sim'] = sims[g_sim] /\ n + 1 # g_sim
    BY <1>1, <1>2, <1>4
  <2>3. SafeAt(t)'
    BY <1>2, <1>3, <1>4, <1>6, <1>7, <1>8, <2>1, <2>2 DEF SafeAt
  <2>4. sims'[g_sim'].alive /\ ~wild'
    BY <1>2, <2>1, <2>2 DEF Safe
  <2>5. \A s \in Numbers' : Sound(sims'[s])
    BY <1>3, <1>4, <1>5, <2>1 DEF Safe
  <2>6. \A i \in 1 .. Len(g_recent') : g_recent'[i].sim = g_sim'
    BY <1>2, <2>1
  <2> QED
    BY <1>6, <1>7, <1>8, <2>3, <2>4, <2>5, <2>6, AloneSafe
<1>16. ~ResetOverlapped' /\ {"limits"} \notin overlaps' => InForce'
  <2> SUFFICES ASSUME ~ResetOverlapped, {"limits"} \notin overlaps PROVE InForce'
    BY <1>2 DEF ResetOverlapped
  <2>1. ~refused' => sims'[g_sim'].limits = g_limits'
    BY <1>1, <1>2, <1>4, <1>6, AloneLimits
  <2>2. sims'[handler'[t].made].limits = g_limits'
    BY <1>2, <1>3, <1>4, <1>6, <1>8
  <2> QED
    BY <1>6, <1>7, <1>8, <2>1, <2>2, AloneInForce
<1> QED
  BY <1>9, <1>10, <1>11, <1>12, <1>13, <1>14, <1>15, <1>16 DEF HInv

\* g_sim is the new simulator.
LEMMA InstallStep == ASSUME HInv, NEW t \in Threads, Install(t) PROVE HInv'
<1> DEFINE h == handler[t]
           g == [h EXCEPT !.at = "destroy"]
<1>1. h \in ResetCall /\ h.at = "install" /\ h.made \in Numbers /\ h.sim \in Numbers
  BY Shapes DEF HInv, Typed, Points, Install, At, Resetting
<1>2. /\ handler' = [handler EXCEPT ![t] = g] /\ g_sim' = h.made
      /\ UNCHANGED <<sims, g_recent, g_limits, g_feed_idx, wild, overlaps, ticks, applied, refused>>
  BY DEF Install, Goto, histories
<1>3. /\ g \in Handling /\ g.at = "destroy" /\ g.kind = "reset" /\ g.sim = h.sim /\ g.made = h.made
      /\ h.kind = "reset" /\ h # Idle /\ h.at \notin {"idle", "log"} \cup Ticking
      /\ g.at \notin Using \cup Placing \cup Ticking \cup {"log", "submit", "install", "limit"}
  BY <1>1, ResetGoes
<1> HIDE DEF g
<1>4. PlainMove(t, g)
  BY <1>1, <1>2, <1>3 DEF PlainMove, HInv, Typed
<1>5. Moves(t) /\ handler'[t] = g /\ Numbers' = Numbers /\ Typed' /\ Points' /\ Locks' /\ Seen'
  BY <1>4, PlainMoves
<1>6. Logs'
  BY <1>2, <1>5 DEF HInv, Logs
<1>7. Feed'
  BY <1>2, <1>3, <1>5, FeedKept DEF HInv
<1>8. ~ResetOverlapped' => Safe'
  <2> SUFFICES ASSUME ~ResetOverlapped PROVE Safe'
    BY <1>2 DEF ResetOverlapped
  <2>1. Safe /\ g_recent = << >> /\ h.sim = g_sim /\ h.made # g_sim /\ sims[h.made].alive
    BY <1>1 DEF HInv, Safe, SafeAt
  <2>2. SafeAt(t)'
    BY <1>2, <1>3, <1>5, <2>1 DEF SafeAt, Safe
  <2>3. sims'[g_sim'].alive /\ ~wild' /\ \A s \in Numbers' : Sound(sims'[s])
    BY <1>2, <1>5, <2>1 DEF Safe
  <2>4. \A i \in 1 .. Len(g_recent') : g_recent'[i].sim = g_sim'
    BY <1>2, <2>1
  <2> QED
    BY <1>3, <1>5, <2>2, <2>3, <2>4, AloneSafe
<1>9. ~ResetOverlapped' /\ {"limits"} \notin overlaps' => InForce'
  <2> SUFFICES ASSUME ~ResetOverlapped, {"limits"} \notin overlaps PROVE InForce'
    BY <1>2 DEF ResetOverlapped
  <2>1. sims'[g_sim'].limits = g_limits'
    BY <1>1, <1>2 DEF HInv, InForce
  <2> QED
    BY <1>3, <1>5, <2>1, AloneInForce
<1> QED
  BY <1>5, <1>6, <1>7, <1>8, <1>9 DEF HInv

\* A step of a reset that changes the simulator s into S.
ResetMove(t, g, s, S) ==
    /\ SimMove(t, g, s, S)
    /\ UNCHANGED <<g_recent, wild, ticks, applied, refused>>
    /\ handler[t].kind = "reset" /\ handler[t].at \notin Ticking \cup {"log"}
    /\ g.at \notin Using \cup Placing \cup Ticking \cup {"log", "submit", "make", "install", "limit", "destroy"}
    /\ S.alive = sims[s].alive \/ (~ResetOverlapped => s # g_sim)
    /\ S.holder = sims[s].holder /\ S.limits = sims[s].limits
    /\ S.queued = sims[s].queued /\ S.stored = sims[s].stored /\ S.next_oid = sims[s].next_oid

\* Such a step keeps the invariant.
LEMMA ResetMoves ==
    ASSUME HInv, NEW t \in Threads, NEW g, NEW s, NEW S, ResetMove(t, g, s, S)
    PROVE  HInv'
<1>1. /\ Moves(t) /\ handler'[t] = g
      /\ Numbers' = Numbers /\ sims'[s] = S
      /\ \A r \in Numbers : r # s => sims'[r] = sims[r]
      /\ Typed' /\ Points' /\ Seen'
  BY SimMoves DEF ResetMove
<1>2. UNCHANGED <<g_sim, g_limits, g_feed_idx, overlaps, g_recent, wild, ticks, applied, refused>>
  BY DEF ResetMove, SimMove
<1>3. s \in Numbers /\ handler[t].kind = "reset" /\ handler[t] # Idle /\ g_sim \in Numbers
  BY DEF ResetMove, SimMove, HInv, Typed
<1>4. handler[t].at \notin Ticking \cup {"log"}
      /\ g.at \notin Using \cup Placing \cup Ticking \cup {"log", "submit", "make", "install", "limit", "destroy"}
  BY DEF ResetMove
<1>5. \A r \in Numbers :
         /\ sims'[r].holder = sims[r].holder /\ sims'[r].limits = sims[r].limits
         /\ Sound(sims[r]) => Sound(sims'[r])
  BY <1>1 DEF ResetMove, Sound
<1>6. Locks'
  BY <1>1, <1>4, <1>5, LocksKept DEF HInv
<1>7. Logs'
  BY <1>1, <1>2 DEF HInv, Logs
<1>8. Feed'
  BY <1>1, <1>2, <1>4, FeedKept DEF HInv
<1>9. ~ResetOverlapped' => Safe'
  <2> SUFFICES ASSUME ~ResetOverlapped PROVE Safe'
    BY <1>2 DEF ResetOverlapped
  <2>1. Safe
    BY DEF HInv
  <2>2. SafeAt(t)'
    BY <1>1, <1>4 DEF SafeAt
  <2>3. sims'[g_sim'].alive
    BY <1>1, <1>2, <1>3, <2>1 DEF Safe, ResetMove
  <2>4. ~wild' /\ \A r \in Numbers' : Sound(sims'[r])
    BY <1>1, <1>2, <1>5, <2>1 DEF Safe
  <2>5. \A i \in 1 .. Len(g_recent') : g_recent'[i].sim = g_sim'
    BY <1>2, <2>1 DEF Safe
  <2> QED
    BY <1>1, <1>3, <1>4, <2>2, <2>3, <2>4, <2>5, AloneSafe
<1>10. ~ResetOverlapped' /\ {"limits"} \notin overlaps' => InForce'
  <2> SUFFICES ASSUME ~ResetOverlapped, {"limits"} \notin overlaps PROVE InForce'
    BY <1>2 DEF ResetOverlapped
  <2>1. ~refused' => sims'[g_sim'].limits = g_limits'
    BY <1>2, <1>3, <1>5, AloneLimits
  <2> QED
    BY <1>1, <1>3, <1>4, <2>1, AloneInForce
<1> QED
  BY <1>1, <1>6, <1>7, <1>8, <1>9, <1>10 DEF HInv

\* Being destroyed changes nothing else of a simulator.
LEMMA Destroyed ==
    ASSUME NEW old \in Sim, NEW S,
           S = [old EXCEPT !.alive = FALSE]
    PROVE  /\ S \in Sim
           /\ S.holder = old.holder /\ S.limits = old.limits
           /\ S.queued = old.queued /\ S.stored = old.stored /\ S.next_oid = old.next_oid
  BY DEF Sim

\* The old simulator is destroyed.
LEMMA DestroyStep == ASSUME HInv, NEW t \in Threads, Destroy(t) PROVE HInv'
<1> DEFINE h == handler[t]
           s == h.sim
           S == [sims[s] EXCEPT !.alive = FALSE]
           g == [h EXCEPT !.at = "list"]
<1>1. h \in ResetCall /\ h.at = "destroy" /\ s \in Numbers /\ sims[s] \in Sim
  BY Shapes DEF HInv, Typed, Points, Destroy, Inside, At, Mine, Numbers, Resetting
<1>2. /\ handler' = [handler EXCEPT ![t] = g] /\ sims' = [sims EXCEPT ![s] = S]
      /\ UNCHANGED <<g_sim, g_recent, g_limits, g_feed_idx, wild, overlaps, ticks, applied, refused>>
  BY DEF Destroy, Goto, Mine, globals, histories
<1>3. /\ g \in Handling /\ g.at = "list" /\ g.kind = "reset" /\ h.kind = "reset" /\ h # Idle
      /\ h.at \notin {"idle", "log"} \cup Ticking
      /\ g.at \notin Using \cup Placing \cup Ticking \cup {"log", "submit", "install", "limit"}
  BY <1>1, ResetGoes
<1>4. /\ S \in Sim /\ S.holder = sims[s].holder /\ S.limits = sims[s].limits
      /\ S.queued = sims[s].queued /\ S.stored = sims[s].stored /\ S.next_oid = sims[s].next_oid
  BY <1>1, Destroyed
<1>5. ~ResetOverlapped => s # g_sim
  BY <1>1 DEF HInv, Safe, SafeAt
<1> HIDE DEF g, S
<1>6. SimMove(t, g, s, S)
  BY <1>1, <1>2, <1>3, <1>4 DEF SimMove, HInv, Typed
<1>7. ResetMove(t, g, s, S)
  BY <1>2, <1>3, <1>4, <1>5, <1>6 DEF ResetMove
<1> QED
  BY <1>7, ResetMoves

\* The symbols are added.
LEMMA ListStep == ASSUME HInv, NEW t \in Threads, List(t) PROVE HInv'
<1> DEFINE h == handler[t]
           s == h.sim
           S == [sims[s] EXCEPT !.listed = TRUE]
           g == [h EXCEPT !.at = "hear"]
<1>1. h \in ResetCall /\ h.at = "listing" /\ s \in Numbers /\ sims[s] \in Sim
  BY Shapes DEF HInv, Typed, Points, List, Inside, At, Mine, Numbers, Using, Resetting
<1>2. /\ handler' = [handler EXCEPT ![t] = g] /\ sims' = [sims EXCEPT ![s] = S]
      /\ UNCHANGED <<g_sim, g_recent, g_limits, g_feed_idx, wild, overlaps, ticks, applied, refused>>
  BY DEF List, Goto, Mine, globals, histories
<1>3. /\ g \in Handling /\ g.at = "hear" /\ g.kind = "reset" /\ h.kind = "reset" /\ h # Idle
      /\ h.at \notin {"idle", "log"} \cup Ticking
      /\ g.at \notin Using \cup Placing \cup Ticking \cup {"log", "submit", "install", "limit"}
  BY <1>1, ResetGoes
<1>4. /\ S \in Sim /\ S.holder = sims[s].holder /\ S.limits = sims[s].limits
      /\ S.queued = sims[s].queued /\ S.stored = sims[s].stored /\ S.next_oid = sims[s].next_oid
      /\ S.alive = sims[s].alive
  <2> DEFINE old == sims[s]
  <2>1. old \in Sim
    BY <1>1
  <2> HIDE DEF old
  <2> QED
    BY <2>1 DEF Sim, old
<1> HIDE DEF g, S
<1>5. SimMove(t, g, s, S)
  BY <1>1, <1>2, <1>3, <1>4 DEF SimMove, HInv, Typed
<1>6. ResetMove(t, g, s, S)
  BY <1>2, <1>3, <1>4, <1>5 DEF ResetMove
<1> QED
  BY <1>6, ResetMoves

\* The callbacks are set.
LEMMA HearStep == ASSUME HInv, NEW t \in Threads, Hear(t) PROVE HInv'
<1> DEFINE h == handler[t]
           s == h.sim
           S == [sims[s] EXCEPT !.heard = TRUE]
<1>1. h \in ResetCall /\ h.at = "hearing" /\ s \in Numbers /\ sims[s] \in Sim
  BY Shapes DEF HInv, Typed, Points, Hear, Inside, At, Mine, Numbers, Using, Resetting
<1>2. /\ handler' = [handler EXCEPT ![t] = Idle] /\ sims' = [sims EXCEPT ![s] = S]
      /\ UNCHANGED <<g_sim, g_recent, g_limits, g_feed_idx, wild, overlaps, ticks, applied, refused>>
  BY DEF Hear, Reply, Mine, globals, histories
<1>3. /\ h.kind = "reset" /\ h # Idle /\ h.at \notin {"idle", "log"} \cup Ticking
      /\ Idle \in Handling
      /\ Idle.at \notin Using \cup Placing \cup Ticking \cup {"log", "submit", "install", "limit", "make", "destroy"}
  BY <1>1, IdleIsNowhere DEF ResetCall, Idle, Ticking
<1>4. /\ S \in Sim /\ S.holder = sims[s].holder /\ S.limits = sims[s].limits
      /\ S.queued = sims[s].queued /\ S.stored = sims[s].stored /\ S.next_oid = sims[s].next_oid
      /\ S.alive = sims[s].alive
  <2> DEFINE old == sims[s]
  <2>1. old \in Sim
    BY <1>1
  <2> HIDE DEF old
  <2> QED
    BY <2>1 DEF Sim, old
<1> HIDE DEF S
<1>5. SimMove(t, Idle, s, S)
  BY <1>1, <1>2, <1>3, <1>4 DEF SimMove, HInv, Typed
<1>6. ResetMove(t, Idle, s, S)
  BY <1>2, <1>3, <1>4, <1>5 DEF ResetMove
<1> QED
  BY <1>6, ResetMoves
-----------------------------------------------------------------------------
(* A request is received.                                                  *)

\* What a request is when it comes.
LEMMA Received ==
    ASSUME Typed, NEW request \in Requests
    PROVE  /\ request \in Handling /\ request # Idle
           /\ request.at \in {"order", "delete", "take", "parse", "status", "book", "clear"}
<1>1. CASE request \in {[kind |-> "order", at |-> "order", sim |-> 0, id |-> 0]}
  BY <1>1 DEF OrderCall, Handling, Idle
<1>2. CASE request \in {[kind |-> "cancel", at |-> "delete", sim |-> 0, id |-> id] : id \in Named}
  BY <1>2 DEF CancelCall, Handling, Idle
<1>3. CASE request \in {[kind |-> "feed", at |-> "take", sim |-> 0, left |-> n, tick |-> 0] : n \in Steps}
  BY <1>3, FeedAssumption DEF FeedCall, Handling, Idle
<1>4. CASE request \in {[kind |-> "limits", at |-> "parse", sim |-> 0, fields |-> b, limits |-> g_limits] : b \in LimitBodies}
  <2>1. PICK b \in LimitBodies : request = [kind |-> "limits", at |-> "parse", sim |-> 0, fields |-> b, limits |-> g_limits]
    BY <1>4
  <2>2. b \in Seq(Fields) /\ g_limits \in LimitSet
    BY LimitsAssumption DEF Typed, Fields
  <2> HIDE DEF Fields, LimitSet
  <2>3. request \in LimitsCall /\ request # Idle /\ request.at = "parse"
    BY <2>1, <2>2 DEF LimitsCall, Idle
  <2> QED
    BY <2>3 DEF Handling
<1>5. CASE request \in {[kind |-> "read", at |-> what, sim |-> 0] : what \in {"status", "book"}}
  BY <1>5 DEF ReadCall, Handling, Idle
<1>6. CASE request \in {[kind |-> "reset", at |-> "clear", sim |-> 0, made |-> 0]}
  BY <1>6 DEF ResetCall, Handling, Idle
<1> QED
  BY <1>1, <1>2, <1>3, <1>4, <1>5, <1>6 DEF Requests

\* A thread begins with a request; the others that are busy are seen.
LEMMA ReceiveStep ==
    ASSUME HInv, NEW t \in Threads, NEW request \in Requests, Receive(t, request)
    PROVE  HInv'
<1>1. /\ handler[t].at = "idle" /\ handler' = [handler EXCEPT ![t] = request]
      /\ overlaps' = overlaps \cup {{request.kind, handler[u].kind} : u \in Busy}
      /\ UNCHANGED <<sims, g_sim, g_limits, g_feed_idx, g_recent, wild, ticks, applied, refused>>
  BY DEF Receive, At, globals
<1>2. /\ request \in Handling /\ request # Idle
      /\ request.at \in {"order", "delete", "take", "parse", "status", "book", "clear"}
  BY Received DEF HInv
<1>3. request.at \notin Using \cup Placing \cup Ticking \cup {"log", "submit", "make", "install", "limit", "destroy"}
  BY <1>2 DEF Using, Placing, Ticking
<1>4. /\ Moves(t) /\ handler'[t] = request /\ handler[t] = Idle /\ handler[t].at = "idle"
      /\ handler[t].at \notin Ticking
  <2>1. handler[t] \in Handling
    BY DEF HInv, Typed
  <2>2. handler[t] = Idle
    BY <1>1, <2>1, Shapes
  <2> QED
    BY <1>1, <1>2, <2>2, Moving, IdleIsNowhere DEF HInv, Typed
<1>5. Numbers' = Numbers
  BY <1>1 DEF Numbers
<1>6. Typed'
  BY <1>1, <1>4, <1>5 DEF HInv, Typed, Moves
<1>7. Points'
  BY <1>3, <1>4, <1>5, PointsKept DEF HInv
<1>8. Locks'
  BY <1>1, <1>3, <1>4, <1>5, LocksKept DEF HInv
<1>9. Logs'
  BY <1>1, <1>5 DEF HInv, Logs
<1>10. Feed'
  BY <1>1, <1>3, <1>4, FeedKept DEF HInv
<1>11. Seen'
  <2> SUFFICES ASSUME NEW u \in Threads, NEW v \in Threads, u # v, handler'[u] # Idle, handler'[v] # Idle
               PROVE  {handler'[u].kind, handler'[v].kind} \in overlaps'
    BY DEF Seen
  <2>1. ASSUME NEW w \in Threads, w # t, handler'[w] # Idle
        PROVE  {request.kind, handler'[w].kind} \in overlaps'
    <3>1. w \in Busy /\ handler'[w] = handler[w]
      BY <1>4, <2>1 DEF Moves, Busy
    <3> QED
      BY <1>1, <3>1
  <2>2. CASE u = t
    BY <1>4, <2>1, <2>2
  <2>3. CASE v = t
    <3>1. {request.kind, handler'[u].kind} \in overlaps'
      BY <2>1, <2>3
    <3>2. {handler'[u].kind, handler'[v].kind} = {request.kind, handler'[u].kind}
      BY <1>4, <2>3
    <3> QED
      BY <3>1, <3>2
  <2>4. CASE u # t /\ v # t
    <3>1. handler'[u] = handler[u] /\ handler'[v] = handler[v]
      BY <1>4, <2>4 DEF Moves
    <3>2. {handler[u].kind, handler[v].kind} \in overlaps
      BY <3>1 DEF HInv, Seen
    <3>3. {handler'[u].kind, handler'[v].kind} = {handler[u].kind, handler[v].kind}
      BY <3>1
    <3>4. overlaps \subseteq overlaps'
      BY <1>1
    <3> QED
      BY <3>2, <3>3, <3>4
  <2> QED
    BY <2>2, <2>3, <2>4
<1>12. ~ResetOverlapped' => ~ResetOverlapped
  BY <1>1 DEF ResetOverlapped
<1>13. ~ResetOverlapped' => Safe'
  <2> SUFFICES ASSUME ~ResetOverlapped PROVE Safe'
    BY <1>12
  <2>1. Safe
    BY DEF HInv
  <2>2. SafeAt(t)'
    BY <1>3, <1>4 DEF SafeAt
  <2>3. \A u \in Threads : SafeAt(u)'
    BY <1>1, <1>4, <2>1, <2>2 DEF Safe, SafeAt, Moves
  <2>4. \A u \in Threads : handler'[u].at \in Placing => handler[u].at \in Placing /\ handler'[u].id = handler[u].id
    BY <1>3, <1>4 DEF Moves
  <2>5. \A s \in Numbers' : Sound(sims'[s])
    BY <1>1, <1>5, <2>1 DEF Safe
  <2>6. /\ ~wild' /\ sims'[g_sim'].alive
        /\ \A i \in 1 .. Len(g_recent') : g_recent'[i].sim = g_sim'
    BY <1>1, <2>1 DEF Safe
  <2>7. \A u, v \in Threads :
          handler'[u].at \in Placing /\ handler'[v].at \in Placing /\ handler'[u].id = handler'[v].id => u = v
    BY <2>1, <2>4 DEF Safe
  <2> QED
    BY <2>3, <2>5, <2>6, <2>7 DEF Safe, Sound
<1>14. ~ResetOverlapped' /\ {"limits"} \notin overlaps' => InForce'
  <2> SUFFICES ASSUME ~ResetOverlapped, {"limits"} \notin overlaps PROVE InForce'
    BY <1>1, <1>12
  <2>1. InForce
    BY DEF HInv
  <2>2. handler[t].kind # "limits"
    BY <1>4, IdleIsNowhere
  <2>3. (\A u \in Threads : handler'[u].kind # "limits") => \A u \in Threads : handler[u].kind # "limits"
    BY <1>4, <2>2 DEF Moves
  <2>4. handler'[t].at \notin {"limit", "install"}
    BY <1>3, <1>4
  <2> QED
    BY <1>1, <1>4, <2>1, <2>3, <2>4 DEF InForce, Moves
<1> QED
  BY <1>6, <1>7, <1>8, <1>9, <1>10, <1>11, <1>13, <1>14 DEF HInv
-----------------------------------------------------------------------------
(* The invariant.                                                          *)

\* The server starts with one simulator, and with nothing under way.
LEMMA InitStep == Init => HInv
<1> SUFFICES ASSUME Init PROVE HInv
  OBVIOUS
<1> DEFINE F == Fresh(DefaultLimits)
           S == [F EXCEPT !.listed = TRUE, !.heard = TRUE]
<1>1. /\ sims = <<S>> /\ g_sim = 1 /\ g_limits = DefaultLimits /\ g_feed_idx = 0 /\ g_recent = << >>
      /\ handler = [t \in Threads |-> Idle] /\ wild = FALSE
      /\ overlaps = {} /\ refused = FALSE /\ ticks = << >> /\ applied = {}
  BY DEF Init
<1>2. DefaultLimits \in LimitSet
  BY LimitsAssumption DEF LimitSet
<1>3. F \in Sim /\ Sound(F) /\ F.limits = DefaultLimits /\ F.alive /\ F.holder = Nobody
  BY <1>2, FreshType
<1> HIDE DEF F
<1>4. S \in Sim /\ Sound(S) /\ S.limits = DefaultLimits /\ S.alive /\ S.holder = Nobody
  <2>1. S \in Sim /\ S.limits = F.limits /\ S.alive = F.alive /\ S.holder = F.holder
        /\ S.queued = F.queued /\ S.stored = F.stored /\ S.next_oid = F.next_oid
    BY <1>3 DEF Sim
  <2> QED
    BY <1>3, <2>1 DEF Sound
<1> HIDE DEF S
<1>5. sims \in Seq(Sim) /\ Numbers = {1} /\ sims[1] = S
  <2> HIDE DEF Sim
  <2> QED
    BY <1>1, <1>4 DEF Numbers
<1>6. \A t \in Threads : handler[t] = Idle
  BY <1>1
<1>7. \A t \in Threads :
        /\ handler[t].kind = "none"
        /\ handler[t].at \notin Using \cup Placing \cup Ticking \cup {"log", "submit", "make", "install", "limit", "destroy"}
  BY <1>6, IdleIsNowhere
<1>8. Typed
  <2>1. handler \in [Threads -> Handling]
    BY <1>1, IdleIsNowhere
  <2>2. g_recent \in Seq([sim : Nat, id : Ids])
    BY <1>1
  <2> HIDE DEF Sim
  <2> QED
    BY <1>1, <1>2, <1>5, <2>1, <2>2 DEF Typed
<1>9. Points /\ Logs /\ Seen
  BY <1>1, <1>6, <1>7, BoundsAssumption DEF Points, Logs, Seen
<1>10. Locks
  BY <1>4, <1>5, <1>7, NobodyAssumption DEF Locks
<1>11. Feed
  BY <1>1, <1>7 DEF Feed
<1>12. Safe
  BY <1>1, <1>4, <1>5, <1>7 DEF Safe, SafeAt
<1>13. InForce
  BY <1>1, <1>4, <1>5, <1>7 DEF InForce
<1> QED
  BY <1>8, <1>9, <1>10, <1>11, <1>12, <1>13 DEF HInv

\* A step that changes nothing.
LEMMA StutterStep == HInv /\ UNCHANGED vars => HInv'
<1> SUFFICES ASSUME HInv, UNCHANGED vars PROVE HInv'
  OBVIOUS
<1>1. UNCHANGED <<sims, g_sim, g_limits, g_feed_idx, g_recent, handler, wild, overlaps, ticks, applied, refused>>
  BY DEF vars
<1>2. Typed' /\ Points' /\ Locks' /\ Logs' /\ Feed' /\ Seen'
  BY <1>1 DEF HInv, Typed, Points, Locks, Logs, Feed, Seen, Numbers
<1>3. Safe => Safe'
  BY <1>1 DEF Safe, SafeAt, Sound, Numbers
<1>4. InForce => InForce'
  BY <1>1 DEF InForce
<1> QED
  BY <1>1, <1>2, <1>3, <1>4 DEF HInv, ResetOverlapped

\* Every step of every handler keeps the invariant.
LEMMA ProceedStep == ASSUME HInv, NEW t \in Threads, Proceed(t) PROVE HInv'
<1>1. CASE \E filled \in SUBSET sims[Mine(t)].queued,
               partly \in SUBSET sims[Mine(t)].queued, rests \in BOOLEAN : Store(t, filled, partly, rests)
  <2>1. PICK filled \in SUBSET sims[Mine(t)].queued,
             partly \in SUBSET sims[Mine(t)].queued, rests \in BOOLEAN : Store(t, filled, partly, rests)
    BY <1>1
  <2>2. filled \subseteq sims[Mine(t)].queued /\ partly \subseteq sims[Mine(t)].queued
    OBVIOUS
  <2> QED
    BY <2>1, <2>2, StoreStep
<1>2. CASE Unreadable(t)
  BY <1>2, AnswerStep DEF Unreadable, At
<1>3. CASE UnknownSymbol(t)
  BY <1>3, AnswerStep DEF UnknownSymbol, Inside, At
<1>4. CASE FeedDone(t)
  BY <1>4, AnswerStep DEF FeedDone, At
<1>5. CASE Counters(t)
  BY <1>5, AnswerStep DEF Counters, Inside, At
<1>6. CASE Snapshot(t)
  BY <1>6, AnswerStep DEF Snapshot, Inside, At
<1>7. CASE \/ Load(t) \/ UseAfterFree(t) \/ NextId(t) \/ Check(t) \/ Log(t) \/ Take(t) \/ OnTick(t)
  BY <1>7, LoadStep, UseAfterFreeStep, NextIdStep, CheckStep, LogStep, TakeStep, OnTickStep
<1>8. CASE \/ Parse(t) \/ PassLimits(t) \/ SetLimits(t)
           \/ Clear(t) \/ Make(t) \/ Install(t) \/ Destroy(t) \/ List(t) \/ Hear(t)
  BY <1>8, ParseStep, PassLimitsStep, SetLimitsStep, ClearStep, MakeStep, InstallStep, DestroyStep, ListStep, HearStep
<1>9. CASE CancelUnknown(t)
  BY <1>9, AnswerStep DEF CancelUnknown, Inside, At
<1>10. CASE \E level \in SUBSET sims[Mine(t)].queued : Cancel(t, level)
  BY <1>10, CancelStep
<1> QED
  BY <1>1, <1>2, <1>3, <1>4, <1>5, <1>6, <1>7, <1>8, <1>9, <1>10 DEF Proceed

\* What every place of every handler relies on holds in every state.
THEOREM HandlersInvariance == Spec => []HInv
<1>1. HInv /\ [Next]_vars => HInv'
  BY ProceedStep, ReceiveStep, StutterStep DEF Next
<1> QED
  BY <1>1, InitStep, PTL DEF Spec
-----------------------------------------------------------------------------
(* The properties.                                                         *)

\* Types, and mutual exclusion: a simulator's mutex is held by the one thread
\* that is about to log and leave.
THEOREM TypeCorrect == Spec => []TypeOK
<1>1. HInv => TypeOK
  <2> SUFFICES ASSUME HInv PROVE TypeOK
    OBVIOUS
  <2>1. Typed /\ DOMAIN sims = Numbers /\ DOMAIN g_recent = 1 .. Len(g_recent)
    BY DEF HInv, Typed, Numbers
  <2>2. g_sim \in DOMAIN sims /\ g_feed_idx \in Nat /\ wild \in BOOLEAN /\ Len(g_recent) <= MaxLog
    BY <2>1 DEF HInv, Typed, Logs
  <2>3. \A i \in DOMAIN g_recent : g_recent[i].sim \in DOMAIN sims /\ g_recent[i].id \in Ids
    <3> SUFFICES ASSUME NEW i \in 1 .. Len(g_recent)
                 PROVE  g_recent[i].sim \in Numbers /\ g_recent[i].id \in Ids
      BY <2>1
    <3> DEFINE Entry == [sim : Nat, id : Ids]
    <3>1. g_recent \in Seq(Entry) /\ \A j \in 1 .. Len(g_recent) : g_recent[j].sim \in Numbers
      BY DEF HInv, Typed, Logs
    <3>2. \A e \in Entry : e.id \in Ids
      OBVIOUS
    <3> HIDE DEF Entry
    <3>3. g_recent[i] \in Entry
      BY <3>1
    <3> QED
      BY <3>1, <3>2, <3>3
  <2>4. \A s \in DOMAIN sims, t \in Threads : sims[s].holder = t <=> handler[t].at = "log" /\ Mine(t) = s
    BY <2>1 DEF HInv, Locks, Mine
  <2>5. \A s \in DOMAIN sims : \A o \in sims[s].queued : o.id \in Ids
    <3> SUFFICES ASSUME NEW s \in DOMAIN sims, NEW o \in sims[s].queued PROVE o.id \in Ids
      OBVIOUS
    <3>1. sims[s] \in Sim
      BY <2>1 DEF Typed
    <3>2. o \in Order
      BY <3>1, SimFields
    <3> QED
      BY <3>2 DEF Order
  <2> QED
    BY <2>2, <2>3, <2>4, <2>5 DEF TypeOK
<1> QED
  BY <1>1, HandlersInvariance, PTL

\* As long as no reset overlaps another request, no queued order is destroyed,
\* no freed memory is used, and the log only has entries of the running simulator.
THEOREM UnsafeOnlyByReset == Spec => []OnlyResetIsUnsafe
<1>1. HInv => OnlyResetIsUnsafe
  <2> SUFFICES ASSUME HInv, ~ResetOverlapped PROVE OnlyResetIsUnsafe
    BY DEF OnlyResetIsUnsafe
  <2>1. Safe /\ DOMAIN sims = Numbers /\ DOMAIN g_recent = 1 .. Len(g_recent)
    BY DEF HInv, Typed, Numbers
  <2>2. \A s \in DOMAIN sims : Dangling(sims[s]) = {}
    BY <2>1 DEF Safe, Sound, Dangling
  <2> QED
    BY <2>1, <2>2 DEF OnlyResetIsUnsafe, Safe
<1> QED
  BY <1>1, HandlersInvariance, PTL

\* However feed steps and resets overlap, ticks are taken in the order of the
\* feed, none is skipped or repeated, and each is applied once.
THEOREM TicksTakenOnce == Spec => []FeedTakenOnce
<1>1. HInv => FeedTakenOnce
  <2> SUFFICES ASSUME HInv PROVE FeedTakenOnce
    OBVIOUS
  <2>1. Feed /\ DOMAIN ticks = 1 .. Len(ticks)
    BY DEF HInv, Feed
  <2>2. \A i : i \in InHand <=> \E t \in Threads : handler[t].at \in Ticking /\ handler[t].tick = i
    BY DEF InHand, Ticking
  <2>3. InHand \subseteq (1 .. Len(ticks)) \ applied
    BY <2>1, <2>2 DEF Feed
  <2>4. 1 .. Len(ticks) \subseteq applied \cup InHand
    BY <2>1, <2>2 DEF Feed
  <2> QED
    BY <2>1, <2>3, <2>4 DEF FeedTakenOnce, Feed
<1> QED
  BY <1>1, HandlersInvariance, PTL

\* When no risk/limits or reset is under way, and none of them overlapped, the
\* running simulator has the limits of g_limits, unless the last risk/limits
\* was refused half way.
THEOREM LimitsStayInForce == Spec => []LimitsInForce
<1>1. HInv => LimitsInForce
  BY DEF HInv, InForce, LimitsInForce
<1> QED
  BY <1>1, HandlersInvariance, PTL
=============================================================================
