------------------------------ MODULE IoProofs ------------------------------
(***************************************************************************)
(* Proofs about the two components that meet the operating system: the     *)
(* engine's process behind its pipes (EngineProcess), for any finite       *)
(* number of requests and any number of crashes, and the journal's file    *)
(* (Journal), for any records and any number of them.                      *)
(***************************************************************************)
EXTENDS EngineProcess, Journal, FiniteSetTheorems, TLAPS

(***************************************************************************)
(* EngineProcess.  The heart of IInv is Piped: while nobody holds an       *)
(* object's lock its running child's pipes are empty, and while a request  *)
(* holds it they hold nothing but that request's line or the reply to it.  *)
(* It needs Locked (a waiting request has the lock of its own object), and *)
(* Counted, which bounds the objects made by the requests that can still   *)
(* make one.                                                               *)
(***************************************************************************)
Lines == Requests \cup {Garbage, EndOfFile}

Places == {"new", "creating", "fetching", "calling", "waiting", "answered"}

Children == [pid : Nat, state : {"none", "running", "closing", "dead"},
             stdin : Seq(Requests), stdout : Seq(Requests \cup {Garbage})]

Readers == [at : {"none", "starting", "reading", "done"}, pid : Nat, got : Lines]

Typed ==
    /\ installed \in BOOLEAN /\ engine \in Nat /\ made \in Nat /\ spawned \in Nat
    /\ lock \in [Objects -> Requests \cup {Nobody}]
    /\ proc \in [Objects -> Children]
    /\ handler \in [Requests -> [at : Places, with : Nat]]
    /\ reader \in [Requests -> Readers]
    /\ answer \in [Requests -> [code : {0, 200, 500, 503, 504}, body : Lines]]

\* The requests that may still make an object.
Undecided == {r \in Requests : handler[r].at \in {"new", "creating"}}

Counted == made + Cardinality(Undecided) <= Cardinality(Requests)

\* What a request's thread is at tells what it has.
Placed ==
    /\ engine <= made
    /\ \A r \in Requests :
          /\ handler[r].at = "fetching" => engine # 0
          /\ handler[r].at \in {"new", "creating", "fetching"} =>
                handler[r].with = 0 /\ reader[r].at = "none"
          /\ handler[r].at \in {"calling", "waiting", "answered"} => handler[r].with \in 1 .. made
          /\ handler[r].at = "calling" => reader[r].at = "none"
          /\ answer[r].code # 0 <=> handler[r].at = "answered"

Locked ==
    \A e \in Objects, r \in Requests :
        lock[e] = r <=> handler[r].at = "waiting" /\ handler[r].with = e

Spawned ==
    \A e \in Objects :
        /\ proc[e].pid <= spawned
        /\ proc[e].pid = 0 <=> proc[e].state = "none"
        /\ e > made => proc[e] = None

\* The reply to r, or what the engine printed instead of it.
Replies(r) == {<<r>>, <<Garbage>>}

Free(e) == lock[e] = Nobody /\ proc[e].state = "running" =>
               proc[e].stdin = << >> /\ proc[e].stdout = << >>

Own(e, r) ==
    lock[e] = r =>
        /\ \/ proc[e].stdin = << >> /\ proc[e].stdout \in {<< >>} \cup Replies(r)
           \/ proc[e].stdin = <<r>> /\ proc[e].stdout = << >>
        /\ reader[r].at # "none"
        /\ reader[r].at \in {"reading", "done"} => reader[r].pid = proc[e].pid
        /\ reader[r].at = "done" =>
              /\ reader[r].got \in {r, Garbage, EndOfFile}
              /\ reader[r].got # EndOfFile => proc[e].stdin = << >> /\ proc[e].stdout = << >>
              /\ reader[r].got = EndOfFile => proc[e].state # "running"

Piped == \A e \in Objects : Free(e) /\ \A r \in Requests : Own(e, r)

\* The inductive invariant.
IInv == Typed /\ Counted /\ Placed /\ Locked /\ Spawned /\ Piped /\ AnswersMatch
-----------------------------------------------------------------------------
\* A pipe with one line in it.
LEMMA OneLine ==
    ASSUME NEW x
    PROVE  /\ Append(<< >>, x) = <<x>> /\ <<x>> # << >>
           /\ Head(<<x>>) = x /\ Tail(<<x>>) = << >>
  OBVIOUS

\* The requests are finitely many, and so are those that may make an object.
LEMMA Countable ==
    /\ Cardinality(Requests) \in Nat
    /\ \A S \in SUBSET Requests : IsFiniteSet(S) /\ Cardinality(S) \in Nat
    /\ \A S \in SUBSET Requests : \A r \in S : Cardinality(S \ {r}) = Cardinality(S) - 1
<1>1. ASSUME NEW S \in SUBSET Requests PROVE IsFiniteSet(S) /\ Cardinality(S) \in Nat
  BY RequestsAssumption, FS_Subset, FS_CardinalityType
<1>2. ASSUME NEW S \in SUBSET Requests, NEW r \in S PROVE Cardinality(S \ {r}) = Cardinality(S) - 1
  BY <1>1, FS_RemoveElement
<1> QED
  BY <1>1, <1>2, RequestsAssumption, FS_CardinalityType

\* The invariant holds at first.
LEMMA InitEstablishes == Init => IInv
<1> SUFFICES ASSUME Init PROVE IInv
  OBVIOUS
<1>1. Typed
  BY DEF Init, Typed, Places, Children, Readers, None, Idle, Unanswered, Lines
<1>2. Counted
  <2>1. Undecided = Requests
    BY DEF Init, Undecided
  <2> QED
    BY <2>1, Countable DEF Init, Counted
<1>3. Placed /\ Locked /\ Spawned
  BY RequestsAssumption, Countable DEF Init, Placed, Locked, Spawned, None, Idle, Unanswered, Objects
<1>4. Piped /\ AnswersMatch
  BY RequestsAssumption DEF Init, Piped, Free, Own, AnswersMatch, None, Unanswered
<1> QED
  BY <1>1, <1>2, <1>3, <1>4 DEF IInv
\* Only the thread of r goes on, from whatever object it has.
LEMMA Goes ==
    ASSUME Typed, NEW r \in Requests, NEW place \in Places,
           handler' = [handler EXCEPT ![r].at = place]
    PROVE  /\ handler' \in [Requests -> [at : Places, with : Nat]]
           /\ handler'[r].at = place /\ handler'[r].with = handler[r].with
           /\ \A q \in Requests : q # r => handler'[q] = handler[q]
<1>1. handler' = [handler EXCEPT ![r] = [handler[r] EXCEPT !.at = place]]
  BY DEF Typed
<1>2. handler[r] \in [at : Places, with : Nat]
  BY DEF Typed
<1> DEFINE h == [handler[r] EXCEPT !.at = place]
<1>3. h \in [at : Places, with : Nat] /\ h.at = place /\ h.with = handler[r].with
  BY <1>2
<1> HIDE DEF h
<1> QED
  BY <1>1, <1>3 DEF Typed, h
\* No new object is made, and nobody new can make one.
LEMMA StillCounted ==
    ASSUME Typed, Counted, made' = made, NEW r \in Requests,
           Undecided' = Undecided \/ (r \in Undecided /\ Undecided' = Undecided \ {r})
    PROVE  Counted'
<1>1. Undecided \in SUBSET Requests /\ made \in Nat
  BY DEF Undecided, Typed
<1>2. Cardinality(Undecided) \in Nat /\ Cardinality(Undecided') \in Nat
      /\ Cardinality(Undecided') <= Cardinality(Undecided)
  BY <1>1, Countable
<1>3. Cardinality(Requests) \in Nat
  BY Countable
<1> QED
  BY <1>1, <1>2, <1>3 DEF Counted

\* A request that calls or waits has an object that exists.
LEMMA HasObject ==
    ASSUME IInv, NEW r \in Requests, handler[r].at \in {"calling", "waiting", "answered"}
    PROVE  handler[r].with \in Objects /\ handler[r].with <= made
<1>1. Undecided \in SUBSET Requests /\ made \in Nat
  BY DEF Undecided, IInv, Typed
<1>2. Cardinality(Undecided) \in Nat /\ Cardinality(Requests) \in Nat
  BY <1>1, Countable
<1>3. made <= Cardinality(Requests)
  BY <1>1, <1>2 DEF IInv, Counted
<1> QED
  BY <1>1, <1>2, <1>3 DEF IInv, Placed, Objects
-----------------------------------------------------------------------------
(* _get_engine.                                                            *)

\* Looking changes nothing but where the thread is.
LEMMA LookStep == ASSUME IInv, NEW r \in Requests, Look(r) PROVE IInv'
<1> USE DEF IInv
<1> DEFINE place == IF engine = 0 THEN "creating" ELSE "fetching"
<1>1. /\ handler' \in [Requests -> [at : Places, with : Nat]]
      /\ handler'[r].at = place /\ handler'[r].with = handler[r].with
      /\ \A q \in Requests : q # r => handler'[q] = handler[q]
  BY Goes DEF Look, Places
<1>2. Typed'
  BY <1>1 DEF Typed, Look
<1>3. Counted'
  <2>1. Undecided' = Undecided \/ (r \in Undecided /\ Undecided' = Undecided \ {r})
    BY <1>1 DEF Undecided, Look
  <2> QED
    BY <2>1, StillCounted DEF Look
<1>4. Placed'
  BY <1>1 DEF Typed, Placed, Look
<1>5. Locked'
  BY <1>1 DEF Typed, Locked, Look
<1>6. Spawned' /\ Piped' /\ AnswersMatch'
  BY DEF Look, Spawned, Piped, Free, Own, Replies, AnswersMatch
<1> QED
  BY <1>2, <1>3, <1>4, <1>5, <1>6

\* The child that _start makes, if the binary is there.
LEMMA StartedChild ==
    ASSUME Typed
    PROVE  /\ Started \in Children /\ Started.stdin = << >> /\ Started.stdout = << >>
           /\ Started.pid = IF installed THEN spawned + 1 ELSE 0
           /\ Started.state = IF installed THEN "running" ELSE "none"
<1>1. << >> \in Seq(Requests) /\ << >> \in Seq(Requests \cup {Garbage})
  OBVIOUS
<1>2. spawned + 1 \in Nat
  BY DEF Typed
<1> QED
  BY <1>1, <1>2 DEF Started, Child, None, Children

\* The new object's lock is free, and no request has the object yet.
LEMMA CreateStep == ASSUME IInv, NEW r \in Requests, Create(r) PROVE IInv'
<1> USE DEF IInv
<1> DEFINE e == made + 1
<1>1. /\ handler' \in [Requests -> [at : Places, with : Nat]]
      /\ handler'[r].at = "fetching" /\ handler'[r].with = handler[r].with
      /\ \A q \in Requests : q # r => handler'[q] = handler[q]
  BY Goes DEF Create, Places
<1>2. r \in Undecided /\ Undecided' = Undecided \ {r} /\ Undecided \in SUBSET Requests
  BY <1>1 DEF Undecided, Create
<1>3. Cardinality(Undecided) \in Nat /\ Cardinality(Undecided') = Cardinality(Undecided) - 1
      /\ Cardinality(Undecided') \in Nat /\ Cardinality(Requests) \in Nat /\ made \in Nat
  BY <1>2, Countable DEF Typed
<1>4. Counted' /\ e \in Objects
  BY <1>3 DEF Counted, Create, Objects
<1>5. proc' = [proc EXCEPT ![e] = Started] /\ spawned' \in {spawned, spawned + 1}
      /\ made' = e /\ engine' = e /\ (installed => spawned' = spawned + 1)
  BY DEF Create, Start
<1>6. Typed'
  BY <1>1, <1>3, <1>4, <1>5, StartedChild DEF Typed, Create
<1>7. lock[e] \notin Requests
  BY <1>3, <1>4, RequestsAssumption DEF Locked, Placed, Typed
<1>8. Placed'
  BY <1>1, <1>3, <1>5 DEF Typed, Placed, Create
<1>9. Locked'
  BY <1>1 DEF Locked, Create
<1>10. \A d \in Objects : d # e => proc'[d] = proc[d]
  BY <1>5 DEF Typed
<1>11. proc'[e] = Started
  BY <1>4, <1>5 DEF Typed
<1>12. Spawned'
  <2> SUFFICES ASSUME NEW d \in Objects
               PROVE  /\ proc'[d].pid <= spawned'
                      /\ proc'[d].pid = 0 <=> proc'[d].state = "none"
                      /\ d > made' => proc'[d] = None
    BY DEF Spawned
  <2>1. proc[d].pid \in Nat /\ spawned \in Nat /\ d \in Nat
    BY DEF Typed, Children, Objects
  <2>2. CASE d = e
    BY <1>3, <1>5, <1>11, <2>1, <2>2, StartedChild
  <2>3. CASE d # e
    BY <1>3, <1>5, <1>10, <2>1, <2>3 DEF Spawned
  <2> QED
    BY <2>2, <2>3
<1>13. Piped'
  BY <1>7, <1>10, <1>11, StartedChild DEF Piped, Free, Own, Replies, Create
<1> QED
  BY <1>4, <1>6, <1>8, <1>9, <1>12, <1>13 DEF Create, AnswersMatch

\* _get_engine finds an engine.
LEMMA FetchStep == ASSUME IInv, NEW r \in Requests, Fetch(r) PROVE IInv'
<1> USE DEF IInv
<1> DEFINE h == [at |-> "calling", with |-> engine]
<1>1. handler' = [handler EXCEPT ![r] = h] /\ h \in [at : Places, with : Nat]
  BY DEF Fetch, Places, Typed
<1>2. Typed'
  BY <1>1 DEF Typed, Fetch
<1>3. /\ handler'[r].at = "calling" /\ handler'[r].with = engine
      /\ \A q \in Requests : q # r => handler'[q] = handler[q]
  BY <1>1 DEF Typed
<1>4. Undecided' = Undecided
  BY <1>3 DEF Undecided, Fetch
<1>5. Counted'
  BY <1>4, StillCounted DEF Fetch
<1>6. engine \in 1 .. made /\ reader[r].at = "none" /\ answer[r].code = 0
  BY DEF Placed, Typed, Fetch
<1>7. Placed'
  BY <1>3, <1>6 DEF Placed, Fetch
<1>8. Locked'
  BY <1>3 DEF Locked, Fetch
<1> QED
  BY <1>2, <1>5, <1>7, <1>8 DEF Fetch, Spawned, Piped, Free, Own, Replies, AnswersMatch
-----------------------------------------------------------------------------
(* send.                                                                   *)

\* A request leaves send: with a new child, or with the old one and its pipes
\* as the next request must find them.
LEMMA DoneStep ==
    ASSUME IInv, NEW r \in Requests, NEW e \in Objects, e = handler[r].with,
           handler[r].at \in {"calling", "waiting"}, lock[e] \in {r, Nobody},
           NEW code \in {200, 500, 503, 504}, NEW body \in Lines, code = 200 => body = r,
           Done(r, e, code, body), UNCHANGED <<installed, engine, made, reader>>,
           \/ Start(e)
           \/ /\ UNCHANGED <<proc, spawned>>
              /\ proc[e].state = "running" => proc[e].stdin = << >> /\ proc[e].stdout = << >>
    PROVE  IInv'
<1> USE DEF IInv
<1>1. /\ handler' \in [Requests -> [at : Places, with : Nat]]
      /\ handler'[r].at = "answered" /\ handler'[r].with = handler[r].with
      /\ \A q \in Requests : q # r => handler'[q] = handler[q]
  BY Goes DEF Done, Places
<1>2. /\ lock' \in [Objects -> Requests \cup {Nobody}]
      /\ lock'[e] = Nobody /\ \A d \in Objects : d # e => lock'[d] = lock[d]
  BY DEF Done, Typed
<1>3. /\ answer' \in [Requests -> [code : {0, 200, 500, 503, 504}, body : Lines]]
      /\ answer'[r].code = code /\ answer'[r].body = body
      /\ \A q \in Requests : q # r => answer'[q] = answer[q]
  BY DEF Done, Answer, Typed
<1>4. /\ proc' \in [Objects -> Children] /\ spawned' \in Nat /\ spawned <= spawned'
      /\ \A d \in Objects : d # e => proc'[d] = proc[d]
      /\ proc'[e].pid <= spawned' /\ (proc'[e].pid = 0 <=> proc'[e].state = "none")
      /\ proc'[e].state = "running" => proc'[e].stdin = << >> /\ proc'[e].stdout = << >>
  <2>1. CASE Start(e)
    <3>1. proc' = [proc EXCEPT ![e] = Started] /\ spawned' = IF installed THEN spawned + 1 ELSE spawned
      BY <2>1 DEF Start
    <3>2. proc'[e] = Started /\ spawned \in Nat
      BY <3>1 DEF Typed
    <3> QED
      BY <3>1, <3>2, StartedChild DEF Typed
  <2>2. CASE /\ UNCHANGED <<proc, spawned>>
             /\ proc[e].state = "running" => proc[e].stdin = << >> /\ proc[e].stdout = << >>
    BY <2>2 DEF Typed, Spawned
  <2> QED
    BY <2>1, <2>2
<1>5. Typed'
  BY <1>1, <1>2, <1>3, <1>4 DEF Typed
<1>6. Undecided' = Undecided
  BY <1>1 DEF Undecided
<1>7. Counted'
  BY <1>6, StillCounted
<1>8. Placed'
  BY <1>1, <1>3 DEF Placed
<1>9. Locked'
  BY <1>1, <1>2, RequestsAssumption DEF Locked
<1>10. e <= made
  BY HasObject
<1>11. Spawned'
  <2> SUFFICES ASSUME NEW d \in Objects
               PROVE  /\ proc'[d].pid <= spawned'
                      /\ proc'[d].pid = 0 <=> proc'[d].state = "none"
                      /\ d > made => proc'[d] = None
    BY DEF Spawned
  <2>1. proc[d].pid \in Nat /\ spawned \in Nat /\ d \in Nat /\ made \in Nat
    BY DEF Typed, Children, Objects
  <2>2. CASE d = e
    BY <1>4, <1>10, <2>1, <2>2
  <2>3. CASE d # e
    BY <1>4, <2>1, <2>3 DEF Spawned
  <2> QED
    BY <2>2, <2>3
<1>12. Piped'
  <2> SUFFICES ASSUME NEW d \in Objects PROVE Free(d)' /\ \A q \in Requests : Own(d, q)'
    BY DEF Piped
  <2>1. CASE d = e
    BY <1>2, <1>4, <2>1, RequestsAssumption DEF Free, Own
  <2>2. CASE d # e
    BY <1>2, <1>4, <2>2 DEF Piped, Free, Own, Replies
  <2> QED
    BY <2>1, <2>2
<1>13. AnswersMatch'
  BY <1>3 DEF AnswersMatch
<1> QED
  BY <1>5, <1>7, <1>8, <1>9, <1>11, <1>12, <1>13

\* send without a binary to run.
LEMMA SendNoBinaryStep == ASSUME IInv, NEW r \in Requests, SendNoBinary(r) PROVE IInv'
<1> DEFINE e == handler[r].with
<1>1. e \in Objects /\ handler[r].at = "calling"
  BY HasObject DEF SendNoBinary
<1>2. Done(r, e, 503, EndOfFile) /\ Start(e) /\ lock[e] = Nobody
      /\ UNCHANGED <<installed, engine, made, reader>>
  BY DEF SendNoBinary
<1>3. EndOfFile \in Lines
  BY DEF Lines
<1> HIDE DEF e
<1>4. e = handler[r].with
  BY DEF e
<1> QED
  BY <1>1, <1>2, <1>3, <1>4, DoneStep

\* The child is gone: writing to it fails.
LEMMA SendBrokenStep == ASSUME IInv, NEW r \in Requests, SendBroken(r) PROVE IInv'
<1> DEFINE e == handler[r].with
<1>1. e \in Objects /\ handler[r].at = "calling"
  BY HasObject DEF SendBroken
<1>2. Done(r, e, 500, EndOfFile) /\ Start(e) /\ lock[e] = Nobody
      /\ UNCHANGED <<installed, engine, made, reader>>
  BY DEF SendBroken
<1>3. EndOfFile \in Lines
  BY DEF Lines
<1> HIDE DEF e
<1>4. e = handler[r].with
  BY DEF e
<1> QED
  BY <1>1, <1>2, <1>3, <1>4, DoneStep

\* A request that waits holds its object's lock, and the pipes are its own.
LEMMA Waits ==
    ASSUME IInv, NEW r \in Requests, handler[r].at = "waiting"
    PROVE  /\ handler[r].with \in Objects /\ lock[handler[r].with] = r
           /\ Own(handler[r].with, r)
  BY HasObject DEF IInv, Locked, Piped

\* The reader has the reply before the timeout.
LEMMA ReceiveReplyStep == ASSUME IInv, NEW r \in Requests, ReceiveReply(r) PROVE IInv'
<1> DEFINE e == handler[r].with
<1>1. e \in Objects /\ lock[e] = r /\ Own(e, r)
  BY Waits DEF ReceiveReply
<1>2. reader[r].got = r /\ proc[e].stdin = << >> /\ proc[e].stdout = << >>
  BY <1>1 DEF ReceiveReply, Own
<1>3. Done(r, e, 200, r) /\ UNCHANGED <<installed, engine, made, reader>>
      /\ UNCHANGED <<proc, spawned>> /\ handler[r].at = "waiting"
  BY <1>2 DEF ReceiveReply
<1>4. r \in Lines
  BY DEF Lines
<1> HIDE DEF e
<1>5. e = handler[r].with
  BY DEF e
<1> QED
  BY <1>1, <1>2, <1>3, <1>4, <1>5, DoneStep

\* The reader found the end of the file.
LEMMA ReceiveNothingStep == ASSUME IInv, NEW r \in Requests, ReceiveNothing(r) PROVE IInv'
<1> DEFINE e == handler[r].with
<1>1. e \in Objects /\ lock[e] = r /\ Own(e, r)
  BY Waits DEF ReceiveNothing
<1>2. proc[e].state # "running" /\ handler[r].at = "waiting"
  BY <1>1 DEF ReceiveNothing, Own
<1>3. Done(r, e, 500, EndOfFile) /\ UNCHANGED <<installed, engine, made, reader>>
      /\ UNCHANGED <<proc, spawned>>
  BY DEF ReceiveNothing
<1>4. EndOfFile \in Lines
  BY DEF Lines
<1> HIDE DEF e
<1>5. e = handler[r].with
  BY DEF e
<1> QED
  BY <1>1, <1>2, <1>3, <1>4, <1>5, DoneStep

\* A line that is no JSON, or the timeout: the child is killed and replaced.
LEMMA RestartStep ==
    ASSUME IInv, NEW r \in Requests, ReceiveGarbage(r) \/ TimesOut(r) PROVE IInv'
<1> DEFINE e == handler[r].with
<1>1. e \in Objects /\ lock[e] = r /\ handler[r].at = "waiting"
  BY Waits DEF ReceiveGarbage, TimesOut
<1>2. (Done(r, e, 500, EndOfFile) \/ Done(r, e, 504, EndOfFile)) /\ Start(e)
      /\ UNCHANGED <<installed, engine, made, reader>>
  BY DEF ReceiveGarbage, TimesOut
<1>3. EndOfFile \in Lines
  BY DEF Lines
<1> HIDE DEF e
<1>4. e = handler[r].with
  BY DEF e
<1>5. CASE Done(r, e, 500, EndOfFile)
  BY <1>1, <1>2, <1>3, <1>4, <1>5, DoneStep
<1>6. CASE Done(r, e, 504, EndOfFile)
  BY <1>1, <1>2, <1>3, <1>4, <1>6, DoneStep
<1> QED
  BY <1>2, <1>5, <1>6

\* The line goes to a child whose pipes are empty: a new one, or the one the
\* free lock says nobody is talking to.
LEMMA SendLineStep == ASSUME IInv, NEW r \in Requests, SendLine(r) PROVE IInv'
<1> USE DEF IInv
<1> DEFINE e == handler[r].with
           child == IF Childless(e) THEN Started ELSE proc[e]
           given == [child EXCEPT !.stdin = Append(@, r)]
           waits == [reader[r] EXCEPT !.at = "starting"]
<1>1. e \in Objects /\ e <= made /\ lock[e] = Nobody
  BY HasObject DEF SendLine
<1>2. /\ handler' \in [Requests -> [at : Places, with : Nat]]
      /\ handler'[r].at = "waiting" /\ handler'[r].with = e
      /\ \A q \in Requests : q # r => handler'[q] = handler[q]
  BY Goes DEF SendLine, Places
<1>3. /\ lock' \in [Objects -> Requests \cup {Nobody}]
      /\ lock'[e] = r /\ \A d \in Objects : d # e => lock'[d] = lock[d]
  BY <1>1 DEF SendLine, Typed
<1>4. /\ child \in Children /\ child.state = "running"
      /\ child.stdin = << >> /\ child.stdout = << >>
      /\ child.pid # 0 /\ child.pid <= spawned'
      /\ spawned' \in Nat /\ spawned <= spawned'
  <2>1. CASE Childless(e)
    BY <2>1, StartedChild DEF SendLine, Typed
  <2>2. CASE ~Childless(e)
    BY <1>1, <2>2 DEF SendLine, Typed, Piped, Free, Spawned
  <2> QED
    BY <2>1, <2>2
<1>5. /\ given \in Children /\ given.stdin = <<r>> /\ given.stdout = << >>
      /\ given.pid = child.pid /\ given.state = "running"
  <2>1. Append(child.stdin, r) = <<r>> /\ <<r>> \in Seq(Requests)
    <3>1. Append(<< >>, r) = <<r>> /\ <<r>> \in Seq(Requests)
      BY OneLine
    <3> QED
      BY <1>4, <3>1
  <2> HIDE DEF child
  <2>2. given = [pid |-> child.pid, state |-> child.state, stdin |-> <<r>>, stdout |-> child.stdout]
    BY <1>4, <2>1 DEF Children
  <2> QED
    BY <1>4, <2>1, <2>2 DEF Children
<1>6. proc' = [proc EXCEPT ![e] = given]
  BY DEF SendLine
<1> HIDE DEF given, child
<1>7. /\ proc' \in [Objects -> Children] /\ proc'[e] = given
      /\ \A d \in Objects : d # e => proc'[d] = proc[d]
  BY <1>1, <1>5, <1>6 DEF Typed
<1>8. /\ waits \in Readers /\ waits.at = "starting"
      /\ reader' = [reader EXCEPT ![r] = waits]
  <2>1. reader[r] \in Readers
    BY DEF Typed
  <2>2. waits = [at |-> "starting", pid |-> reader[r].pid, got |-> reader[r].got]
    BY <2>1 DEF Readers
  <2>3. waits \in Readers /\ waits.at = "starting"
    BY <2>1, <2>2 DEF Readers
  <2>4. reader' = [reader EXCEPT ![r].at = "starting"]
    BY DEF SendLine
  <2> QED
    BY <2>3, <2>4
<1> HIDE DEF waits
<1>9. /\ reader' \in [Requests -> Readers] /\ reader'[r].at = "starting"
      /\ \A q \in Requests : q # r => reader'[q] = reader[q]
  BY <1>8 DEF Typed
<1>10. Typed'
  BY <1>2, <1>3, <1>4, <1>7, <1>9 DEF Typed, SendLine
<1>11. Undecided' = Undecided
  BY <1>2 DEF Undecided, SendLine
<1>12. Counted'
  BY <1>11, StillCounted DEF SendLine
<1>13. Placed'
  BY <1>2, <1>9 DEF Placed, SendLine
<1>14. Locked'
  BY <1>1, <1>2, <1>3, RequestsAssumption DEF Locked, SendLine
<1>15. Spawned'
  <2> SUFFICES ASSUME NEW d \in Objects
               PROVE  /\ proc'[d].pid <= spawned'
                      /\ proc'[d].pid = 0 <=> proc'[d].state = "none"
                      /\ d > made' => proc'[d] = None
    BY DEF Spawned
  <2>1. proc[d].pid \in Nat /\ spawned \in Nat /\ d \in Nat /\ made \in Nat /\ made' = made
    BY DEF Typed, Children, Objects, SendLine
  <2>2. CASE d = e
    BY <1>1, <1>4, <1>5, <1>7, <2>1, <2>2
  <2>3. CASE d # e
    BY <1>4, <1>7, <2>1, <2>3 DEF Spawned
  <2> QED
    BY <2>2, <2>3
<1>16. Piped'
  <2> SUFFICES ASSUME NEW d \in Objects PROVE Free(d)' /\ \A q \in Requests : Own(d, q)'
    BY DEF Piped
  <2>1. CASE d = e
    BY <1>3, <1>5, <1>7, <1>9, <2>1, RequestsAssumption DEF Free, Own
  <2>2. CASE d # e
    <3>1. lock[d] # r
      BY <1>1, <2>2 DEF Locked, SendLine
    <3> QED
      BY <1>3, <1>7, <1>9, <2>2, <3>1 DEF Piped, Free, Own, Replies
  <2> QED
    BY <2>1, <2>2
<1> QED
  BY <1>10, <1>12, <1>13, <1>14, <1>15, <1>16 DEF SendLine, AnswersMatch
-----------------------------------------------------------------------------
(* The reader threads, the engine, and its surroundings.                   *)

\* Only the reader of r goes on.
LEMMA ReaderGoes ==
    ASSUME Typed, NEW r \in Requests, NEW new \in Readers, reader' = [reader EXCEPT ![r] = new]
    PROVE  /\ reader' \in [Requests -> Readers] /\ reader'[r] = new
           /\ \A q \in Requests : q # r => reader'[q] = reader[q]
  BY DEF Typed

\* The reader looks self.proc up.
LEMMA ReaderStartsStep == ASSUME IInv, NEW r \in Requests, ReaderStarts(r) PROVE IInv'
<1> USE DEF IInv
<1> DEFINE e == handler[r].with
           new == [at |-> "reading", pid |-> proc[e].pid, got |-> EndOfFile]
<1>1. handler[r].at \in {"calling", "waiting", "answered"} /\ handler[r].at # "calling"
  BY DEF ReaderStarts, Placed, Typed, Places
<1>2. e \in Objects
  BY <1>1, HasObject
<1>3. new \in Readers /\ new.at = "reading" /\ new.pid = proc[e].pid
  BY <1>2 DEF Typed, Children, Readers, Lines
<1>4. reader' = [reader EXCEPT ![r] = new]
  BY DEF ReaderStarts
<1> HIDE DEF new
<1>5. /\ reader' \in [Requests -> Readers] /\ reader'[r] = new
      /\ \A q \in Requests : q # r => reader'[q] = reader[q]
  BY <1>3, <1>4, ReaderGoes
<1>6. Typed' /\ Placed'
  BY <1>1, <1>5 DEF Typed, Placed, ReaderStarts
<1>7. Counted'
  BY StillCounted DEF ReaderStarts, Undecided
<1>8. Locked' /\ Spawned' /\ AnswersMatch'
  BY DEF ReaderStarts, Locked, Spawned, AnswersMatch
<1>9. Piped'
  <2> SUFFICES ASSUME NEW d \in Objects, NEW q \in Requests PROVE Free(d)' /\ Own(d, q)'
    BY RequestsAssumption DEF Piped, Free, ReaderStarts
  <2>1. Free(d)'
    BY DEF Piped, Free, ReaderStarts
  <2>2. CASE q = r
    <3>1. lock[d] = r => d = e
      BY DEF Locked
    <3> QED
      BY <1>3, <1>5, <2>1, <2>2, <3>1 DEF Piped, Own, Replies, ReaderStarts
  <2>3. CASE q # r
    BY <1>5, <2>1, <2>3 DEF Piped, Own, Replies, ReaderStarts
  <2> QED
    BY <2>2, <2>3, <2>1
<1> QED
  BY <1>6, <1>7, <1>8, <1>9

\* Only the child of e changes.
LEMMA ProcGoes ==
    ASSUME Typed, NEW e \in Objects, NEW new \in Children, proc' = [proc EXCEPT ![e] = new]
    PROVE  /\ proc' \in [Objects -> Children] /\ proc'[e] = new
           /\ \A d \in Objects : d # e => proc'[d] = proc[d]
  BY DEF Typed

\* A child whose output has changed.
LEMMA WithStdout ==
    ASSUME NEW c \in Children, NEW out \in Seq(Requests \cup {Garbage})
    PROVE  /\ [c EXCEPT !.stdout = out] \in Children
           /\ [c EXCEPT !.stdout = out].pid = c.pid /\ [c EXCEPT !.stdout = out].state = c.state
           /\ [c EXCEPT !.stdout = out].stdin = c.stdin /\ [c EXCEPT !.stdout = out].stdout = out
  BY DEF Children

\* A line that a reader gets out of an object's own child is the reply to the
\* request that holds the lock; if that is another one, it will time out.
LEMMA ReaderGetsLine ==
    ASSUME IInv, NEW r \in Requests, NEW e \in Objects, e = handler[r].with,
           handler[r].at \in {"waiting", "answered"}, reader[r].at = "reading",
           proc[e].stdout # << >>,
           reader' = [reader EXCEPT ![r] = [at |-> "done", pid |-> @.pid, got |-> Head(proc[e].stdout)]],
           proc' = [proc EXCEPT ![e].stdout = Tail(@)],
           UNCHANGED <<installed, engine, made, lock, spawned, crashes, handler, answer>>
    PROVE  IInv'
<1> USE DEF IInv
<1> DEFINE line == Head(proc[e].stdout)
           new == [at |-> "done", pid |-> reader[r].pid, got |-> line]
           rest == Tail(proc[e].stdout)
           left == [proc[e] EXCEPT !.stdout = rest]
<1>1. proc[e] \in Children /\ reader[r] \in Readers
  BY DEF Typed
<1>2. line \in Requests \cup {Garbage} /\ Tail(proc[e].stdout) \in Seq(Requests \cup {Garbage})
  BY <1>1 DEF Children
<1>3. new \in Readers /\ reader' = [reader EXCEPT ![r] = new]
  BY <1>1, <1>2 DEF Typed, Readers, Lines
<1>4. proc' = [proc EXCEPT ![e] = left]
  OBVIOUS
<1>5. /\ left \in Children /\ left.pid = proc[e].pid /\ left.state = proc[e].state
      /\ left.stdin = proc[e].stdin /\ left.stdout = Tail(proc[e].stdout)
  BY <1>1, <1>2, WithStdout
<1>6. new.at = "done" /\ new.pid = reader[r].pid /\ new.got = line
  OBVIOUS
<1> HIDE DEF new, left
<1>7. /\ reader' \in [Requests -> Readers] /\ reader'[r] = new
      /\ \A q \in Requests : q # r => reader'[q] = reader[q]
  BY <1>3, ReaderGoes
<1>8. /\ proc' \in [Objects -> Children] /\ proc'[e] = left
      /\ \A d \in Objects : d # e => proc'[d] = proc[d]
  BY <1>4, <1>5, ProcGoes
<1>9. Typed' /\ Placed'
  BY <1>5, <1>6, <1>7, <1>8 DEF Typed, Placed
<1>10. Counted'
  BY StillCounted DEF Undecided
<1>11. e <= made
  BY HasObject
<1>12. Locked' /\ Spawned' /\ AnswersMatch'
  BY <1>5, <1>6, <1>8, <1>11 DEF Typed, Objects, Locked, Spawned, AnswersMatch
<1>13. \A d \in Objects : Free(d)'
  BY <1>5, <1>6, <1>8 DEF Piped, Free
<1>14. ASSUME NEW q \in Requests, lock[e] = q
       PROVE  proc[e].stdin = << >> /\ line \in {q, Garbage} /\ Tail(proc[e].stdout) = << >>
  <2>1. proc[e].stdin = << >> /\ proc[e].stdout \in {<<q>>, <<Garbage>>}
    BY <1>14 DEF Piped, Own, Replies
  <2>2. CASE proc[e].stdout = <<q>>
    BY <2>1, <2>2, OneLine
  <2>3. CASE proc[e].stdout = <<Garbage>>
    BY <2>1, <2>3, OneLine
  <2> QED
    BY <2>1, <2>2, <2>3
<1>15. ASSUME NEW d \in Objects, NEW q \in Requests PROVE Own(d, q)'
  <2>1. ASSUME d = e, lock[e] = q PROVE Own(d, q)'
    <3>1. proc'[e].stdin = << >> /\ proc'[e].stdout = << >> /\ line \in {q, Garbage}
      BY <1>5, <1>8, <1>14, <2>1
    <3>2. proc'[e].pid = proc[e].pid /\ proc'[e].state = proc[e].state
      BY <1>5, <1>8
    <3>3. Own(e, q)
      BY DEF Piped
    <3>4. CASE q = r
      <4>1. reader'[r].at = "done" /\ reader'[r].got \in {r, Garbage} /\ reader'[r].got # EndOfFile
        BY <1>6, <1>7, <3>1, <3>4, LinesAssumption
      <4>2. reader'[r].pid = proc'[e].pid
        <5>1. reader'[r].pid = reader[r].pid
          BY <1>6, <1>7
        <5>2. reader[r].pid = proc[e].pid
          BY <1>1, <2>1, <3>3, <3>4 DEF Own
        <5> QED
          BY <3>2, <5>1, <5>2
      <4> QED
        BY <2>1, <3>1, <3>4, <4>1, <4>2 DEF Own
    <3>5. CASE q # r
      <4>1. reader'[q] = reader[q]
        BY <1>7, <3>5
      <4> QED
        BY <2>1, <3>1, <3>2, <3>3, <4>1 DEF Own
    <3> QED
      BY <3>4, <3>5
  <2>2. CASE d = e /\ lock[e] # q
    BY <2>2 DEF Own
  <2>3. CASE d # e
    <3>1. lock[d] # r
      BY <2>3 DEF Locked
    <3> QED
      BY <1>7, <1>8, <2>3, <3>1 DEF Piped, Own, Replies
  <2> QED
    BY <2>1, <2>2, <2>3
<1> QED
  BY <1>9, <1>10, <1>12, <1>13, <1>15 DEF Piped

\* The reader of the request that waits sees the end only of a child that is
\* gone: it reads from the object's own child.
LEMMA ReaderReadsStep == ASSUME IInv, NEW r \in Requests, ReaderReads(r) PROVE IInv'
<1> USE DEF IInv
<1> DEFINE e == handler[r].with
           mine == proc[e].pid = reader[r].pid
           new == [at |-> "done", pid |-> reader[r].pid, got |-> EndOfFile]
<1>1. handler[r].at \in {"waiting", "answered"} /\ reader[r].at = "reading"
  BY DEF ReaderReads, Placed, Typed, Places
<1>2. e \in Objects
  BY <1>1, HasObject
<1>3. CASE mine /\ proc[e].stdout # << >>
  <2>1. /\ reader' = [reader EXCEPT ![r] = [at |-> "done", pid |-> @.pid, got |-> Head(proc[e].stdout)]]
        /\ proc' = [proc EXCEPT ![e].stdout = Tail(@)]
        /\ UNCHANGED <<installed, engine, made, lock, spawned, crashes, handler, answer>>
    BY <1>3 DEF ReaderReads
  <2> HIDE DEF e
  <2>2. e = handler[r].with
    BY DEF e
  <2> QED
    BY <1>1, <1>2, <1>3, <2>1, <2>2, ReaderGetsLine
<1>4. CASE ~mine \/ proc[e].stdout = << >>
  <2>1. /\ reader' = [reader EXCEPT ![r] = [at |-> "done", pid |-> @.pid, got |-> EndOfFile]]
        /\ mine => proc[e].stdout = << >> /\ proc[e].state # "running"
        /\ UNCHANGED <<installed, engine, made, lock, proc, spawned, crashes, handler, answer>>
    BY <1>4 DEF ReaderReads
  <2>2. reader[r] \in Readers
    BY DEF Typed
  <2>3. new \in Readers /\ reader' = [reader EXCEPT ![r] = new]
    BY <2>1, <2>2 DEF Readers, Lines, Typed
  <2>4. new.at = "done" /\ new.pid = reader[r].pid /\ new.got = EndOfFile
    OBVIOUS
  <2> HIDE DEF new
  <2>5. /\ reader' \in [Requests -> Readers] /\ reader'[r] = new
        /\ \A q \in Requests : q # r => reader'[q] = reader[q]
    BY <2>3, ReaderGoes
  <2>6. Typed' /\ Placed'
    BY <1>1, <2>1, <2>4, <2>5 DEF Typed, Placed
  <2>7. Counted'
    BY <2>1, StillCounted DEF Undecided
  <2>8. Locked' /\ Spawned' /\ AnswersMatch'
    BY <2>1 DEF Locked, Spawned, AnswersMatch
  <2>9. \A d \in Objects : Free(d)'
    BY <2>1 DEF Piped, Free
  <2>10. ASSUME NEW d \in Objects, NEW q \in Requests PROVE Own(d, q)'
    <3>1. CASE q = r
      <4>1. lock[d] = r => d = e /\ mine
        BY <1>1 DEF Locked, Piped, Own
      <4> QED
        BY <2>1, <2>4, <2>5, <3>1, <4>1 DEF Piped, Own, Replies
    <3>2. CASE q # r
      BY <2>1, <2>5, <3>2 DEF Piped, Own, Replies
    <3> QED
      BY <3>1, <3>2
  <2> QED
    BY <2>6, <2>7, <2>8, <2>9, <2>10 DEF Piped
<1> QED
  BY <1>3, <1>4

\* What the engine serves is the line of the request that holds the lock.
LEMMA ServeStep == ASSUME IInv, NEW e \in Objects, Serve(e) PROVE IInv'
<1> USE DEF IInv
<1>1. PICK line \in {Head(proc[e].stdin), Garbage} :
         proc' = [proc EXCEPT ![e] = [pid |-> @.pid, state |-> "running", stdin |-> Tail(@.stdin),
                                      stdout |-> Append(@.stdout, line)]]
  BY DEF Serve
<1>2. proc[e].state = "running" /\ proc[e].stdin # << >> /\ proc[e] \in Children
      /\ UNCHANGED <<installed, engine, made, lock, spawned, crashes, handler, reader, answer>>
  BY DEF Serve, Typed
<1>3. PICK q \in Requests : lock[e] = q
  BY <1>2 DEF Typed, Piped, Free
<1>4. proc[e].stdin = <<q>> /\ proc[e].stdout = << >> /\ Own(e, q)
  BY <1>2, <1>3 DEF Piped, Own
<1>5. line \in {q, Garbage}
  BY <1>1, <1>4, OneLine
<1> DEFINE new == [pid |-> proc[e].pid, state |-> "running", stdin |-> << >>, stdout |-> <<line>>]
<1>6. Tail(proc[e].stdin) = << >> /\ Append(proc[e].stdout, line) = <<line>>
  BY <1>4, OneLine
<1>7. proc' = [proc EXCEPT ![e] = new]
  BY <1>1, <1>6
<1>8. << >> \in Seq(Requests) /\ <<line>> \in Seq(Requests \cup {Garbage})
  BY <1>5
<1>9. /\ new \in Children /\ new.pid = proc[e].pid /\ new.state = proc[e].state
      /\ new.stdin = << >> /\ new.stdout = <<line>>
  BY <1>2, <1>8 DEF Children
<1> HIDE DEF new
<1>10. /\ proc' \in [Objects -> Children] /\ proc'[e] = new
       /\ \A d \in Objects : d # e => proc'[d] = proc[d]
  BY <1>7, <1>9, ProcGoes
<1>11. Typed' /\ Placed' /\ Locked' /\ AnswersMatch'
  BY <1>2, <1>10 DEF Typed, Placed, Locked, AnswersMatch
<1>12. Counted'
  BY <1>2, <1>3, StillCounted DEF Undecided
<1>13. e <= made
  BY <1>3, HasObject DEF Locked
<1>14. Spawned'
  <2> SUFFICES ASSUME NEW d \in Objects
               PROVE  /\ proc'[d].pid <= spawned
                      /\ proc'[d].pid = 0 <=> proc'[d].state = "none"
                      /\ d > made => proc'[d] = None
    BY <1>2 DEF Spawned
  <2>1. CASE d # e
    BY <1>10, <2>1 DEF Spawned
  <2>2. CASE d = e
    <3>1. ~(e > made)
      BY <1>13 DEF Typed, Objects
    <3>2. /\ proc[e].pid <= spawned
          /\ proc[e].pid = 0 <=> proc[e].state = "none"
      BY DEF Spawned
    <3> QED
      BY <1>9, <1>10, <2>2, <3>1, <3>2
  <2> QED
    BY <2>1, <2>2
<1>15. Piped'
  <2> SUFFICES ASSUME NEW d \in Objects PROVE Free(d)' /\ \A x \in Requests : Own(d, x)'
    BY DEF Piped
  <2>1. CASE d = e
    <3>1. reader[q].at # "done"
      BY <1>2, <1>3, <1>4 DEF Own
    <3>2. Free(d)'
      BY <1>2, <1>3, <2>1, RequestsAssumption DEF Free
    <3>3. ASSUME NEW x \in Requests PROVE Own(d, x)'
      <4>1. CASE x = q
        <5>1. proc'[d].stdin = << >> /\ proc'[d].stdout \in Replies(x) /\ proc'[d].pid = proc[d].pid
          BY <1>5, <1>9, <1>10, <2>1, <4>1 DEF Replies
        <5> QED
          BY <1>2, <1>3, <1>4, <2>1, <3>1, <4>1, <5>1 DEF Own
      <4>2. CASE x # q
        BY <1>2, <1>3, <2>1, <4>2 DEF Own
      <4> QED
        BY <4>1, <4>2
    <3> QED
      BY <3>2, <3>3
  <2>2. CASE d # e
    BY <1>2, <1>10, <2>2 DEF Piped, Free, Own, Replies
  <2> QED
    BY <2>1, <2>2
<1> QED
  BY <1>11, <1>12, <1>14, <1>15

\* A child that ends leaves its pipes as they are.
LEMMA EndStep == ASSUME IInv, NEW e \in Objects, Crash(e) \/ Exit(e) PROVE IInv'
<1> USE DEF IInv
<1>1. PICK state \in {"closing", "dead"} : proc' = [proc EXCEPT ![e].state = state]
  BY DEF Crash, Exit
<1>2. proc[e].state # "none" /\ proc[e] \in Children
      /\ UNCHANGED <<installed, engine, made, lock, spawned, handler, reader, answer>>
  BY DEF Crash, Exit, Typed
<1> DEFINE new == [proc[e] EXCEPT !.state = state]
<1>3. /\ new \in Children /\ new.pid = proc[e].pid /\ new.state = state
      /\ new.stdin = proc[e].stdin /\ new.stdout = proc[e].stdout
  BY <1>2 DEF Children
<1>4. proc' = [proc EXCEPT ![e] = new]
  BY <1>1
<1> HIDE DEF new
<1>5. /\ proc' \in [Objects -> Children] /\ proc'[e] = new
      /\ \A d \in Objects : d # e => proc'[d] = proc[d]
  BY <1>3, <1>4, ProcGoes
<1>6. Typed' /\ Placed' /\ Locked' /\ AnswersMatch'
  BY <1>2, <1>5 DEF Typed, Placed, Locked, AnswersMatch
<1>7. Counted'
  BY <1>2 DEF Counted, Undecided
<1>8. proc[e] # None
  BY <1>2 DEF None
<1>9. Spawned'
  BY <1>2, <1>3, <1>5, <1>8 DEF Spawned
<1>10. Piped'
  <2> SUFFICES ASSUME NEW d \in Objects PROVE Free(d)' /\ \A q \in Requests : Own(d, q)'
    BY DEF Piped
  <2>1. CASE d = e
    BY <1>2, <1>3, <1>5, <2>1 DEF Piped, Free, Own, Replies
  <2>2. CASE d # e
    BY <1>2, <1>5, <2>2 DEF Piped, Free, Own, Replies
  <2> QED
    BY <2>1, <2>2
<1> QED
  BY <1>6, <1>7, <1>9, <1>10

\* The binary is built meanwhile.
LEMMA BuildStep == ASSUME IInv, Build PROVE IInv'
<1>1. Typed'
  BY DEF IInv, Build, Typed
<1>2. Counted' /\ Placed' /\ Locked' /\ Spawned' /\ Piped' /\ AnswersMatch'
  BY DEF IInv, Build, Counted, Undecided, Placed, Locked, Spawned, Piped, Free, Own, AnswersMatch
<1> QED
  BY <1>1, <1>2 DEF IInv
-----------------------------------------------------------------------------
\* The inductive invariant holds in every reachable state, of EngineProcess's send,
\* _get_engine and the engine's loop.
THEOREM Invariance == Spec => []IInv
<1>1. IInv /\ [Next]_vars => IInv'
  <2> SUFFICES ASSUME IInv, [Next]_vars PROVE IInv'
    OBVIOUS
  <2>1. ASSUME NEW r \in Requests, Handle(r) PROVE IInv'
    BY <2>1, LookStep, CreateStep, FetchStep, SendNoBinaryStep, SendBrokenStep, SendLineStep,
       ReceiveReplyStep, ReceiveNothingStep, RestartStep DEF Handle, Send, Receive
  <2>2. ASSUME NEW r \in Requests, Read(r) PROVE IInv'
    BY <2>2, ReaderStartsStep, ReaderReadsStep DEF Read
  <2>3. ASSUME NEW e \in Objects, Serve(e) \/ Crash(e) \/ Exit(e) PROVE IInv'
    BY <2>3, ServeStep, EndStep
  <2>4. CASE Build
    BY <2>4, BuildStep
  <2>5. CASE UNCHANGED vars
    BY <2>5 DEF vars, IInv, Typed, Counted, Undecided, Placed, Locked, Spawned, Piped, Free, Own,
                AnswersMatch
  <2> QED
    BY <2>1, <2>2, <2>3, <2>4, <2>5 DEF Next
<1> QED
  BY <1>1, InitEstablishes, PTL DEF Spec

\* A good answer is the answer to this very request, for any number of requests
\* and crashes (send).
THEOREM AnswersBelong == Spec => []AnswersMatch
  BY Invariance, PTL DEF IInv

\* Types, and mutual exclusion: the request that waits for an engine holds the
\* lock of its object.
THEOREM TypeCorrect == Spec => []TypeOK
<1>1. IInv => TypeOK
  <2> SUFFICES ASSUME IInv PROVE TypeOK
    OBVIOUS
  <2>1. Undecided \in SUBSET Requests
    BY DEF Undecided
  <2>2. Cardinality(Undecided) \in Nat /\ Cardinality(Requests) \in Nat
    BY <2>1, Countable
  <2>3. installed \in BOOLEAN /\ engine \in 0 .. made /\ made \in 0 .. Cardinality(Requests)
    BY <2>2 DEF IInv, Typed, Placed, Counted
  <2>4. ASSUME NEW e \in Objects
        PROVE  /\ lock[e] \in Requests \cup {Nobody}
               /\ proc[e].pid \in 0 .. spawned
               /\ proc[e].state \in {"none", "running", "closing", "dead"}
               /\ proc[e].pid = 0 <=> proc[e].state = "none"
               /\ e > made => proc[e] = None
    BY DEF IInv, Typed, Children, Spawned
  <2>5. ASSUME NEW r \in Requests
        PROVE  /\ handler[r].with \in 0 .. made
               /\ handler[r].at = "waiting" <=> \E e \in Objects : lock[e] = r
               /\ handler[r].at = "waiting" => lock[handler[r].with] = r
               /\ answer[r].code # 0 <=> handler[r].at = "answered"
    <3>1. handler[r].with \in 0 .. made
      BY <2>3 DEF IInv, Typed, Placed, Places
    <3>2. handler[r].at = "waiting" => handler[r].with \in Objects /\ lock[handler[r].with] = r
      BY Waits
    <3> QED
      BY <3>1, <3>2 DEF IInv, Locked, Placed
  <2> QED
    BY <2>3, <2>4, <2>5 DEF TypeOK
<1> QED
  BY <1>1, Invariance, PTL

\* No running child is dropped without an error, for any number of requests and
\* crashes: whoever replaces one answers 500 or 504 in that step (send).
THEOREM RestartsAreReported == Spec => RestartsReported
<1> DEFINE Reported(e) == \E r \in Requests : /\ handler[r].with = e
                                              /\ answer[r].code = 0 /\ answer'[r].code \in {500, 504}
           Kept(e) == proc'[e].pid # proc[e].pid /\ proc[e].state \in {"running", "closing"} => Reported(e)
<1>1. ASSUME IInv, Next, NEW e \in Objects PROVE Kept(e)
  <2> USE <1>1 DEF IInv
  <2>1. proc[e] \in Children
    BY DEF Typed
  <2>2. ASSUME NEW r \in Requests, Create(r) PROVE Kept(e)
    <3>1. proc' = [proc EXCEPT ![made + 1] = Started]
      BY <2>2 DEF Create, Start
    <3>2. CASE e = made + 1
      BY <3>2 DEF Spawned, None, Typed
    <3>3. CASE e # made + 1
      BY <3>1, <3>3 DEF Typed
    <3> QED
      BY <3>2, <3>3
  <2>3. ASSUME NEW r \in Requests, SendNoBinary(r) \/ SendLine(r) PROVE Kept(e)
    <3>1. CASE handler[r].with = e
      <4>1. CASE Childless(e)
        BY <4>1 DEF Childless
      <4>2. CASE ~Childless(e)
        <5>1. proc' = [proc EXCEPT ![e] = [proc[e] EXCEPT !.stdin = Append(@, r)]]
          BY <2>3, <3>1, <4>2 DEF SendNoBinary, SendLine
        <5>2. proc'[e].pid = proc[e].pid
          BY <2>1, <5>1 DEF Typed, Children
        <5> QED
          BY <5>2
      <4> QED
        BY <4>1, <4>2
    <3>2. CASE handler[r].with # e
      <4>1. \E new : proc' = [proc EXCEPT ![handler[r].with] = new]
        BY <2>3 DEF SendNoBinary, SendLine, Start
      <4> QED
        BY <3>2, <4>1 DEF Typed
    <3> QED
      BY <3>1, <3>2
  <2>4. ASSUME NEW r \in Requests, SendBroken(r) \/ ReceiveGarbage(r) \/ TimesOut(r) PROVE Kept(e)
    <3>1. CASE handler[r].with = e
      <4>1. answer[r].code = 0
        BY <2>4 DEF SendBroken, ReceiveGarbage, TimesOut, Placed
      <4>2. \E code \in {500, 504} : answer' = [answer EXCEPT ![r] = [code |-> code, body |-> EndOfFile]]
        BY <2>4 DEF SendBroken, ReceiveGarbage, TimesOut, Done, Answer
      <4>3. answer'[r].code \in {500, 504}
        BY <4>2 DEF Typed
      <4> QED
        BY <3>1, <4>1, <4>3
    <3>2. CASE handler[r].with # e
      <4>1. proc' = [proc EXCEPT ![handler[r].with] = Started]
        BY <2>4 DEF SendBroken, ReceiveGarbage, TimesOut, Start
      <4> QED
        BY <3>2, <4>1 DEF Typed
    <3> QED
      BY <3>1, <3>2
  <2>5. ASSUME NEW r \in Requests, ReaderReads(r) PROVE Kept(e)
    <3>1. CASE UNCHANGED proc
      BY <3>1
    <3>2. CASE proc' = [proc EXCEPT ![handler[r].with].stdout = Tail(@)]
      BY <2>1, <3>2 DEF Typed, Children
    <3> QED
      BY <2>5, <3>1, <3>2 DEF ReaderReads
  <2>6. ASSUME NEW d \in Objects, Serve(d) PROVE Kept(e)
    <3>1. PICK line : proc' = [proc EXCEPT ![d] = [pid |-> @.pid, state |-> "running",
                                 stdin |-> Tail(@.stdin), stdout |-> Append(@.stdout, line)]]
      BY <2>6 DEF Serve
    <3> QED
      BY <3>1 DEF Typed
  <2>7. ASSUME NEW d \in Objects, Crash(d) \/ Exit(d) PROVE Kept(e)
    <3>1. PICK state : proc' = [proc EXCEPT ![d].state = state]
      BY <2>7 DEF Crash, Exit
    <3> QED
      BY <2>1, <3>1 DEF Typed, Children
  <2>8. ASSUME NEW r \in Requests,
               Look(r) \/ Fetch(r) \/ ReceiveReply(r) \/ ReceiveNothing(r) \/ ReaderStarts(r)
        PROVE  Kept(e)
    BY <2>8 DEF Look, Fetch, ReceiveReply, ReceiveNothing, ReaderStarts
  <2>9. CASE Build
    BY <2>9 DEF Build
  <2> HIDE DEF Kept
  <2> QED
    BY <2>2, <2>3, <2>4, <2>5, <2>6, <2>7, <2>8, <2>9 DEF Next, Handle, Send, Receive, Read
<1>2. IInv /\ [Next]_vars => [\A e \in Objects : Kept(e)]_vars
  BY <1>1
<1> QED
  BY <1>2, Invariance, PTL DEF Spec, RestartsReported
-----------------------------------------------------------------------------
(***************************************************************************)
(* Journal.  JInv says what a fault leaves of the file (Stored: the cells  *)
(* before `sound` are those written, in frames that lie end to end), and   *)
(* what of it was read: the first n records, and then only what zeros read *)
(* as.  What it rests on is VerifiedTurn: wherever a record was torn or    *)
(* damaged, read_all takes the checksum of something else than a payload,  *)
(* and compares it with something else than that checksum.                 *)
(***************************************************************************)
Entry == [type : Types, payload : Payloads, at : Nat]

\* The cell after the frame of w, the i-th cell of the file as w wrote it, and
\* the cell where the k-th frame begins, or would.
After(w) == w.at + Len(w.payload) + 3
Within(w, i) == w.at <= i /\ i < After(w)
Wrote(w, i) == Framed(w.type, w.payload)[i - w.at + 1]
End == IF written = << >> THEN 2 ELSE After(written[Len(written)])
Begin(k) == IF k <= Len(written) THEN written[k].at ELSE End

Kept(i) == i \in DOMAIN disk /\ \A k \in DOMAIN written : Within(written[k], i) => disk[i] = Wrote(written[k], i)

JournalTyped ==
    /\ disk \in Seq(Cells) /\ pos \in Nat \ {0} /\ sound \in Nat \ {0} /\ files \in Nat
    /\ written \in Seq(Entry)
    /\ records \in Seq([type : Cells, payload : Readable])
    /\ writing \in BOOLEAN /\ failed \in BOOLEAN /\ reading \in BOOLEAN
    /\ fault \in {"none", "cut", "zeroed", "damaged", "type"}

\* What is open, and what may have happened to the file by then.
Modes ==
    /\ ~(writing /\ reading)
    /\ writing => files > 0 /\ records = << >> /\ fault \in {"none", "cut"}
    /\ writing /\ ~failed => fault = "none"
    /\ reading => files > 0
    /\ files = 0 => disk = << >> /\ written = << >> /\ records = << >> /\ fault = "none"

\* The frames follow each other.
Laid ==
    /\ \A k \in DOMAIN written : written[k].at >= 2 /\ After(written[k]) <= End
    /\ written # << >> => written[1].at = 2
    /\ \A k \in DOMAIN written : k + 1 \in DOMAIN written => written[k + 1].at = After(written[k])
    /\ \A j, k \in DOMAIN written : j < k => After(written[j]) <= written[k].at

\* What the file holds after each fault.
Stored ==
    /\ sound <= End
    /\ \A i \in 1 .. sound - 1 : Kept(i)
    /\ fault = "none" => sound = End /\ Len(disk) = End - 1
    /\ fault = "cut" => Len(disk) = sound - 1
    /\ fault = "zeroed" => \A i \in DOMAIN disk : i >= sound => disk[i] = 0
    /\ fault \in {"damaged", "type"} =>
          /\ Len(disk) = End - 1 /\ sound \in DOMAIN disk /\ disk[sound] \in Damages
          /\ \A i \in DOMAIN disk \ {sound} : Kept(i)
          /\ \A k \in DOMAIN written : Within(written[k], sound) => disk[sound] # Wrote(written[k], sound)
    /\ fault = "type" => \E k \in DOMAIN written : written[k].at = sound
    /\ fault = "damaged" => \A k \in DOMAIN written : written[k].at # sound

\* The first n records are those written; the others are read from zeros.
Matched(n) ==
    /\ n <= Len(written) /\ n <= Len(records)
    /\ \A k \in 1 .. n : /\ records[k].payload = written[k].payload
                         /\ records[k].type = written[k].type \/ (fault = "type" /\ written[k].at = sound)
    /\ \A k \in n + 1 .. Len(records) : Empty(records[k]) /\ fault = "zeroed"

\* What crc_stored may hold once a record was verified, or none was read.
Stale == Junk \cup {Checksum(p) : p \in Payloads \cup {<< >>}}

Following(n) ==
    /\ Len(records) = n => pos = Begin(n + 1)
    /\ Len(records) > n => pos >= sound /\ \A k \in Whole : k <= n
    /\ fault = "damaged" /\ sound # 1 => pos <= sound
    /\ crc_stored \in Stale

ReadSoFar == \E n \in Nat : Matched(n) /\ (reading => Following(n))

JInv == JournalTyped /\ Modes /\ Laid /\ (files > 0 => Stored) /\ ReadSoFar
-----------------------------------------------------------------------------
LEMMA CellSets ==
    /\ MaxSize \in Nat /\ Damages \subseteq Nat /\ Damages \subseteq Cells /\ Types \subseteq Cells
    /\ PlainCells \subseteq Cells /\ 0 .. MaxSize \subseteq PlainCells /\ Junk \subseteq PlainCells
    /\ Magic \in Cells /\ 0 \in PlainCells
    /\ \A p \in Payloads : Checksum(p) \in Cells
<1>1. MaxSize \in Nat /\ Damages \subseteq Nat
  BY SizesAssumption
<1>2. QED
  BY <1>1 DEF PlainCells, Cells

LEMMA PayloadCells ==
    ASSUME NEW p \in Payloads
    PROVE  /\ p \in Seq(PlainCells) /\ Len(p) \in 1 .. MaxSize /\ p[1] # 0
           /\ \A i \in 1 .. Len(p) : p[i] \in PlainCells
<1>1. p \in Seq(Range(p)) /\ Len(p) \in 1 .. MaxSize /\ p[1] # 0
  BY PayloadsAssumption
<1>2. \A i \in 1 .. Len(p) : p[i] \in Range(p)
  BY <1>1 DEF Range
<1>3. \A i \in 1 .. Len(p) : p[i] \in PlainCells
  BY <1>2 DEF PlainCells
<1>4. QED
  BY <1>1, <1>3

\* What is as long as a payload may be can be read.
LEMMA SequencesReadable ==
    ASSUME NEW n \in 0 .. MaxSize, NEW p \in [1 .. n -> Cells]
    PROVE  p \in Readable
<1>1. [1 .. n -> Cells] \in {[1 .. m -> Cells] : m \in 0 .. MaxSize}
  OBVIOUS
<1>2. QED
  BY <1>1 DEF Readable, BoundedSeq, SeqOf

LEMMA PayloadsReadable == Payloads \cup {<< >>} \subseteq Readable
<1>1. ASSUME NEW p \in Payloads PROVE p \in Readable
  <2>1. p \in [1 .. Len(p) -> PlainCells] /\ Len(p) \in 0 .. MaxSize
    BY PayloadCells, CellSets
  <2>2. p \in [1 .. Len(p) -> Cells]
    BY <2>1, CellSets
  <2>3. QED
    BY <2>1, <2>2, SequencesReadable
<1>2. << >> \in Readable
  <2>1. << >> \in [1 .. 0 -> Cells] /\ 0 \in 0 .. MaxSize
    BY CellSets
  <2>2. QED
    BY <2>1, SequencesReadable
<1>3. QED
  BY <1>1, <1>2

\* The checksum of a sequence that is read is that of no other one.
LEMMA NoCollision ==
    ASSUME NEW p \in Readable, NEW q \in Readable, Checksum(p) = Checksum(q)
    PROVE  p = q
BY ChecksumAssumption

LEMMA ChecksumNotPlain ==
    ASSUME NEW p \in Readable, p # << >>
    PROVE  Checksum(p) \notin PlainCells
BY ChecksumAssumption

\* The cells of a frame: type, size, payload, checksum.
LEMMA FrameCells ==
    ASSUME NEW w \in Entry
    PROVE  /\ Framed(w.type, w.payload) \in Seq(Cells)
           /\ Len(Framed(w.type, w.payload)) = Len(w.payload) + 3
           /\ Wrote(w, w.at) = w.type
           /\ Wrote(w, w.at + 1) = Len(w.payload)
           /\ \A i \in 1 .. Len(w.payload) : Wrote(w, w.at + 1 + i) = w.payload[i]
           /\ Wrote(w, w.at + 2 + Len(w.payload)) = Checksum(w.payload)
<1> DEFINE p == w.payload
<1>1. p \in Payloads /\ w.type \in Types /\ w.at \in Nat
  BY DEF Entry
<1>2. p \in Seq(PlainCells) /\ Len(p) \in 1 .. MaxSize
  BY <1>1, PayloadCells
<1>4. MaxSize \in Nat
  BY CellSets
<1>3. Checksum(p) \in Cells /\ w.type \in Cells /\ Len(p) \in Cells /\ p \in Seq(Cells)
  <2>1. Len(p) \in 0 .. MaxSize
    BY <1>2, <1>4
  <2>2. \A i \in 1 .. Len(p) : p[i] \in Cells
    BY <1>1, PayloadCells, CellSets
  <2>3. p \in Seq(Cells)
    BY <1>2, <2>2
  <2>4. QED
    BY <1>1, <2>1, <2>3, CellSets
<1> HIDE DEF p
<1>5. /\ <<w.type, Len(p)>> \o p \o <<Checksum(p)>> \in Seq(Cells)
      /\ Len(<<w.type, Len(p)>> \o p \o <<Checksum(p)>>) = Len(p) + 3
  BY <1>2, <1>3, <1>4
<1>6. /\ (<<w.type, Len(p)>> \o p \o <<Checksum(p)>>)[1] = w.type
      /\ (<<w.type, Len(p)>> \o p \o <<Checksum(p)>>)[2] = Len(p)
      /\ \A i \in 1 .. Len(p) : (<<w.type, Len(p)>> \o p \o <<Checksum(p)>>)[i + 2] = p[i]
      /\ (<<w.type, Len(p)>> \o p \o <<Checksum(p)>>)[Len(p) + 3] = Checksum(p)
  BY <1>2, <1>3, <1>4
<1>7. /\ w.at - w.at + 1 = 1 /\ (w.at + 1) - w.at + 1 = 2
      /\ \A i \in 1 .. Len(p) : (w.at + 1 + i) - w.at + 1 = i + 2
      /\ (w.at + 2 + Len(p)) - w.at + 1 = Len(p) + 3
  BY <1>1, <1>2, <1>4
<1>8. Framed(w.type, p) = <<w.type, Len(p)>> \o p \o <<Checksum(p)>>
  BY DEF Framed
<1>9. /\ Framed(w.type, p) \in Seq(Cells) /\ Len(Framed(w.type, p)) = Len(p) + 3
      /\ Framed(w.type, p)[1] = w.type /\ Framed(w.type, p)[2] = Len(p)
      /\ \A i \in 1 .. Len(p) : Framed(w.type, p)[i + 2] = p[i]
      /\ Framed(w.type, p)[Len(p) + 3] = Checksum(p)
  BY <1>5, <1>6, <1>8
<1>10. ASSUME NEW i \in 1 .. Len(p) PROVE Wrote(w, w.at + 1 + i) = p[i]
  <2>1. Wrote(w, w.at + 1 + i) = Framed(w.type, p)[(w.at + 1 + i) - w.at + 1]
    BY DEF Wrote, p
  <2>2. QED
    BY <1>7, <1>9, <2>1
<1>11. Wrote(w, w.at) = w.type
  <2>1. Wrote(w, w.at) = Framed(w.type, p)[w.at - w.at + 1]
    BY DEF Wrote, p
  <2>2. QED
    BY <1>7, <1>9, <2>1
<1>12. Wrote(w, w.at + 1) = Len(p)
  <2>1. Wrote(w, w.at + 1) = Framed(w.type, p)[(w.at + 1) - w.at + 1]
    BY DEF Wrote, p
  <2>2. QED
    BY <1>7, <1>9, <2>1
<1>13. Wrote(w, w.at + 2 + Len(p)) = Checksum(p)
  <2>1. Wrote(w, w.at + 2 + Len(p)) = Framed(w.type, p)[(w.at + 2 + Len(p)) - w.at + 1]
    BY DEF Wrote, p
  <2>2. QED
    BY <1>7, <1>9, <2>1
<1>14. p = w.payload
  BY DEF p
<1>15. QED
  BY <1>9, <1>10, <1>11, <1>12, <1>13, <1>14
-----------------------------------------------------------------------------
LEMMA EntryAt ==
    ASSUME JournalTyped, NEW k \in DOMAIN written
    PROVE  /\ written[k] \in Entry /\ written[k].at \in Nat
           /\ written[k].payload \in Payloads /\ written[k].payload \in Readable
           /\ written[k].payload \in Seq(PlainCells)
           /\ Len(written[k].payload) \in 1 .. MaxSize /\ Len(written[k].payload) \in Nat
           /\ MaxSize \in Nat /\ DOMAIN written = 1 .. Len(written) /\ k \in Nat /\ Len(written) \in Nat
<1>1. written[k] \in Entry
  BY DEF JournalTyped
<1>2. written[k].at \in Nat /\ written[k].payload \in Payloads
  BY <1>1 DEF Entry
<1>3. written[k].payload \in Seq(PlainCells) /\ Len(written[k].payload) \in 1 .. MaxSize
  BY <1>2, PayloadCells
<1>4. written[k].payload \in Readable
  BY <1>2, PayloadsReadable
<1>5. MaxSize \in Nat
  BY CellSets
<1>6. QED
  BY <1>1, <1>2, <1>3, <1>4, <1>5 DEF JournalTyped

\* What is read of a frame from the cells that are as they were written.
LEMMA FrameOnDisk ==
    ASSUME JournalTyped, NEW k \in DOMAIN written
    PROVE  LET w == written[k] IN
           /\ Kept(w.at) => w.at \in DOMAIN disk /\ disk[w.at] = w.type
           /\ Kept(w.at + 1) => w.at + 1 \in DOMAIN disk /\ disk[w.at + 1] = Len(w.payload)
           /\ \A i \in 1 .. Len(w.payload) :
                 Kept(w.at + 1 + i) => w.at + 1 + i \in DOMAIN disk /\ disk[w.at + 1 + i] = w.payload[i]
           /\ Kept(w.at + 2 + Len(w.payload)) =>
                 /\ w.at + 2 + Len(w.payload) \in DOMAIN disk
                 /\ disk[w.at + 2 + Len(w.payload)] = Checksum(w.payload)
<1> DEFINE w == written[k]
           n == Len(w.payload)
<1>1. w \in Entry /\ w.at \in Nat /\ n \in Nat /\ n >= 1
  BY EntryAt
<1>2. /\ Wrote(w, w.at) = w.type
      /\ Wrote(w, w.at + 1) = n
      /\ \A i \in 1 .. n : Wrote(w, w.at + 1 + i) = w.payload[i]
      /\ Wrote(w, w.at + 2 + n) = Checksum(w.payload)
  BY <1>1, FrameCells
<1>3. /\ Within(w, w.at) /\ Within(w, w.at + 1) /\ Within(w, w.at + 2 + n)
      /\ \A i \in 1 .. n : Within(w, w.at + 1 + i)
  BY <1>1 DEF Within, After
<1>4. \A i : Kept(i) /\ Within(w, i) => i \in DOMAIN disk /\ disk[i] = Wrote(w, i)
  BY DEF Kept
<1> HIDE DEF w, n
<1>5. /\ Kept(w.at) => w.at \in DOMAIN disk /\ disk[w.at] = w.type
      /\ Kept(w.at + 1) => w.at + 1 \in DOMAIN disk /\ disk[w.at + 1] = n
      /\ Kept(w.at + 2 + n) => w.at + 2 + n \in DOMAIN disk /\ disk[w.at + 2 + n] = Checksum(w.payload)
  BY <1>2, <1>3, <1>4
<1>6. ASSUME NEW i \in 1 .. n, Kept(w.at + 1 + i)
      PROVE  w.at + 1 + i \in DOMAIN disk /\ disk[w.at + 1 + i] = w.payload[i]
  BY <1>2, <1>3, <1>4, <1>6
<1>7. QED
  BY <1>5, <1>6 DEF w, n

\* Whatever read_all takes for a payload can be read.
LEMMA PayloadReadable ==
    ASSUME JournalTyped, pos + 1 \in DOMAIN disk, Size \in 0 .. MaxSize
    PROVE  /\ Payload \in Readable /\ Payload \in [1 .. Size -> Cells]
           /\ Payload # << >> <=> Size # 0
<1>1. disk \in Seq(Cells) /\ pos \in Nat /\ 0 \in Cells /\ MaxSize \in Nat
  BY CellSets DEF JournalTyped
<1>2. Payload \in [1 .. Size -> Cells]
  BY <1>1 DEF Payload
<1>3. Payload \in Readable
  BY <1>2, SequencesReadable
<1>4. Payload # << >> <=> Size # 0
  <2>1. CASE Size = 0
    BY <1>2, <2>1
  <2>2. CASE Size # 0
    <3>1. 1 \in 1 .. Size
      BY <1>1, <2>2
    <3>2. DOMAIN Payload = 1 .. Size /\ DOMAIN << >> = {}
      BY <1>2
    <3>3. QED
      BY <3>1, <3>2, <2>2
  <2>3. QED
    BY <2>1, <2>2
<1>5. QED
  BY <1>2, <1>3, <1>4

\* A record that is as it was written, but for its type, is read and verified.
LEMMA ReadsKept ==
    ASSUME JournalTyped, NEW k \in DOMAIN written, pos = written[k].at,
           \A i \in pos + 1 .. pos + Len(written[k].payload) + 2 : Kept(i)
    PROVE  /\ ~AtEnd /\ Size = Len(written[k].payload) /\ Payload = written[k].payload
           /\ Crcs = {Checksum(Payload)}
<1> DEFINE p == written[k].payload
           n == Len(p)
<1>1. pos \in Nat /\ n \in 1 .. MaxSize /\ MaxSize \in Nat /\ p \in Seq(PlainCells)
  BY EntryAt
<1>2. n \in Nat /\ n >= 1
  BY <1>1
<1>3. pos + 1 \in DOMAIN disk /\ disk[pos + 1] = n
  <2>1. pos + 1 \in pos + 1 .. pos + n + 2
    BY <1>1, <1>2
  <2>2. QED
    BY <2>1, FrameOnDisk
<1>4. ASSUME NEW i \in 1 .. n PROVE pos + 1 + i \in DOMAIN disk /\ disk[pos + 1 + i] = p[i]
  <2>1. pos + 1 + i \in pos + 1 .. pos + n + 2
    BY <1>1, <1>2
  <2>2. QED
    BY <2>1, FrameOnDisk
<1>5. pos + 2 + n \in DOMAIN disk /\ disk[pos + 2 + n] = Checksum(p)
  <2>1. pos + 2 + n \in pos + 1 .. pos + n + 2
    BY <1>1, <1>2
  <2>2. QED
    BY <2>1, FrameOnDisk
<1>6. Size = n
  BY <1>3 DEF Size
<1>7. Payload = [i \in 1 .. n |-> p[i]]
  BY <1>4, <1>6 DEF Payload
<1>8. Payload = p
  BY <1>1, <1>7
<1>9. ~AtEnd
  BY <1>1, <1>3, <1>6 DEF AtEnd
<1>10. Crcs = {Checksum(p)}
  BY <1>5, <1>6 DEF Crcs
<1>11. QED
  BY <1>6, <1>8, <1>9, <1>10
-----------------------------------------------------------------------------
\* A torn record that verifies lacks nothing but its checksum.
LEMMA TornFrame ==
    ASSUME JournalTyped, NEW k \in DOMAIN written, pos = written[k].at,
           sound > pos + 1, sound <= pos + Len(written[k].payload) + 2,
           \A i \in 1 .. sound - 1 : Kept(i),
           \A i \in DOMAIN disk : i >= sound => disk[i] = 0,
           crc_stored \in Stale, NEW crc \in Crcs, crc = Checksum(Payload)
    PROVE  Size = Len(written[k].payload) /\ Payload = written[k].payload
<1> DEFINE p == written[k].payload
           n == Len(p)
           m == sound - pos - 1
<1>1. /\ pos \in Nat /\ n \in 1 .. MaxSize /\ MaxSize \in Nat /\ p \in Seq(PlainCells) /\ n \in Nat /\ n >= 1
      /\ p \in Payloads /\ p \in Readable /\ sound \in Nat
  BY EntryAt DEF JournalTyped
<1>0. pos \in Nat /\ n \in Nat /\ n >= 1 /\ n <= MaxSize /\ MaxSize \in Nat /\ sound \in Nat
  BY <1>1
<1>2. Size = n
  <2>1. pos + 1 \in 1 .. sound - 1
    BY <1>1
  <2>2. QED
    BY <2>1, FrameOnDisk DEF Size
<1>3. m \in 1 .. n + 1 /\ m \in Nat
  <2>1. sound > pos + 1 /\ sound <= pos + n + 2
    OBVIOUS
  <2> HIDE DEF p, n
  <2>2. QED
    BY ONLY <1>0, <2>1
<1>4. Payload = ZeroedFrom(p, m)
  <2>1. ASSUME NEW i \in 1 .. n, i < m
        PROVE  pos + 1 + i \in DOMAIN disk /\ disk[pos + 1 + i] = p[i]
    <3>1. pos + 1 + i \in 1 .. sound - 1
      <4>1. i \in Nat /\ i >= 1 /\ pos \in Nat /\ sound \in Nat
        BY <1>0
      <4>2. i < sound - pos - 1
        BY <2>1
      <4>3. QED
        BY ONLY <4>1, <4>2
    <3>2. QED
      BY <3>1, FrameOnDisk
  <2>2. ASSUME NEW i \in 1 .. n, ~(i < m), pos + 1 + i \in DOMAIN disk
        PROVE  disk[pos + 1 + i] = 0
    <3>1. pos + 1 + i >= sound
      BY <1>1, <2>2
    <3>2. QED
      BY <3>1, <2>2
  <2>3. DOMAIN p = 1 .. n
    BY <1>1
  <2> HIDE DEF m, n, p
  <2>4. \A i \in 1 .. n : (IF pos + 1 + i \in DOMAIN disk THEN disk[pos + 1 + i] ELSE 0)
                             = (IF i < m THEN p[i] ELSE 0)
    BY <2>1, <2>2
  <2>5. Payload = [i \in 1 .. n |-> IF i < m THEN p[i] ELSE 0]
    BY <2>4, <1>2 DEF Payload
  <2>6. QED
    BY <2>3, <2>5 DEF ZeroedFrom
<1>5. CASE m = n + 1
  <2>1. \A i \in DOMAIN p : i < m
    BY <1>1, <1>5
  <2>2. ZeroedFrom(p, m) = [i \in DOMAIN p |-> p[i]]
    BY <2>1 DEF ZeroedFrom
  <2>3. ZeroedFrom(p, m) = p
    BY <1>1, <2>2
  <2>4. QED
    BY <1>2, <1>4, <2>3
<1>6. CASE m # n + 1
  <2>1. m \in 1 .. n
    <3> HIDE DEF m, n
    <3>1. QED
      BY <1>3, <1>6, <1>0
  <2>2. ZeroedFrom(p, m) \in Payloads => ZeroedFrom(p, m) = p
    BY <2>1, <1>1, PayloadsAssumption
  <2>3. SUFFICES ASSUME Payload \notin Payloads PROVE FALSE
    BY <1>2, <1>4, <2>2
  <2>4. pos + 1 \in DOMAIN disk /\ Size \in 0 .. MaxSize
    <3>1. pos + 1 \in 1 .. sound - 1
      BY <1>1
    <3>2. QED
      BY <3>1, <1>1, <1>2, FrameOnDisk
  <2>5. Payload \in Readable /\ Payload # << >>
    BY <2>4, <1>1, <1>2, PayloadReadable
  <2>6. crc \notin PlainCells
    BY <2>5, ChecksumNotPlain
  <2>7. crc \in {0} \cup Stale
    <3>1. CASE pos + 2 + Size \in DOMAIN disk
      <4>1. pos + 2 + Size >= sound
        BY <1>1, <1>2
      <4>2. QED
        BY <3>1, <4>1 DEF Crcs
    <3>2. CASE pos + 2 + Size \notin DOMAIN disk
      BY <3>2 DEF Crcs, Stale
    <3>3. QED
      BY <3>1, <3>2
  <2>8. PICK q \in Payloads \cup {<< >>} : crc = Checksum(q)
    BY <2>6, <2>7, CellSets DEF Stale
  <2>9. Payload = q
    BY <2>5, <2>8, PayloadsReadable, NoCollision
  <2>10. QED
    BY <2>3, <2>5, <2>8, <2>9
<1>7. QED
  BY <1>5, <1>6

\* A size that is lost reads as that of a record without a payload.
LEMMA LostSize ==
    ASSUME JournalTyped, sound <= pos + 1, pos + 1 \in DOMAIN disk,
           \A i \in DOMAIN disk : i >= sound => disk[i] = 0
    PROVE  Size = 0 /\ Payload = << >>
<1>1. Size = 0
  BY DEF Size, JournalTyped
<1>2. pos + 1 \in DOMAIN disk /\ Size \in 0 .. MaxSize
  BY <1>1, CellSets
<1>3. QED
  BY <1>1, <1>2, PayloadReadable

LEMMA CellInFrame ==
    ASSUME NEW at \in Nat, NEW n \in Nat
    PROVE  \A i \in 1 .. n : /\ at + 1 + i \in at + 1 .. at + n + 2
                             /\ at + 1 + i # at + 1 /\ at + 1 + i # at + 2 + n
OBVIOUS

LEMMA NextCell ==
    ASSUME NEW at \in Nat, NEW j \in Nat, NEW n \in Nat, j < n
    PROVE  j + 1 \in 1 .. n /\ at + 1 + (j + 1) = at + 2 + j
OBVIOUS

LEMMA PayloadCell ==
    ASSUME NEW at \in Nat, NEW n \in Nat, NEW i \in at + 1 .. at + n + 2, i # at + 1, i # at + 2 + n
    PROVE  i - at - 1 \in 1 .. n /\ i = at + 1 + (i - at - 1)
OBVIOUS

\* A bad cell that is not the type of a record is noticed.
LEMMA DamagedFrame ==
    ASSUME JournalTyped, NEW k \in DOMAIN written, pos = written[k].at,
           sound \in pos + 1 .. pos + Len(written[k].payload) + 2,
           \A i \in pos + 1 .. pos + Len(written[k].payload) + 2 : i # sound => Kept(i),
           sound \in DOMAIN disk, pos + Len(written[k].payload) + 2 <= Len(disk),
           disk[sound] \in Damages, disk[sound] # Wrote(written[k], sound),
           crc_stored \in Stale, ~AtEnd, NEW crc \in Crcs
    PROVE  crc # Checksum(Payload)
<1> DEFINE p == written[k].payload
           n == Len(p)
<1>1. /\ pos \in Nat /\ n \in 1 .. MaxSize /\ MaxSize \in Nat /\ p \in Seq(PlainCells) /\ n \in Nat /\ n >= 1
      /\ p \in Payloads /\ p \in Readable /\ sound \in Nat
  BY EntryAt DEF JournalTyped
<1>0. pos \in Nat /\ n \in Nat /\ n >= 1 /\ n <= MaxSize /\ MaxSize \in Nat /\ sound \in Nat
  BY <1>1
<1>2. \A i \in pos + 1 .. pos + n + 2 : i \in DOMAIN disk
  <2> DEFINE l == Len(disk)
  <2>1. pos + n + 2 <= l
    OBVIOUS
  <2>2. DOMAIN disk = 1 .. l /\ l \in Nat
    BY DEF JournalTyped
  <2> HIDE DEF l, p, n
  <2>3. \A i \in pos + 1 .. pos + n + 2 : i \in 1 .. l
    BY ONLY <1>0, <2>1, <2>2
  <2>4. QED
    BY <2>2, <2>3
<1>3. SUFFICES ASSUME crc = Checksum(Payload) PROVE FALSE
  OBVIOUS
<1>4. /\ Wrote(written[k], pos + 1) = n
      /\ \A i \in 1 .. n : Wrote(written[k], pos + 1 + i) = p[i]
      /\ Wrote(written[k], pos + 2 + n) = Checksum(p)
  BY EntryAt, FrameCells
<1>5. sound # pos + 1 => disk[pos + 1] = n
  <2>1. pos + 1 \in pos + 1 .. pos + n + 2
    BY <1>1
  <2>2. QED
    BY <2>1, FrameOnDisk
<1>6. \A i \in 1 .. n : sound # pos + 1 + i => disk[pos + 1 + i] = p[i]
  <2>1. \A i \in 1 .. n : pos + 1 + i \in pos + 1 .. pos + n + 2
    BY <1>0, CellInFrame
  <2>2. QED
    BY <2>1, FrameOnDisk
<1>7. sound # pos + 2 + n => disk[pos + 2 + n] = Checksum(p)
  <2>1. pos + 2 + n \in pos + 1 .. pos + n + 2
    <3> HIDE DEF n
    <3>1. QED
      BY <1>0
  <2>2. QED
    BY <2>1, FrameOnDisk
<1>8. pos + 1 \in DOMAIN disk
  BY <1>1, <1>2
<1>9. CASE sound = pos + 1
  <2>1. Size \in Nat /\ Size # n /\ Size <= MaxSize
    <3>1. Size \in Nat /\ Size # n
      BY <1>4, <1>9, CellSets DEF Size
    <3>2. QED
      BY <3>1, <1>1, <1>8 DEF AtEnd
  <2>2. Payload \in Readable /\ Payload \in [1 .. Size -> Cells] /\ (Payload # << >> <=> Size # 0)
    BY <1>1, <1>8, <2>1, PayloadReadable
  <2>3. pos + 2 + n \in DOMAIN disk /\ disk[pos + 2 + n] = Checksum(p)
    BY <1>1, <1>2, <1>7, <1>9
  <2>4. ASSUME NEW i \in 1 .. n PROVE pos + 1 + i \in DOMAIN disk /\ disk[pos + 1 + i] = p[i]
    <3>1. pos + 1 + i \in pos + 1 .. pos + n + 2 /\ sound # pos + 1 + i
      BY <1>0, <1>9, CellInFrame
    <3>2. QED
      BY <1>2, <1>6, <3>1
  <2>5. ASSUME Size < n PROVE crc = p[Size + 1]
    <3>1. Size + 1 \in 1 .. n /\ pos + 1 + (Size + 1) = pos + 2 + Size
      BY <1>0, <2>1, <2>5, NextCell
    <3>2. pos + 2 + Size \in DOMAIN disk /\ disk[pos + 2 + Size] = p[Size + 1]
      BY <3>1, <2>4
    <3>3. QED
      BY <3>2 DEF Crcs
  <2>6. CASE Size = 0
    <3>1. Payload = << >>
      BY <2>2, <2>6
    <3>2. crc = p[1]
      BY <2>5, <2>6, <1>1
    <3>3. QED
      BY <3>1, <3>2, <1>1, <1>3, PayloadCells, ChecksumAssumption
  <2>7. CASE Size # 0 /\ Size < n
    <3>1. Size + 1 \in 1 .. n
      BY <1>1, <2>1, <2>7
    <3>2. crc \in PlainCells
      BY <3>1, <2>5, <2>7, <1>1, PayloadCells
    <3>3. QED
      BY <3>2, <2>2, <2>7, <1>3, ChecksumNotPlain
  <2>8. CASE Size > n
    <3>1. n + 1 \in 1 .. Size /\ pos + 1 + (n + 1) = pos + 2 + n
      BY <1>0, <2>1, <2>8, NextCell
    <3>2. Payload[n + 1] = disk[pos + 2 + n]
      BY <3>1, <2>3 DEF Payload
    <3>3. Checksum(p) \notin PlainCells
      <4>1. p # << >>
        BY <1>1
      <4>2. QED
        BY <4>1, <1>1, ChecksumNotPlain
    <3>4. Payload[n + 1] \notin PlainCells
      BY <3>2, <3>3, <2>3
    <3>5. ASSUME NEW q \in Payloads \cup {<< >>} PROVE Checksum(q) # crc
      <4>1. SUFFICES ASSUME Checksum(q) = crc PROVE FALSE
        OBVIOUS
      <4>2. Payload = q
        BY <4>1, <1>3, <2>2, PayloadsReadable, NoCollision
      <4>3. q \in Payloads
        BY <4>2, <2>2, <2>8, <1>1, <3>5
      <4>4. DOMAIN q = 1 .. Size /\ q \in Seq(PlainCells)
        BY <4>2, <4>3, <2>2, PayloadCells
      <4>5. Len(q) = Size
        BY <4>4, <2>1
      <4>6. q[n + 1] \in PlainCells
        BY <4>3, <4>5, <3>1, PayloadCells
      <4>7. QED
        BY <4>2, <4>6, <3>4
    <3>6. crc \notin PlainCells
      <4>1. Payload # << >>
        BY <2>2, <2>8, <1>1
      <4>2. QED
        BY <4>1, <1>3, <2>2, ChecksumNotPlain
    <3>7. crc \in Cells \cup Stale
      BY DEF Crcs, JournalTyped, Stale
    <3>8. QED
      BY <3>5, <3>6, <3>7, CellSets DEF Cells, Stale
  <2>9. QED
    BY <2>1, <2>6, <2>7, <2>8, <1>1
<1>10. CASE sound # pos + 1
  <2>1. Size = n
    BY <1>5, <1>10 DEF Size
  <2>2. Payload \in Readable /\ Payload \in [1 .. n -> Cells]
    BY <2>1, <1>1, <1>8, PayloadReadable
  <2>3. CASE sound = pos + 2 + n
    <3>0. ASSUME NEW i \in 1 .. n PROVE pos + 1 + i \in DOMAIN disk /\ disk[pos + 1 + i] = p[i]
      <4>1. pos + 1 + i \in pos + 1 .. pos + n + 2 /\ sound # pos + 1 + i
        BY <1>0, <2>3, CellInFrame
      <4>2. QED
        BY <1>2, <1>6, <4>1
    <3>1. Payload = [i \in 1 .. n |-> p[i]]
      BY <3>0, <2>1 DEF Payload
    <3>2. Payload = p
      BY <3>1, <1>1
    <3>3. crc = disk[sound]
      BY <1>2, <2>1, <2>3, <1>1 DEF Crcs
    <3>4. QED
      BY <3>2, <3>3, <1>3, <1>4, <2>3
  <2>4. CASE sound # pos + 2 + n
    <3>1. PICK j \in 1 .. n : sound = pos + 1 + j
      <4>1. sound - pos - 1 \in 1 .. n /\ sound = pos + 1 + (sound - pos - 1)
        BY <1>0, <1>10, <2>4, PayloadCell
      <4>2. QED
        BY <4>1
    <3>2. Payload[j] = disk[sound]
      BY <3>1, <2>1 DEF Payload
    <3>3. Payload[j] # p[j]
      BY <3>1, <3>2, <1>4
    <3>4. crc = Checksum(p)
      <4>1. pos + 2 + n \in DOMAIN disk
        BY <1>1, <1>2
      <4>2. QED
        BY <4>1, <2>1, <2>4, <1>7 DEF Crcs
    <3>5. Payload = p
      BY <3>4, <1>1, <1>3, <2>2, NoCollision
    <3>6. QED
      BY <3>3, <3>5
  <2>5. QED
    BY <2>3, <2>4
<1>11. QED
  BY <1>9, <1>10
-----------------------------------------------------------------------------
LEMMA Beyond ==
    ASSUME NEW c \in Nat, NEW m \in Nat, NEW i \in Nat, i >= c, i <= c - 1 + m
    PROVE  i - c + 1 \in 1 .. m /\ i = c - 1 + (i - c + 1)
OBVIOUS

LEMMA EndAfter ==
    ASSUME JournalTyped, Laid
    PROVE  End \in Nat /\ End >= 2
<1>1. CASE written = << >>
  BY <1>1 DEF End
<1>2. CASE written # << >>
  <2>1. Len(written) \in DOMAIN written
    BY <1>2 DEF JournalTyped
  <2>2. QED
    BY <1>2, <2>1, EntryAt DEF End, After, Laid
<1>3. QED
  BY <1>1, <1>2

LEMMA AfterAt ==
    ASSUME JournalTyped, NEW k \in DOMAIN written
    PROVE  After(written[k]) \in Nat /\ After(written[k]) > written[k].at
BY EntryAt DEF After

\* A record, or the part of it that fits on the disk, is appended to the file.
LEMMA Appended ==
    ASSUME JournalTyped, Laid, Stored, fault = "none",
           NEW type \in Types, NEW payload \in Payloads, NEW kept \in 0 .. Len(Framed(type, payload)),
           disk' = disk \o SubSeq(Framed(type, payload), 1, kept),
           written' = Append(written, [type |-> type, payload |-> payload, at |-> sound]),
           sound' = Len(disk') + 1
    PROVE  /\ disk' \in Seq(Cells) /\ written' \in Seq(Entry) /\ Laid' /\ written' # << >>
           /\ Len(disk') = sound' - 1 /\ sound' <= End' /\ sound' \in Nat \ {0}
           /\ kept = Len(Framed(type, payload)) => sound' = End'
           /\ \A i \in 1 .. sound' - 1 : Kept(i)'
<1> DEFINE w == [type |-> type, payload |-> payload, at |-> sound]
           F == Framed(type, payload)
           n == Len(written)
<1>1. /\ sound \in Nat /\ disk \in Seq(Cells) /\ written \in Seq(Entry) /\ n \in Nat
      /\ sound = End /\ Len(disk) = sound - 1 /\ sound >= 2
  BY EndAfter DEF JournalTyped, Stored
<1>2. w \in Entry /\ w.type = type /\ w.payload = payload /\ w.at = sound
  BY <1>1 DEF Entry
<1>3. F \in Seq(Cells) /\ Len(F) = Len(payload) + 3 /\ Len(payload) \in Nat
  BY <1>2, FrameCells, PayloadCells
<1>4. /\ written' \in Seq(Entry) /\ Len(written') = n + 1 /\ DOMAIN written' = 1 .. n + 1
      /\ written'[n + 1] = w /\ \A k \in 1 .. n : written'[k] = written[k]
      /\ written' # << >> /\ DOMAIN written = 1 .. n
  <2> HIDE DEF w
  <2>1. written' = Append(written, w)
    BY DEF w
  <2>2. QED
    BY <1>1, <1>2, <2>1
<1>5. /\ disk' \in Seq(Cells) /\ Len(disk') = sound - 1 + kept
      /\ \A i \in 1 .. sound - 1 : disk'[i] = disk[i]
      /\ \A j \in 1 .. kept : disk'[sound - 1 + j] = F[j]
  <2> HIDE DEF F
  <2>1. SubSeq(F, 1, kept) \in Seq(Cells) /\ Len(SubSeq(F, 1, kept)) = kept
        /\ \A j \in 1 .. kept : SubSeq(F, 1, kept)[j] = F[j]
    BY <1>3 DEF F
  <2>2. disk' = disk \o SubSeq(F, 1, kept)
    BY DEF F
  <2>3. /\ disk' \in Seq(Cells) /\ Len(disk') = Len(disk) + kept
        /\ \A i \in 1 .. Len(disk) : disk'[i] = disk[i]
        /\ \A j \in 1 .. kept : disk'[Len(disk) + j] = F[j]
    <3> DEFINE part == SubSeq(F, 1, kept)
    <3>1. part \in Seq(Cells) /\ Len(part) = kept /\ (\A j \in 1 .. kept : part[j] = F[j]) /\ disk' = disk \o part
      BY <2>1, <2>2
    <3> HIDE DEF part
    <3>2. /\ disk \o part \in Seq(Cells) /\ Len(disk \o part) = Len(disk) + Len(part)
          /\ \A i \in 1 .. Len(disk) : (disk \o part)[i] = disk[i]
          /\ \A j \in 1 .. Len(part) : (disk \o part)[Len(disk) + j] = part[j]
      <4>1. disk \in Seq(Cells) /\ part \in Seq(Cells)
        BY <1>1, <3>1
      <4>2. QED
        <5>1. disk \o part \in Seq(Cells) /\ Len(disk \o part) = Len(disk) + Len(part)
          BY <4>1
        <5>2. \A i \in 1 .. Len(disk) : (disk \o part)[i] = disk[i]
          BY <4>1
        <5>3. \A j \in 1 .. Len(part) : (disk \o part)[Len(disk) + j] = part[j]
          BY <4>1
        <5>4. QED
          BY <5>1, <5>2, <5>3
    <3>3. QED
      BY <3>1, <3>2
  <2>4. QED
    BY <1>1, <2>3
<1>6. End' = sound + Len(payload) + 3
  BY <1>1, <1>2, <1>4 DEF End, After
<1>7. After(w) = sound + Len(payload) + 3
  BY <1>2 DEF After
<1> HIDE DEF w, F
<1>8. kept \in Nat /\ kept <= Len(payload) + 3 /\ (kept = Len(Framed(type, payload)) => kept = Len(payload) + 3)
  BY <1>3 DEF F
<1>9. \A k \in 1 .. n : /\ written[k].at \in Nat /\ After(written[k]) \in Nat /\ written[k].at >= 2
                        /\ written[k].at < After(written[k]) /\ After(written[k]) <= sound
  BY <1>1, <1>4, EntryAt, AfterAt DEF Laid
<1>10. Laid'
  <2>1. \A k \in DOMAIN written' : written'[k].at >= 2 /\ After(written'[k]) <= End'
    BY <1>1, <1>2, <1>3, <1>4, <1>6, <1>7, <1>9
  <2>2. written'[1].at = 2
    BY <1>1, <1>2, <1>4 DEF Laid, End
  <2>3. ASSUME NEW k \in DOMAIN written', k + 1 \in DOMAIN written'
        PROVE  written'[k + 1].at = After(written'[k])
    <3>1. CASE k = n
      <4>1. written # << >> /\ n \in DOMAIN written
        BY <1>1, <1>4, <3>1, <2>3
      <4>2. QED
        BY <1>1, <1>2, <1>4, <3>1, <4>1 DEF End
    <3>2. CASE k # n
      <4>1. k \in 1 .. n /\ k + 1 \in 1 .. n
        BY <1>1, <1>4, <2>3, <3>2
      <4>2. QED
        BY <1>4, <4>1 DEF Laid
    <3>3. QED
      BY <3>1, <3>2
  <2>4. ASSUME NEW j \in DOMAIN written', NEW k \in DOMAIN written', j < k
        PROVE  After(written'[j]) <= written'[k].at
    <3>1. j \in 1 .. n /\ written'[j] = written[j]
      BY <1>1, <1>4, <2>4
    <3>2. CASE k = n + 1
      BY <1>2, <1>4, <1>9, <3>1, <3>2
    <3>3. CASE k # n + 1
      <4>1. k \in 1 .. n
        BY <1>1, <1>4, <3>3
      <4>2. QED
        BY <1>4, <2>4, <3>1, <4>1 DEF Laid
    <3>4. QED
      BY <3>2, <3>3
  <2>5. QED
    BY <2>1, <2>2, <2>3, <2>4 DEF Laid
<1>11. ASSUME NEW i \in 1 .. sound' - 1 PROVE Kept(i)'
  <2>1. i \in DOMAIN disk' /\ i \in Nat
    BY <1>1, <1>5, <1>8
  <2>2. ASSUME NEW k \in DOMAIN written', Within(written'[k], i)
        PROVE  disk'[i] = Wrote(written'[k], i)
    <3>1. CASE k \in 1 .. n
      <4>1. i < sound
        BY <1>1, <1>4, <1>9, <2>1, <2>2, <3>1 DEF Within
      <4>2. i \in 1 .. sound - 1
        BY <1>1, <2>1, <4>1, <1>5
      <4>3. Kept(i)
        BY <4>2 DEF Stored
      <4>4. disk[i] = Wrote(written[k], i)
        BY <1>4, <2>2, <3>1, <4>3 DEF Kept
      <4>5. QED
        BY <1>4, <1>5, <3>1, <4>2, <4>4
    <3>2. CASE k = n + 1
      <4>1. i >= sound
        BY <1>2, <1>4, <2>2, <3>2 DEF Within
      <4>2. i - sound + 1 \in 1 .. kept /\ i = sound - 1 + (i - sound + 1)
        <5>1. i <= sound - 1 + kept
          BY <1>5, <2>1, <1>1, <1>8
        <5>2. QED
          BY <1>1, <1>8, <2>1, <4>1, <5>1, Beyond
      <4>3. disk'[i] = F[i - sound + 1]
        BY <1>5, <4>2
      <4>4. Wrote(w, i) = F[i - sound + 1]
        BY <1>2 DEF Wrote, F
      <4>5. QED
        BY <1>4, <3>2, <4>3, <4>4
    <3>3. QED
      BY <1>1, <1>4, <3>1, <3>2
  <2>3. QED
    BY <2>1, <2>2 DEF Kept
<1>12. Len(disk') = sound' - 1 /\ sound' <= End' /\ sound' \in Nat \ {0}
       /\ (kept = Len(Framed(type, payload)) => sound' = End')
  BY <1>1, <1>3, <1>5, <1>6, <1>8
<1>13. QED
  BY <1>4, <1>5, <1>10, <1>11, <1>12
-----------------------------------------------------------------------------
\* Frames do not overlap, and all of them lie before End.
LEMMA FrameInFile ==
    ASSUME JournalTyped, Laid, NEW k \in DOMAIN written
    PROVE  /\ written[k].at >= 2
           /\ After(written[k]) = written[k].at + Len(written[k].payload) + 3 /\ After(written[k]) <= End
           /\ k + 1 <= Len(written) => Begin(k + 1) = After(written[k])
           /\ k = Len(written) => Begin(k + 1) = After(written[k])
           /\ \A j \in DOMAIN written : k < j => After(written[k]) <= written[j].at
<1>1. /\ DOMAIN written = 1 .. Len(written) /\ k \in 1 .. Len(written) /\ Len(written) \in Nat
  BY EntryAt
<1>2. written # << >>
  BY <1>1
<1>3. k + 1 <= Len(written) => k + 1 \in DOMAIN written
  BY <1>1
<1>4. k = Len(written) => End = After(written[k])
  BY <1>2 DEF End
<1>5. QED
  BY <1>1, <1>3, <1>4 DEF Laid, Begin, After

\* The two things a turn of read_all can do: the next record that was written
\* is returned, or an empty one from the zeros at the end.
ReadsNext(n) ==
    /\ Len(records) = n /\ n + 1 \in DOMAIN written /\ pos = written[n + 1].at
    /\ Size = Len(written[n + 1].payload) /\ Payload = written[n + 1].payload
    /\ disk[pos] = written[n + 1].type \/ (fault = "type" /\ pos = sound)
    /\ fault = "damaged" /\ sound # 1 => pos + 3 + Size <= sound
ReadsZeros(n) ==
    /\ Size = 0 /\ Payload = << >> /\ fault = "zeroed" /\ pos + 3 >= sound
    /\ \A k \in Whole : k <= n

LEMMA VerifiedTurn ==
    ASSUME JournalTyped, Laid, Stored, NEW n \in Nat, Matched(n), Following(n),
           ~AtEnd, NEW crc \in Crcs, crc = Checksum(Payload)
    PROVE  ReadsNext(n) \/ ReadsZeros(n)
<1>1. /\ pos \in Nat /\ sound \in Nat /\ sound >= 1 /\ disk \in Seq(Cells) /\ Len(disk) \in Nat
      /\ DOMAIN disk = 1 .. Len(disk) /\ Len(written) \in Nat /\ DOMAIN written = 1 .. Len(written)
      /\ fault \in {"none", "cut", "zeroed", "damaged", "type"} /\ Len(records) \in Nat
  BY DEF JournalTyped
<1>2. pos + 1 \in DOMAIN disk
  BY DEF AtEnd
<1>3. End \in Nat /\ End >= 2 /\ sound <= End
  BY EndAfter DEF Stored
<1>4. n <= Len(written) /\ n <= Len(records)
  BY DEF Matched
<1>5. CASE Len(records) > n
  <2>1. n + 1 \in n + 1 .. Len(records)
    BY <1>1, <1>5
  <2>2. fault = "zeroed"
    BY <2>1 DEF Matched
  <2>3. pos >= sound /\ \A k \in Whole : k <= n
    BY <1>5 DEF Following
  <2>4. Size = 0 /\ Payload = << >>
    BY <1>1, <1>2, <2>2, <2>3, LostSize DEF Stored
  <2>5. QED
    BY <1>1, <2>2, <2>3, <2>4 DEF ReadsZeros
<1>6. CASE Len(records) = n /\ n = Len(written)
  <2>1. pos = End
    BY <1>1, <1>6 DEF Following, Begin
  <2>2. fault = "zeroed"
    BY <1>1, <1>2, <1>3, <2>1 DEF Stored
  <2>3. Size = 0 /\ Payload = << >>
    BY <1>1, <1>2, <1>3, <2>1, <2>2, LostSize DEF Stored
  <2>4. \A k \in Whole : k <= n
    BY <1>1, <1>6 DEF Whole
  <2>5. QED
    BY <1>1, <1>3, <2>1, <2>2, <2>3, <2>4 DEF ReadsZeros
<1>7. CASE Len(records) = n /\ n < Len(written)
  <2> DEFINE w == written[n + 1]
             len == Len(w.payload)
  <2>1. n + 1 \in DOMAIN written
    BY <1>1, <1>7
  <2>2. pos = w.at
    BY <1>1, <1>7 DEF Following, Begin
  <2>3. len \in Nat /\ len >= 1
    BY <2>1, EntryAt
  <2>4. After(w) = pos + len + 3 /\ After(w) <= End /\ pos >= 2
    BY <2>1, <2>2, FrameInFile
  <2>5. crc_stored \in Stale
    BY DEF Following
  <2> HIDE DEF len
  <2>6. ASSUME \A i \in pos + 1 .. pos + len + 2 : Kept(i)
        PROVE  Size = len /\ Payload = w.payload
    BY <2>1, <2>2, <2>6, ReadsKept DEF len
  <2>7. Kept(pos) => disk[pos] = w.type
    BY <2>1, <2>2, FrameOnDisk
  <2>8. ASSUME Size = len, Payload = w.payload, Kept(pos) \/ (fault = "type" /\ pos = sound),
               fault = "damaged" /\ sound # 1 => pos + 3 + len <= sound
        PROVE  ReadsNext(n)
    BY <1>7, <2>1, <2>2, <2>7, <2>8 DEF ReadsNext, len
  <2>9. CASE fault = "none"
    <3>1. \A i \in 1 .. End - 1 : Kept(i)
      BY <2>9 DEF Stored
    <3>2. Kept(pos) /\ \A i \in pos + 1 .. pos + len + 2 : Kept(i)
      BY <1>1, <1>3, <2>3, <2>4, <3>1
    <3>3. QED
      BY <2>6, <2>8, <2>9, <3>2
  <2>10. CASE fault \in {"cut", "zeroed"}
    <3>1. \A i \in DOMAIN disk : i >= sound => disk[i] = 0
      BY <1>1, <2>10 DEF Stored
    <3>2. \A i \in 1 .. sound - 1 : Kept(i)
      BY DEF Stored
    <3>3. CASE sound > pos + len + 2
      <4>1. Kept(pos) /\ \A i \in pos + 1 .. pos + len + 2 : Kept(i)
        BY <1>1, <2>3, <2>4, <3>2, <3>3
      <4>2. QED
        BY <2>6, <2>8, <2>10, <4>1
    <3>4. CASE sound > pos + 1 /\ sound <= pos + len + 2
      <4>1. Kept(pos)
        BY <1>1, <2>4, <3>2, <3>4
      <4>2. Size = len /\ Payload = w.payload
        BY <2>1, <2>2, <2>5, <3>1, <3>2, <3>4, TornFrame DEF len
      <4>3. QED
        BY <2>8, <2>10, <4>1, <4>2
    <3>5. CASE sound <= pos + 1
      <4>1. fault = "zeroed"
        BY <1>1, <1>2, <2>10, <3>5 DEF Stored
      <4>2. Size = 0 /\ Payload = << >>
        BY <1>2, <3>1, <3>5, LostSize
      <4>3. ASSUME NEW k \in Whole PROVE k <= n
        <5>1. k \in DOMAIN written /\ written[k].at + Len(written[k].payload) + 2 < sound
          BY DEF Whole
        <5>2. written[k].at \in Nat /\ Len(written[k].payload) \in Nat /\ k \in Nat
          BY <5>1, EntryAt
        <5>3. k # n + 1
          <6>1. SUFFICES ASSUME k = n + 1 PROVE FALSE
            OBVIOUS
          <6>2. pos + len + 2 < sound
            BY <2>2, <5>1, <6>1 DEF len
          <6>3. QED
            BY <1>1, <2>3, <3>5, <6>2
        <5>4. ~(n + 1 < k)
          <6>1. SUFFICES ASSUME n + 1 < k PROVE FALSE
            OBVIOUS
          <6>2. pos + len + 3 <= written[k].at
            BY <2>1, <2>4, <5>1, <6>1, FrameInFile
          <6>3. QED
            BY <1>1, <2>3, <3>5, <5>1, <5>2, <6>2
        <5>5. QED
          BY <5>2, <5>3, <5>4
      <4>4. QED
        BY <1>1, <3>5, <4>1, <4>2, <4>3 DEF ReadsZeros
    <3>6. QED
      BY <1>1, <2>3, <3>3, <3>4, <3>5
  <2>11. CASE fault \in {"damaged", "type"}
    <3>1. /\ Len(disk) = End - 1 /\ sound \in DOMAIN disk /\ disk[sound] \in Damages
          /\ \A i \in DOMAIN disk \ {sound} : Kept(i)
      BY <2>11 DEF Stored
    <3>2. \A i \in pos .. pos + len + 2 : i \in DOMAIN disk
      BY <1>1, <1>3, <2>3, <2>4, <3>1
    <3>3. \A i \in pos .. pos + len + 2 : i # sound => Kept(i)
      BY <3>1, <3>2
    <3>4. \A i \in pos + 1 .. pos + len + 2 : i \in pos .. pos + len + 2 /\ i # pos
      BY <1>1, <2>3
    <3>5. pos \in pos .. pos + len + 2
      BY <1>1, <2>3
    <3>6. CASE fault = "damaged" /\ ~(sound \in pos + 1 .. pos + len + 2)
      <4>1. \A i \in pos + 1 .. pos + len + 2 : Kept(i)
        BY <3>3, <3>4, <3>6
      <4>2. sound # pos
        BY <2>1, <2>2, <3>6 DEF Stored
      <4>3. Kept(pos)
        BY <3>3, <3>5, <4>2
      <4>4. sound # 1 => pos <= sound
        BY <3>6 DEF Following
      <4>5. sound # 1 => pos + 3 + len <= sound
        BY <1>1, <2>3, <3>6, <4>2, <4>4
      <4>6. QED
        BY <2>6, <2>8, <4>1, <4>3, <4>5
    <3>7. CASE fault = "damaged" /\ sound \in pos + 1 .. pos + len + 2
      <4>1. Within(w, sound)
        <5>1. w.at <= sound
          BY <1>1, <2>2, <2>3, <3>7
        <5>2. sound < After(w)
          BY <1>1, <2>3, <2>4, <3>7
        <5>3. QED
          BY <5>1, <5>2 DEF Within
      <4>2. disk[sound] # Wrote(w, sound)
        BY <2>1, <2>11, <4>1 DEF Stored
      <4>3. \A i \in pos + 1 .. pos + len + 2 : i # sound => Kept(i)
        BY <3>3, <3>4
      <4>4. pos + len + 2 <= Len(disk)
        BY <1>1, <1>3, <2>3, <2>4, <3>1
      <4>5. crc # Checksum(Payload)
        BY <2>1, <2>2, <2>5, <3>1, <3>7, <4>2, <4>3, <4>4, DamagedFrame DEF len
      <4>6. QED
        BY <4>5
    <3>8. CASE fault = "type"
      <4>1. PICK j \in DOMAIN written : written[j].at = sound
        BY <3>8 DEF Stored
      <4>2. j \in Nat /\ After(written[j]) > sound
        BY <1>1, <4>1, AfterAt
      <4>3. j < n + 1 => After(written[j]) <= pos
        BY <2>1, <2>2, <4>1, FrameInFile
      <4>4. n + 1 < j => pos + len + 3 <= sound
        BY <2>1, <2>4, <4>1, FrameInFile
      <4>5. After(written[j]) \in Nat
        BY AfterAt
      <4>6. sound <= pos \/ pos + len + 3 <= sound
        BY <1>1, <2>2, <4>1, <4>2, <4>3, <4>4, <4>5
      <4>7. \A i \in pos + 1 .. pos + len + 2 : Kept(i)
        BY <1>1, <2>3, <3>3, <3>4, <4>6
      <4>8. Kept(pos) \/ pos = sound
        BY <3>3, <3>5
      <4>9. QED
        BY <2>6, <2>8, <3>8, <4>7, <4>8
    <3>9. QED
      BY <2>11, <3>6, <3>7, <3>8
  <2>12. QED
    BY <1>1, <2>9, <2>10, <2>11
<1>8. Len(records) > n \/ Len(records) = n
  BY <1>1, <1>4
<1>9. n < Len(written) \/ n = Len(written)
  <2>1. Len(written) \in Nat /\ n <= Len(written)
    BY <1>1, <1>4
  <2>2. \A m \in Nat : n <= m => n < m \/ n = m
    OBVIOUS
  <2>3. QED
    BY <2>1, <2>2
<1>10. QED
  BY <1>5, <1>6, <1>7, <1>8, <1>9
-----------------------------------------------------------------------------
\* A file that is left alone.
LEMMA SameFile ==
    ASSUME UNCHANGED <<disk, written, sound, fault>>
    PROVE  (Laid => Laid') /\ (Stored => Stored')
<1>1. End' = End
  BY DEF End
<1>2. \A i : Kept(i)' <=> Kept(i)
  BY DEF Kept
<1>3. QED
  BY <1>1, <1>2 DEF Laid, Stored

\* Nothing was read yet.
LEMMA NothingRead ==
    ASSUME JournalTyped', records' = << >>, ~reading'
    PROVE  ReadSoFar'
<1>1. Matched(0)'
  <2>1. Len(records') = 0 /\ Len(written') \in Nat
    BY DEF JournalTyped
  <2>2. QED
    BY <2>1 DEF Matched
<1>2. QED
  BY <1>1 DEF ReadSoFar

\* What was read is kept when the file is closed, or damaged later.
LEMMA ReadBefore ==
    ASSUME JournalTyped, ReadSoFar, UNCHANGED <<records, written>>, ~reading',
           UNCHANGED <<fault, sound>> \/ fault = "none"
    PROVE  ReadSoFar'
<1>1. PICK n \in Nat : Matched(n)
  BY DEF ReadSoFar
<1>2. Matched(n)'
  BY <1>1 DEF Matched, Empty
<1>3. QED
  BY <1>1, <1>2 DEF ReadSoFar

LEMMA InitHolds == JournalInit => JInv
<1> SUFFICES ASSUME JournalInit PROVE JInv
  OBVIOUS
<1>1. JournalTyped
  <2>1. disk = << >> /\ written = << >> /\ records = << >>
    BY DEF JournalInit
  <2>2. disk \in Seq(Cells) /\ written \in Seq(Entry) /\ records \in Seq([type : Cells, payload : Readable])
    BY <2>1
  <2>3. pos \in Nat \ {0} /\ sound \in Nat \ {0} /\ files \in Nat
    BY DEF JournalInit
  <2>4. writing \in BOOLEAN /\ failed \in BOOLEAN /\ reading \in BOOLEAN /\ fault = "none"
    BY DEF JournalInit
  <2>5. QED
    BY <2>2, <2>3, <2>4 DEF JournalTyped
<1>4. Modes /\ Laid
  BY DEF JournalInit, Modes, Laid
<1>2. Matched(0) /\ ~reading /\ files = 0
  BY DEF JournalInit, Matched
<1>3. QED
  BY <1>1, <1>2, <1>4 DEF JInv, ReadSoFar

LEMMA OpenWriteKeeps == JInv /\ OpenWrite => JInv'
<1> SUFFICES ASSUME JInv, OpenWrite PROVE JInv'
  OBVIOUS
<1>1. JournalTyped'
  <2>1. <<Magic>> \in Seq(Cells)
    BY CellSets
  <2>2. << >> \in Seq(Entry) /\ << >> \in Seq([type : Cells, payload : Readable])
    OBVIOUS
  <2>3. JournalTyped /\ OpenWrite
    BY DEF JInv
  <2>4. disk' \in Seq(Cells) /\ written' \in Seq(Entry) /\ records' \in Seq([type : Cells, payload : Readable])
    BY <2>1, <2>2, <2>3 DEF OpenWrite
  <2>5. pos' \in Nat \ {0} /\ sound' \in Nat \ {0} /\ files' \in Nat
    BY <2>3 DEF OpenWrite, JournalTyped
  <2>6. writing' \in BOOLEAN /\ failed' \in BOOLEAN /\ reading' \in BOOLEAN /\ fault' = "none"
    BY <2>3 DEF OpenWrite, JournalTyped
  <2>7. QED
    BY <2>4, <2>5, <2>6 DEF JournalTyped
<1>2. Modes'
  BY DEF JInv, OpenWrite, JournalTyped, Modes
<1>3. Laid'
  BY DEF OpenWrite, Laid
<1>4. Stored'
  <2>1. End' = 2 /\ Len(disk') = 1 /\ sound' = 2 /\ fault' = "none" /\ written' = << >> /\ DOMAIN disk' = {1}
    BY DEF OpenWrite, End
  <2>2. \A i \in 1 .. 1 : Kept(i)'
    BY <2>1 DEF Kept
  <2>3. QED
    BY <2>1, <2>2 DEF Stored
<1>5. ReadSoFar'
  BY <1>1, NothingRead DEF OpenWrite, JInv, Modes
<1>6. QED
  BY <1>1, <1>2, <1>3, <1>4, <1>5 DEF JInv

LEMMA OpenWriteAgainKeeps == JInv /\ OpenWriteAgain => JInv'
<1> SUFFICES ASSUME JInv, OpenWriteAgain PROVE JInv'
  OBVIOUS
<1>1. JournalTyped'
  BY DEF JInv, OpenWriteAgain, JournalTyped
<1>2. Modes'
  BY DEF JInv, OpenWriteAgain, JournalTyped, Modes
<1>3. files > 0 /\ files' > 0
  BY DEF JInv, OpenWriteAgain, JournalTyped, Modes
<1>4. Laid' /\ Stored'
  BY <1>3, SameFile DEF JInv, OpenWriteAgain
<1>5. ReadSoFar'
  BY <1>1, NothingRead DEF OpenWriteAgain, JInv, Modes
<1>6. QED
  BY <1>1, <1>2, <1>4, <1>5 DEF JInv

LEMMA WriteRecordKeeps ==
    ASSUME JInv, NEW type \in Types, NEW payload \in Payloads, WriteRecord(type, payload)
    PROVE  JInv'
<1>1. /\ writing /\ files > 0 /\ records = << >> /\ ~reading /\ Stored /\ Laid /\ JournalTyped
      /\ UNCHANGED <<writing, failed, reading, pos, crc_stored, records, files, fault>>
  BY DEF JInv, Modes, WriteRecord
<1>2. CASE failed
  <2>1. JournalTyped' /\ Modes'
    BY <1>1, <1>2 DEF JInv, WriteRecord, JournalTyped, Modes
  <2>2. Laid' /\ Stored'
    BY <1>1, <1>2, SameFile DEF WriteRecord
  <2>3. ReadSoFar'
    BY <1>1, <2>1, NothingRead
  <2>4. QED
    BY <2>1, <2>2, <2>3 DEF JInv
<1>3. CASE ~failed
  <2> DEFINE F == Framed(type, payload)
  <2>1. F \in Seq(Cells) /\ Len(F) \in 0 .. Len(F)
    <3>1. [type |-> type, payload |-> payload, at |-> 0] \in Entry
      BY DEF Entry
    <3>2. F \in Seq(Cells)
      BY <3>1, FrameCells
    <3>3. QED
      BY <3>2
  <2>2. SubSeq(F, 1, Len(F)) = F
    BY <2>1
  <2>3. fault = "none" /\ fault' = "none"
    BY <1>1, <1>3 DEF JInv, Modes
  <2>4. /\ disk' = disk \o F /\ sound' = Len(disk') + 1
        /\ written' = Append(written, [type |-> type, payload |-> payload, at |-> sound])
    BY <1>3 DEF WriteRecord
  <2>5. /\ disk' \in Seq(Cells) /\ written' \in Seq(Entry) /\ Laid' /\ written' # << >>
        /\ Len(disk') = sound' - 1 /\ sound' \in Nat \ {0} /\ sound' = End'
        /\ \A i \in 1 .. sound' - 1 : Kept(i)'
    <3> HIDE DEF F
    <3>1. disk' = disk \o SubSeq(F, 1, Len(F))
      BY <2>2, <2>4
    <3>2. QED
      BY <1>1, <2>1, <2>3, <2>4, <3>1, Appended DEF F
  <2>6. JournalTyped'
    BY <1>1, <2>5 DEF JournalTyped
  <2>7. Modes'
    BY <1>1, <2>3 DEF JInv, Modes
  <2>8. Stored'
    <3>1. sound' <= End' /\ Len(disk') = End' - 1
      BY <2>5
    <3>2. QED
      BY <2>3, <2>5, <3>1 DEF Stored
  <2>9. ReadSoFar'
    BY <1>1, <2>6, NothingRead
  <2>10. QED
    BY <2>5, <2>6, <2>7, <2>8, <2>9 DEF JInv
<1>4. QED
  BY <1>2, <1>3

LEMMA DiskFullKeeps ==
    ASSUME JInv, NEW type \in Types, NEW payload \in Payloads, NEW kept \in 0 .. Len(payload) + 2,
           DiskFull(type, payload, kept)
    PROVE  JInv'
<1>1. /\ writing /\ files > 0 /\ records = << >> /\ ~reading /\ Stored /\ Laid /\ JournalTyped
      /\ UNCHANGED <<writing, reading, pos, crc_stored, records, files>>
      /\ fault = "none" /\ fault' = "cut" /\ failed' = TRUE
  BY DEF JInv, Modes, DiskFull
<1>2. kept \in 0 .. Len(Framed(type, payload))
  <2>1. [type |-> type, payload |-> payload, at |-> 0] \in Entry
    BY DEF Entry
  <2>2. Len(Framed(type, payload)) = Len(payload) + 3 /\ Len(payload) \in Nat
    BY <2>1, FrameCells, PayloadCells
  <2>3. QED
    BY <2>2
<1>3. /\ disk' = disk \o SubSeq(Framed(type, payload), 1, kept) /\ sound' = Len(disk') + 1
      /\ written' = Append(written, [type |-> type, payload |-> payload, at |-> sound])
  BY DEF DiskFull
<1>4. /\ disk' \in Seq(Cells) /\ written' \in Seq(Entry) /\ Laid' /\ written' # << >>
      /\ Len(disk') = sound' - 1 /\ sound' \in Nat \ {0} /\ sound' <= End'
      /\ \A i \in 1 .. sound' - 1 : Kept(i)'
  BY <1>1, <1>2, <1>3, Appended
<1>5. JournalTyped'
  BY <1>1, <1>4 DEF JournalTyped
<1>6. Modes'
  BY <1>1 DEF JInv, Modes
<1>7. Stored'
  BY <1>1, <1>4 DEF Stored
<1>8. ReadSoFar'
  BY <1>1, <1>5, NothingRead
<1>9. QED
  BY <1>4, <1>5, <1>6, <1>7, <1>8 DEF JInv

LEMMA CloseKeeps == JInv /\ Close => JInv'
<1> SUFFICES ASSUME JInv, Close PROVE JInv'
  OBVIOUS
<1>1. JournalTyped' /\ Modes'
  BY DEF JInv, Close, JournalTyped, Modes
<1>2. Laid' /\ (files' > 0 => Stored')
  BY SameFile DEF JInv, Close
<1>3. ReadSoFar'
  BY <1>1, NothingRead DEF Close, JInv, Modes
<1>4. QED
  BY <1>1, <1>2, <1>3 DEF JInv

LEMMA Joined ==
    ASSUME NEW C, NEW p \in Seq(C), NEW q \in Seq(C)
    PROVE  p \o q \in Seq(C) /\ Len(p \o q) = Len(p) + Len(q)
OBVIOUS

LEMMA WriterCrashKeeps ==
    ASSUME JInv, NEW kept \in 0 .. Len(disk), NEW zeros \in 0 .. MaxZeros, WriterCrash(kept, zeros)
    PROVE  JInv'
<1> DEFINE tail == [i \in 1 .. zeros |-> 0]
<1>1. /\ writing /\ files > 0 /\ records = << >> /\ ~reading /\ Stored /\ Laid /\ JournalTyped
      /\ ~writing' /\ sound' = kept + 1 /\ disk' = SubSeq(disk, 1, kept) \o tail
      /\ UNCHANGED <<failed, reading, pos, crc_stored, records, files, written>>
      /\ fault \in {"none", "cut"} /\ fault' = IF zeros > 0 THEN "zeroed" ELSE "cut"
  BY DEF JInv, Modes, WriterCrash
<1>2. disk \in Seq(Cells) /\ Len(disk) \in Nat /\ kept \in Nat /\ kept <= Len(disk) /\ sound \in Nat
  BY <1>1 DEF JournalTyped
<1>3. End \in Nat /\ End >= 2 /\ sound <= End /\ Len(disk) = sound - 1 /\ End' = End
  BY <1>1, <1>2, EndAfter DEF Stored, End
<1>4. tail \in Seq(Cells) /\ Len(tail) = zeros /\ (\A i \in 1 .. zeros : tail[i] = 0) /\ zeros \in Nat
  BY CellSets
<1> HIDE DEF tail
<1>5. /\ SubSeq(disk, 1, kept) \in Seq(Cells) /\ Len(SubSeq(disk, 1, kept)) = kept
      /\ \A i \in 1 .. kept : SubSeq(disk, 1, kept)[i] = disk[i]
  BY <1>2
<1>6. /\ disk' \in Seq(Cells) /\ Len(disk') = kept + zeros
      /\ \A i \in 1 .. kept : disk'[i] = disk[i]
      /\ \A i \in kept + 1 .. kept + zeros : disk'[i] = 0
  <2> DEFINE head == SubSeq(disk, 1, kept)
  <2>1. head \in Seq(Cells) /\ Len(head) = kept /\ (\A i \in 1 .. kept : head[i] = disk[i]) /\ disk' = head \o tail
    BY <1>1, <1>5
  <2> HIDE DEF head
  <2>2. disk' \in Seq(Cells) /\ Len(disk') = kept + zeros
    BY <1>4, <2>1, Joined
  <2>3. \A i \in 1 .. kept : disk'[i] = disk[i]
    BY <1>2, <1>4, <2>1
  <2>4. \A i \in kept + 1 .. kept + zeros : disk'[i] = 0
    BY <1>2, <1>4, <2>1
  <2>5. QED
    BY <2>2, <2>3, <2>4
<1>7. JournalTyped'
  <2>1. sound' \in Nat \ {0} /\ writing' = FALSE /\ fault' \in {"cut", "zeroed"}
    BY <1>1, <1>2 DEF WriterCrash
  <2>2. QED
    BY <1>1, <1>6, <2>1 DEF JournalTyped
<1>8. Modes'
  BY <1>1 DEF JInv, Modes
<1>9. Laid'
  BY <1>1, <1>3 DEF Laid
<1>10. ASSUME NEW i \in 1 .. sound' - 1 PROVE Kept(i)'
  <2>1. i \in 1 .. kept /\ i \in 1 .. sound - 1 /\ i \in DOMAIN disk'
    BY <1>1, <1>2, <1>3, <1>4, <1>6
  <2>2. Kept(i)
    BY <1>1, <2>1 DEF Stored
  <2>3. QED
    BY <1>1, <1>6, <2>1, <2>2 DEF Kept
<1>11. Stored'
  <2>1. sound' <= End'
    BY <1>1, <1>2, <1>3
  <2>2. fault' = "cut" => Len(disk') = sound' - 1
    BY <1>1, <1>2, <1>4, <1>6
  <2>3. \A i \in DOMAIN disk' : i >= sound' => disk'[i] = 0
    BY <1>1, <1>2, <1>4, <1>6
  <2>4. fault' \in {"cut", "zeroed"}
    BY <1>1
  <2>5. QED
    BY <1>10, <2>1, <2>2, <2>3, <2>4 DEF Stored
<1>12. ReadSoFar'
  BY <1>1, <1>7, NothingRead
<1>13. QED
  BY <1>7, <1>8, <1>9, <1>11, <1>12 DEF JInv

LEMMA DamageKeeps ==
    ASSUME JInv, NEW i \in DOMAIN disk, NEW value \in Damages, Damage(i, value)
    PROVE  JInv'
<1>1. /\ ~writing /\ ~reading /\ fault = "none" /\ files > 0 /\ Stored /\ Laid /\ JournalTyped /\ ReadSoFar
      /\ disk[i] # value /\ disk' = [disk EXCEPT ![i] = value] /\ sound' = i
      /\ fault' = (IF \E k \in DOMAIN written : written[k].at = i THEN "type" ELSE "damaged")
      /\ UNCHANGED <<writing, failed, reading, pos, crc_stored, records, files, written>>
  BY DEF JInv, JournalTyped, Modes, Damage
<1>2. disk \in Seq(Cells) /\ Len(disk) \in Nat /\ DOMAIN disk = 1 .. Len(disk) /\ value \in Cells
  BY <1>1, CellSets DEF JournalTyped
<1>3. End \in Nat /\ End' = End /\ Len(disk) = End - 1 /\ sound = End
  BY <1>1, EndAfter DEF Stored, End
<1>4. /\ disk' \in Seq(Cells) /\ DOMAIN disk' = DOMAIN disk /\ Len(disk') = Len(disk) /\ disk'[i] = value
      /\ \A j \in DOMAIN disk : j # i => disk'[j] = disk[j]
  BY <1>1, <1>2
<1>5. i \in Nat \ {0} /\ i <= End
  BY <1>2, <1>3
<1>6. JournalTyped'
  BY <1>1, <1>4, <1>5 DEF JournalTyped
<1>7. Modes'
  BY <1>1 DEF Modes
<1>8. Laid'
  BY <1>1, <1>3 DEF Laid
<1>9. \A j \in DOMAIN disk : Kept(j)
  BY <1>1, <1>2, <1>3 DEF Stored
<1>10. ASSUME NEW j \in DOMAIN disk' \ {i} PROVE Kept(j)'
  BY <1>1, <1>4, <1>9 DEF Kept
<1>11. Stored'
  <2>1. \A j \in 1 .. sound' - 1 : j \in DOMAIN disk' \ {i}
    BY <1>1, <1>2, <1>4, <1>5
  <2>2. sound' \in DOMAIN disk' /\ disk'[sound'] \in Damages /\ Len(disk') = End' - 1 /\ sound' <= End'
    BY <1>1, <1>3, <1>4, <1>5
  <2>3. \A k \in DOMAIN written' : Within(written'[k], sound') => disk'[sound'] # Wrote(written'[k], sound')
    BY <1>1, <1>4, <1>9 DEF Kept
  <2>4. /\ fault' = "type" => \E k \in DOMAIN written' : written'[k].at = sound'
        /\ fault' = "damaged" => \A k \in DOMAIN written' : written'[k].at # sound'
        /\ fault' \in {"damaged", "type"}
    BY <1>1
  <2>5. \A j \in DOMAIN disk' \ {sound'} : Kept(j)'
    BY <1>1, <1>10
  <2>6. \A j \in 1 .. sound' - 1 : Kept(j)'
    BY <1>10, <2>1
  <2>7. QED
    BY <2>2, <2>3, <2>4, <2>5, <2>6 DEF Stored
<1>12. ReadSoFar'
  BY <1>1, ReadBefore
<1>13. QED
  BY <1>6, <1>7, <1>8, <1>11, <1>12 DEF JInv

LEMMA OpenReadKeeps == JInv /\ OpenRead => JInv'
<1> SUFFICES ASSUME JInv, OpenRead PROVE JInv'
  OBVIOUS
<1>1. /\ ~writing /\ ~reading /\ files > 0 /\ Stored /\ Laid /\ JournalTyped
      /\ reading' /\ pos' = 2 /\ records' = << >> /\ crc_stored' \in Junk
      /\ UNCHANGED <<disk, writing, failed, files, written, sound, fault>>
  BY DEF JInv, JournalTyped, OpenRead
<1>2. JournalTyped'
  BY <1>1 DEF JournalTyped, OpenRead
<1>3. Modes'
  BY <1>1 DEF JInv, Modes
<1>4. Laid' /\ Stored'
  BY <1>1, SameFile
<1>5. Matched(0)'
  BY <1>1 DEF Matched, JournalTyped
<1>6. Following(0)'
  <2>1. Begin(1)' = 2
    <3>1. CASE written = << >>
      BY <1>1, <3>1 DEF Begin, End
    <3>2. CASE written # << >>
      BY <1>1, <3>2 DEF Begin, Laid, JournalTyped
    <3>3. QED
      BY <3>1, <3>2
  <2>2. Len(records') = 0
    BY <1>1
  <2>3. sound # 1 => 2 <= sound
    BY <1>1 DEF JournalTyped
  <2>4. QED
    BY <1>1, <2>1, <2>2, <2>3 DEF Following, Stale
<1>7. QED
  BY <1>2, <1>3, <1>4, <1>5, <1>6 DEF JInv, ReadSoFar

LEMMA ReadEndKeeps == JInv /\ ReadEnd => JInv'
<1> SUFFICES ASSUME JInv, ReadEnd PROVE JInv'
  OBVIOUS
<1>1. JournalTyped' /\ Modes'
  BY DEF JInv, ReadEnd, JournalTyped, Modes
<1>2. Laid' /\ (files' > 0 => Stored')
  BY SameFile DEF JInv, ReadEnd
<1>3. ReadSoFar'
  BY ReadBefore DEF ReadEnd, JInv
<1>4. QED
  BY <1>1, <1>2, <1>3 DEF JInv

LEMMA ReadRecordKeeps == JInv /\ ReadRecord => JInv'
<1> SUFFICES ASSUME JInv, ReadRecord PROVE JInv'
  OBVIOUS
<1>1. /\ reading /\ ~AtEnd /\ ~writing /\ files > 0 /\ Stored /\ Laid /\ JournalTyped /\ ReadSoFar /\ Modes
      /\ UNCHANGED <<disk, writing, failed, files, written, sound, fault>>
  BY DEF JInv, Modes, ReadRecord
<1>2. PICK crc \in Crcs :
         /\ crc_stored' = crc
         /\ IF Verified(Payload, crc)
            THEN /\ records' = Append(records, [type |-> disk[pos], payload |-> Payload])
                 /\ pos' = pos + 3 + Size
                 /\ UNCHANGED reading
            ELSE reading' = FALSE /\ UNCHANGED <<records, pos>>
  BY DEF ReadRecord
<1>3. Laid' /\ Stored'
  BY <1>1, SameFile
<1>4. CASE ~Verified(Payload, crc)
  <2>1. JournalTyped' /\ Modes'
    BY <1>1, <1>2, <1>4 DEF JournalTyped, Modes
  <2>2. ReadSoFar'
    BY <1>1, <1>2, <1>4, ReadBefore
  <2>3. QED
    BY <1>3, <2>1, <2>2 DEF JInv
<1>5. CASE Verified(Payload, crc)
  <2>1. crc = Checksum(Payload)
    BY <1>5 DEF Verified
  <2>2. PICK n \in Nat : Matched(n) /\ Following(n)
    BY <1>1 DEF ReadSoFar
  <2>3. ReadsNext(n) \/ ReadsZeros(n)
    BY <1>1, <2>1, <2>2, VerifiedTurn
  <2> DEFINE record == [type |-> disk[pos], payload |-> Payload]
             m == Len(records)
  <2>4. pos \in Nat /\ m \in Nat /\ records \in Seq([type : Cells, payload : Readable]) /\ n <= m /\ n <= Len(written)
    BY <1>1, <2>2 DEF JournalTyped, Matched
  <2>5. Size \in 0 .. MaxSize /\ Size \in Nat
    <3>1. CASE ReadsNext(n)
      BY <1>1, <3>1, EntryAt DEF ReadsNext
    <3>2. CASE ReadsZeros(n)
      BY <3>2, CellSets DEF ReadsZeros
    <3>3. QED
      BY <2>3, <3>1, <3>2
  <2>6. record \in [type : Cells, payload : Readable]
    <3>1. pos + 1 \in DOMAIN disk /\ pos \in DOMAIN disk
      BY <1>1 DEF AtEnd, JournalTyped
    <3>2. disk[pos] \in Cells
      BY <1>1, <3>1 DEF JournalTyped
    <3>3. Payload \in Readable
      BY <1>1, <2>5, <3>1, PayloadReadable
    <3>4. QED
      BY <3>2, <3>3
  <2>7. /\ record.type = disk[pos] /\ record.payload = Payload
        /\ records' = Append(records, record)
    BY <1>2, <1>5
  <2> HIDE DEF record
  <2>8. /\ records' \in Seq([type : Cells, payload : Readable]) /\ Len(records') = m + 1
        /\ records'[m + 1] = record /\ \A k \in 1 .. m : records'[k] = records[k]
    BY <2>4, <2>6, <2>7
  <2>9. reading' /\ pos' = pos + 3 + Size /\ pos' \in Nat \ {0} /\ crc_stored' = crc
    BY <1>1, <1>2, <1>5, <2>4, <2>5
  <2>10. JournalTyped' /\ Modes'
    BY <1>1, <2>8, <2>9 DEF JournalTyped, Modes
  <2> HIDE DEF m
  <2>11. \A k \in 1 .. n : records'[k] = records[k] /\ k \in 1 .. m
    BY <2>4, <2>8
  <2>12. CASE ReadsNext(n)
    <3>1. /\ m = n /\ n + 1 \in DOMAIN written /\ pos = written[n + 1].at
          /\ Size = Len(written[n + 1].payload) /\ Payload = written[n + 1].payload
          /\ disk[pos] = written[n + 1].type \/ (fault = "type" /\ pos = sound)
          /\ fault = "damaged" /\ sound # 1 => pos + 3 + Size <= sound
      BY <2>12 DEF ReadsNext, m
    <3>2. Matched(n + 1)'
      <4>1. n + 1 <= Len(written') /\ n + 1 <= Len(records')
        BY <1>1, <2>4, <2>8, <3>1 DEF JournalTyped
      <4>2. ASSUME NEW k \in 1 .. n + 1
            PROVE  /\ records'[k].payload = written'[k].payload
                   /\ records'[k].type = written'[k].type \/ (fault' = "type" /\ written'[k].at = sound')
        <5>1. CASE k = n + 1
          BY <1>1, <2>7, <2>8, <3>1, <5>1
        <5>2. CASE k # n + 1
          <6>1. k \in 1 .. n
            BY <5>2
          <6>2. QED
            BY <1>1, <2>2, <2>11, <6>1 DEF Matched
        <5>3. QED
          BY <5>1, <5>2
      <4>3. \A k \in n + 1 + 1 .. Len(records') : FALSE
        BY <2>4, <2>8, <3>1
      <4>4. QED
        BY <4>1, <4>2, <4>3 DEF Matched
    <3>3. Following(n + 1)'
      <4>1. Begin(n + 1 + 1)' = Begin(n + 1 + 1)
        BY <1>1 DEF Begin, End
      <4>2. Begin(n + 1 + 1) = pos + 3 + Size
        <5>1. After(written[n + 1]) = pos + Size + 3
          BY <3>1 DEF After
        <5>2. n + 1 + 1 <= Len(written) \/ n + 1 = Len(written)
          BY <1>1, <3>1 DEF JournalTyped
        <5>3. Begin(n + 1 + 1) = After(written[n + 1])
          BY <1>1, <3>1, <5>2, FrameInFile
        <5>4. QED
          BY <2>4, <2>5, <5>1, <5>3
      <4>3. crc_stored' \in Stale
        BY <1>1, <2>1, <2>9, <3>1, EntryAt DEF Stale
      <4>4. Len(records') = n + 1 /\ ~(Len(records') > n + 1)
        BY <2>4, <2>8, <3>1
      <4>5. fault' = "damaged" /\ sound' # 1 => pos' <= sound'
        BY <1>1, <2>9, <3>1
      <4>6. QED
        BY <2>9, <4>1, <4>2, <4>3, <4>4, <4>5 DEF Following
    <3>4. ReadSoFar'
      BY <3>2, <3>3 DEF ReadSoFar
    <3>5. QED
      BY <1>3, <2>10, <3>4 DEF JInv
  <2>13. CASE ReadsZeros(n)
    <3>1. /\ Size = 0 /\ Payload = << >> /\ fault = "zeroed" /\ pos + 3 >= sound
          /\ \A k \in Whole : k <= n
      BY <2>13 DEF ReadsZeros
    <3>2. Matched(n)'
      <4>1. n <= Len(written') /\ n <= Len(records')
        BY <1>1, <2>4, <2>8
      <4>2. ASSUME NEW k \in 1 .. n
            PROVE  /\ records'[k].payload = written'[k].payload
                   /\ records'[k].type = written'[k].type \/ (fault' = "type" /\ written'[k].at = sound')
        BY <1>1, <2>2, <2>11 DEF Matched
      <4>3. ASSUME NEW k \in n + 1 .. Len(records') PROVE Empty(records'[k]) /\ fault' = "zeroed"
        <5>1. CASE k = m + 1
          BY <1>1, <2>7, <2>8, <3>1, <5>1 DEF Empty
        <5>2. CASE k # m + 1
          <6>1. k \in n + 1 .. m /\ k \in 1 .. m
            BY <2>4, <2>8, <5>2
          <6>2. QED
            BY <1>1, <2>2, <2>8, <6>1 DEF Matched, m
        <5>3. QED
          BY <5>1, <5>2
      <4>4. QED
        BY <4>1, <4>2, <4>3 DEF Matched, Empty
    <3>3. Following(n)'
      <4>1. Len(records') # n
        BY <2>4, <2>8
      <4>2. crc_stored' \in Stale
        BY <2>1, <2>9, <3>1 DEF Stale
      <4>3. Whole' = Whole
        BY <1>1 DEF Whole
      <4>4. pos' >= sound'
        BY <1>1, <2>4, <2>9, <3>1
      <4>5. fault' # "damaged"
        BY <1>1, <3>1
      <4>6. QED
        BY <3>1, <4>1, <4>2, <4>3, <4>4, <4>5 DEF Following
    <3>4. ReadSoFar'
      BY <3>2, <3>3 DEF ReadSoFar
    <3>5. QED
      BY <1>3, <2>10, <3>4 DEF JInv
  <2>14. QED
    BY <2>3, <2>12, <2>13
<1>6. QED
  BY <1>4, <1>5
-----------------------------------------------------------------------------
\* Whatever happens to the file, and wherever reading it stops, JInv holds: the
\* first records are those written, and any others are read from zeros.
THEOREM JournalReads == JournalSpec => []JInv
<1>1. JournalInit => JInv
  BY InitHolds
<1>2. JInv /\ [JournalNext]_journal => JInv'
  <2> SUFFICES ASSUME JInv, [JournalNext]_journal PROVE JInv'
    OBVIOUS
  <2>1. CASE OpenWrite
    BY <2>1, OpenWriteKeeps
  <2>2. CASE OpenWriteAgain
    BY <2>2, OpenWriteAgainKeeps
  <2>3. CASE Close
    BY <2>3, CloseKeeps
  <2>4. CASE \E type \in Types, payload \in Payloads :
                 \/ WriteRecord(type, payload)
                 \/ \E kept \in 0 .. Len(payload) + 2 : DiskFull(type, payload, kept)
    BY <2>4, WriteRecordKeeps, DiskFullKeeps
  <2>5. CASE \E kept \in 0 .. Len(disk), zeros \in 0 .. MaxZeros : WriterCrash(kept, zeros)
    BY <2>5, WriterCrashKeeps
  <2>6. CASE \E i \in DOMAIN disk, value \in Damages : Damage(i, value)
    BY <2>6, DamageKeeps
  <2>7. CASE OpenRead
    BY <2>7, OpenReadKeeps
  <2>8. CASE ReadEnd
    BY <2>8, ReadEndKeeps
  <2>9. CASE ReadRecord
    BY <2>9, ReadRecordKeeps
  <2>10. CASE UNCHANGED journal
    <3>1. JournalTyped' /\ Modes'
      BY <2>10 DEF JInv, journal, JournalTyped, Modes
    <3>2. Laid' /\ (files' > 0 => Stored')
      BY <2>10, SameFile DEF JInv, journal
    <3>3. ReadSoFar'
      <4>1. PICK n \in Nat : Matched(n) /\ (reading => Following(n))
        BY DEF JInv, ReadSoFar
      <4>2. Matched(n)'
        BY <2>10, <4>1 DEF journal, Matched, Empty
      <4>3. Begin(n + 1)' = Begin(n + 1) /\ Whole' = Whole
        BY <2>10 DEF journal, Begin, End, Whole
      <4>4. reading' => Following(n)'
        BY <2>10, <4>1, <4>3 DEF journal, Following
      <4>5. QED
        BY <4>2, <4>4 DEF ReadSoFar
    <3>4. QED
      BY <3>1, <3>2, <3>3 DEF JInv
  <2>11. QED
    BY <2>1, <2>2, <2>3, <2>4, <2>5, <2>6, <2>7, <2>8, <2>9, <2>10 DEF JournalNext
<1>3. QED
  BY <1>1, <1>2, PTL DEF JournalSpec

\* Whatever is cut off, zeroed or damaged, read_all returns nothing that was not
\* written, and in the order written, but for the type of the one record whose
\* type byte went bad.
THEOREM ReadsArePrefix == JournalSpec => []ReadIsPrefix
<1>1. JInv => ReadIsPrefix
  <2> SUFFICES ASSUME JInv PROVE ReadIsPrefix
    OBVIOUS
  <2>1. PICK n \in Nat : Matched(n)
    BY DEF JInv, ReadSoFar
  <2>2. n \in 0 .. Len(records) /\ n <= Len(written)
    BY <2>1 DEF JInv, JournalTyped, Matched
  <2>3. QED
    BY <2>1, <2>2 DEF Matched, ReadIsPrefix
<1>2. QED
  BY <1>1, JournalReads, PTL

LEMMA EarlierFrame ==
    ASSUME NEW a \in Nat, NEW l \in Nat, NEW b \in Nat, NEW m \in Nat, NEW c \in Nat,
           a + l + 3 <= b, b + m + 2 < c
    PROVE  a + l + 2 < c
OBVIOUS

LEMMA FrameBefore ==
    ASSUME NEW a \in Nat, NEW l \in Nat, NEW c \in Nat, a + l + 2 < c
    PROVE  \A i \in a + 1 .. a + l + 2 : i \in 1 .. c - 1
OBVIOUS

\* A turn that cannot go on has left every whole record behind it.
LEMMA StopsBehindWhole ==
    ASSUME JInv, Over, NEW n \in Nat, Matched(n), Following(n)
    PROVE  \A k \in Whole : k <= n
<1>1. JournalTyped /\ Laid /\ reading /\ files > 0 /\ Stored /\ (AtEnd \/ \A crc \in Crcs : ~Verified(Payload, crc))
  BY DEF JInv, Modes, Over
<1>2. SUFFICES ASSUME NEW k \in Whole, k > n PROVE FALSE
  <2>1. \A k \in Whole : k \in Nat
    BY <1>1, EntryAt DEF Whole
  <2>2. QED
    BY <1>2, <2>1
<1>3. k \in DOMAIN written /\ written[k].at + Len(written[k].payload) + 2 < sound
  BY DEF Whole
<1>4. k \in Nat /\ written[k].at \in Nat /\ Len(written[k].payload) \in Nat /\ k <= Len(written) /\ sound \in Nat
  BY <1>1, <1>3, EntryAt DEF JournalTyped
<1>5. n + 1 \in DOMAIN written /\ n <= Len(records) /\ Len(records) \in Nat
  BY <1>1, <1>2, <1>4 DEF Matched, JournalTyped
<1>6. Len(records) = n
  BY <1>2, <1>5, <1>4 DEF Following
<1>7. pos = written[n + 1].at
  BY <1>1, <1>5, <1>6 DEF Following, Begin, JournalTyped
<1>8. written[n + 1].at + Len(written[n + 1].payload) + 2 < sound
  <2>1. CASE k = n + 1
    BY <1>3, <2>1
  <2>2. CASE k # n + 1
    <3>1. n + 1 < k
      BY <1>2, <1>4, <2>2
    <3>2. written[n + 1].at + Len(written[n + 1].payload) + 3 <= written[k].at
      BY <1>1, <1>3, <1>5, <3>1, FrameInFile
    <3>3. written[n + 1].at \in Nat /\ Len(written[n + 1].payload) \in Nat
      BY <1>1, <1>5, EntryAt
    <3>4. QED
      BY <1>3, <1>4, <3>2, <3>3, EarlierFrame
  <2>3. QED
    BY <2>1, <2>2
<1>9. \A i \in pos + 1 .. pos + Len(written[n + 1].payload) + 2 : Kept(i)
  <2>1. written[n + 1].at \in Nat /\ Len(written[n + 1].payload) \in Nat
    BY <1>1, <1>5, EntryAt
  <2>2. \A i \in pos + 1 .. pos + Len(written[n + 1].payload) + 2 : i \in 1 .. sound - 1
    BY <1>4, <1>7, <1>8, <2>1, FrameBefore
  <2>3. QED
    BY <1>1, <2>2 DEF Stored
<1>10. ~AtEnd /\ Crcs = {Checksum(Payload)}
  BY <1>1, <1>5, <1>7, <1>9, ReadsKept
<1>11. QED
  BY <1>1, <1>10 DEF Verified

\* When read_all is over it has returned every record that lies whole before
\* the first bad cell.
THEOREM WholeRecordsReturned == JournalSpec => []SoundRecordsReturned
<1>1. JInv => SoundRecordsReturned
  <2> SUFFICES ASSUME JInv, Over PROVE Len(records) >= Cardinality(Whole)
    BY DEF SoundRecordsReturned
  <2>1. JournalTyped /\ reading
    BY DEF JInv, Over
  <2>2. PICK n \in Nat : Matched(n) /\ Following(n)
    BY <2>1 DEF JInv, ReadSoFar
  <2>3. Whole \subseteq 1 .. n
    <3>1. \A k \in Whole : k <= n
      BY <2>2, StopsBehindWhole
    <3>2. Whole \subseteq 1 .. Len(written) /\ Len(written) \in Nat
      BY <2>1 DEF Whole, JournalTyped
    <3>3. QED
      BY <3>1, <3>2
  <2>4. IsFiniteSet(1 .. n) /\ Cardinality(1 .. n) = n
    BY FS_Interval
  <2>5. Cardinality(Whole) <= n /\ Cardinality(Whole) \in Nat
    BY <2>3, <2>4, FS_Subset, FS_CardinalityType
  <2>6. n <= Len(records) /\ Len(records) \in Nat
    BY <2>1, <2>2 DEF Matched, JournalTyped
  <2>7. QED
    BY <2>5, <2>6
<1>2. QED
  BY <1>1, JournalReads, PTL
=============================================================================
