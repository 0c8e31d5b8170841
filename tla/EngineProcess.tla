---------------------------- MODULE EngineProcess ---------------------------
(***************************************************************************)
(* How the FastAPI server (src/app.py) talks to the C++ engine: the lazily *)
(* created EngineProcess, its lock, the child process it restarts, and the *)
(* reader thread whose join has a timeout.                                 *)
(*                                                                         *)
(* FastAPI runs each request in a thread of its own.  The engine is the    *)
(* loop of src/src/engine_cli.cpp: a line in, a line out; it keeps its     *)
(* state in memory only.  It may crash, hang, or print a line that is not  *)
(* JSON at any time.  Time is left out: a join may time out whenever the   *)
(* reader is not done.                                                     *)
(***************************************************************************)
EXTENDS Integers, Sequences, FiniteSets

CONSTANTS
    Requests,       \* HTTP requests, one thread each
    Nobody,         \* no thread holds the lock
    Garbage,        \* a line that is not JSON
    EndOfFile,      \* what readline returns when the pipe is closed
    MaxCrashes      \* bound: crashes of the engine in a behaviour

ASSUME RequestsAssumption == IsFiniteSet(Requests) /\ Nobody \notin Requests
ASSUME LinesAssumption == Garbage \notin Requests /\ EndOfFile \notin Requests /\ Garbage # EndOfFile

VARIABLES
    installed,  \* ENGINE_PATH.exists()
    engine,     \* the global: an EngineProcess object, or 0 for None
    made,       \* EngineProcess objects made so far
    lock,       \* holder of each object's lock
    proc,       \* each object's child process
    spawned,    \* child processes started so far
    crashes,    \* crashes so far
    handler,    \* what each request's thread is doing, and with which object
    reader,     \* what each request's reader thread is doing
    answer      \* what each request was answered

vars == <<installed, engine, made, lock, proc, spawned, crashes, handler, reader, answer>>

\* Every request could create an object.
Objects == 1 .. Cardinality(Requests)

\* proc = None.
None == [pid |-> 0, state |-> "none", stdin |-> << >>, stdout |-> << >>]

Child(pid) == [pid |-> pid, state |-> "running", stdin |-> << >>, stdout |-> << >>]

Idle == [at |-> "none", pid |-> 0, got |-> EndOfFile]
Unanswered == [code |-> 0, body |-> EndOfFile]

Init ==
    /\ installed \in BOOLEAN
    /\ engine = 0 /\ made = 0 /\ spawned = 0 /\ crashes = 0
    /\ lock = [e \in Objects |-> Nobody]
    /\ proc = [e \in Objects |-> None]
    /\ handler = [r \in Requests |-> [at |-> "new", with |-> 0]]
    /\ reader = [r \in Requests |-> Idle]
    /\ answer = [r \in Requests |-> Unanswered]
-----------------------------------------------------------------------------
\* _start: nothing is started when the binary is missing.
Started == IF installed THEN Child(spawned + 1) ELSE None
Start(e) ==
    /\ proc' = [proc EXCEPT ![e] = Started]
    /\ spawned' = IF installed THEN spawned + 1 ELSE spawned

Answer(r, code, body) == answer' = [answer EXCEPT ![r] = [code |-> code, body |-> body]]

\* Leave `with self.lock` and answer.
Done(r, e, code, body) ==
    /\ lock' = [lock EXCEPT ![e] = Nobody]
    /\ handler' = [handler EXCEPT ![r].at = "answered"]
    /\ Answer(r, code, body)

\* _get_engine, first part: is there an engine yet?
Look(r) ==
    /\ handler[r].at = "new"
    /\ handler' = [handler EXCEPT ![r].at = IF engine = 0 THEN "creating" ELSE "fetching"]
    /\ UNCHANGED <<installed, engine, made, lock, proc, spawned, crashes, reader, answer>>

\* EngineProcess() starts a child and is made the engine.  Nothing keeps two
\* threads from getting here.
Create(r) ==
    /\ handler[r].at = "creating"
    /\ made' = made + 1
    /\ engine' = made + 1
    /\ Start(made + 1)
    /\ handler' = [handler EXCEPT ![r].at = "fetching"]
    /\ UNCHANGED <<installed, lock, crashes, reader, answer>>

\* `return engine` reads the global again.
Fetch(r) ==
    /\ handler[r].at = "fetching"
    /\ handler' = [handler EXCEPT ![r] = [at |-> "calling", with |-> engine]]
    /\ UNCHANGED <<installed, engine, made, lock, proc, spawned, crashes, reader, answer>>
-----------------------------------------------------------------------------
(* send, under the object's lock.                                          *)

\* Mutant of Childless: poll() is taken for a test of life.
ChildlessInverted(e) == proc[e].state \in {"none", "running"}

\* The object is without a child: it never had one, or poll() tells it is dead.
Childless(e) == proc[e].state \in {"none", "dead"}

\* The binary is missing: 503.
SendNoBinary(r) ==
    LET e == handler[r].with IN
    /\ handler[r].at = "calling" /\ lock[e] = Nobody
    /\ Childless(e) /\ ~installed
    /\ Start(e)
    /\ Done(r, e, 503, EndOfFile)
    /\ UNCHANGED <<installed, engine, made, crashes, reader>>

\* The child closed its end of the pipe but is not reaped: BrokenPipeError.
SendBroken(r) ==
    LET e == handler[r].with IN
    /\ handler[r].at = "calling" /\ lock[e] = Nobody
    /\ proc[e].state = "closing"
    /\ Start(e)
    /\ Done(r, e, 500, EndOfFile)
    /\ UNCHANGED <<installed, engine, made, crashes, reader>>

\* Mutant of SendLine: without the lock.
SendLineUnlocked(r) ==
    LET e == handler[r].with
        child == IF Childless(e) THEN Started ELSE proc[e]
    IN  /\ handler[r].at = "calling"
        /\ child.state = "running"
        /\ lock' = [lock EXCEPT ![e] = r]
        /\ proc' = [proc EXCEPT ![e] = [child EXCEPT !.stdin = Append(@, r)]]
        /\ spawned' = IF Childless(e) THEN spawned + 1 ELSE spawned
        /\ handler' = [handler EXCEPT ![r].at = "waiting"]
        /\ reader' = [reader EXCEPT ![r].at = "starting"]
        /\ UNCHANGED <<installed, engine, made, crashes, answer>>

\* Write the line, to a new child if the old one is gone, and start the reader.
SendLine(r) ==
    LET e == handler[r].with
        child == IF Childless(e) THEN Started ELSE proc[e]
    IN  /\ handler[r].at = "calling" /\ lock[e] = Nobody
        /\ child.state = "running"
        /\ lock' = [lock EXCEPT ![e] = r]
        /\ proc' = [proc EXCEPT ![e] = [child EXCEPT !.stdin = Append(@, r)]]
        /\ spawned' = IF Childless(e) THEN spawned + 1 ELSE spawned
        /\ handler' = [handler EXCEPT ![r].at = "waiting"]
        /\ reader' = [reader EXCEPT ![r].at = "starting"]
        /\ UNCHANGED <<installed, engine, made, crashes, answer>>

\* The reader thread looks self.proc up when it first runs.
ReaderStarts(r) ==
    /\ reader[r].at = "starting"
    /\ reader' = [reader EXCEPT ![r] = [at |-> "reading", pid |-> proc[handler[r].with].pid,
                                        got |-> EndOfFile]]
    /\ UNCHANGED <<installed, engine, made, lock, proc, spawned, crashes, handler, answer>>

\* readline returns a line of the reader's child, or the end of its output
\* when it has exited or was killed.
ReaderReads(r) ==
    LET e == handler[r].with
        mine == proc[e].pid = reader[r].pid
        Got(line) == reader' = [reader EXCEPT ![r] = [at |-> "done", pid |-> @.pid, got |-> line]]
    IN  /\ reader[r].at = "reading"
        /\ \/ /\ mine /\ proc[e].stdout # << >>
              /\ Got(Head(proc[e].stdout))
              /\ proc' = [proc EXCEPT ![e].stdout = Tail(@)]
           \/ /\ mine => proc[e].stdout = << >> /\ proc[e].state # "running"
              /\ Got(EndOfFile)
              /\ UNCHANGED proc
        /\ UNCHANGED <<installed, engine, made, lock, spawned, crashes, handler, answer>>

\* The reader is done: the line is the answer.  An empty one is an error, but
\* the child is left to the next call; one that does not parse restarts it.
ReceiveReply(r) ==
    LET e == handler[r].with IN
    /\ handler[r].at = "waiting" /\ reader[r].at = "done"
    /\ reader[r].got \notin {Garbage, EndOfFile}
    /\ Done(r, e, 200, reader[r].got)
    /\ UNCHANGED <<installed, engine, made, proc, spawned, crashes, reader>>

ReceiveNothing(r) ==
    LET e == handler[r].with IN
    /\ handler[r].at = "waiting" /\ reader[r].at = "done"
    /\ reader[r].got = EndOfFile
    /\ Done(r, e, 500, EndOfFile)
    /\ UNCHANGED <<installed, engine, made, proc, spawned, crashes, reader>>

ReceiveGarbage(r) ==
    LET e == handler[r].with IN
    /\ handler[r].at = "waiting" /\ reader[r].at = "done"
    /\ reader[r].got = Garbage
    /\ Start(e)
    /\ Done(r, e, 500, EndOfFile)
    /\ UNCHANGED <<installed, engine, made, crashes, reader>>

\* Mutant of TimesOut: the engine is left running.
TimesOutKeepingEngine(r) ==
    LET e == handler[r].with IN
    /\ handler[r].at = "waiting" /\ reader[r].at # "done"
    /\ Done(r, e, 504, EndOfFile)
    /\ UNCHANGED <<installed, engine, made, proc, spawned, crashes, reader>>

\* Mutant of TimesOut: join() without a timeout.
TimesOutNever(r) == FALSE /\ UNCHANGED vars

\* The join returns while the reader is alive: kill the engine and start another.
TimesOut(r) ==
    LET e == handler[r].with IN
    /\ handler[r].at = "waiting" /\ reader[r].at # "done"
    /\ Start(e)
    /\ Done(r, e, 504, EndOfFile)
    /\ UNCHANGED <<installed, engine, made, crashes, reader>>
-----------------------------------------------------------------------------
(* The engine, and its surroundings.                                       *)

\* One turn of engine_cli's loop.
Serve(e) ==
    /\ proc[e].state = "running" /\ proc[e].stdin # << >>
    /\ \E line \in {Head(proc[e].stdin), Garbage} :
          proc' = [proc EXCEPT ![e] = [pid |-> @.pid, state |-> "running", stdin |-> Tail(@.stdin),
                                       stdout |-> Append(@.stdout, line)]]
    /\ UNCHANGED <<installed, engine, made, lock, spawned, crashes, handler, reader, answer>>

\* The engine's end of the pipes closes; poll() notices some time later.
Crash(e) ==
    /\ crashes < MaxCrashes
    /\ proc[e].state = "running"
    /\ proc' = [proc EXCEPT ![e].state = "closing"]
    /\ crashes' = crashes + 1
    /\ UNCHANGED <<installed, engine, made, lock, spawned, handler, reader, answer>>

Exit(e) ==
    /\ proc[e].state = "closing"
    /\ proc' = [proc EXCEPT ![e].state = "dead"]
    /\ UNCHANGED <<installed, engine, made, lock, spawned, crashes, handler, reader, answer>>

\* The C++ engine is built while the server runs.
Build ==
    /\ ~installed
    /\ installed' = TRUE
    /\ UNCHANGED <<engine, made, lock, proc, spawned, crashes, handler, reader, answer>>

Send(r) == SendNoBinary(r) \/ SendBroken(r) \/ SendLine(r)
Read(r) == ReaderStarts(r) \/ ReaderReads(r)
Receive(r) == ReceiveReply(r) \/ ReceiveNothing(r) \/ ReceiveGarbage(r) \/ TimesOut(r)
Handle(r) == Look(r) \/ Create(r) \/ Fetch(r) \/ Send(r) \/ Receive(r)

Next ==
    \/ \E r \in Requests : Handle(r) \/ Read(r)
    \/ \E e \in Objects : Serve(e) \/ Crash(e) \/ Exit(e)
    \/ Build

\* The server's threads run, and a join that goes on too long returns: nothing
\* is asked of the engine.  With finitely many requests, weak fairness is
\* enough for each to get the lock.
Spec == Init /\ [][Next]_vars /\ \A r \in Requests : WF_vars(Handle(r))
-----------------------------------------------------------------------------
\* Types; and the request that waits for an engine holds that object's lock.
TypeOK ==
    /\ installed \in BOOLEAN
    /\ engine \in 0 .. made /\ made \in 0 .. Cardinality(Requests)
    /\ \A e \in Objects :
          /\ lock[e] \in Requests \cup {Nobody}
          /\ proc[e].pid \in 0 .. spawned
          /\ proc[e].state \in {"none", "running", "closing", "dead"}
          /\ proc[e].pid = 0 <=> proc[e].state = "none"
          /\ e > made => proc[e] = None
    /\ \A r \in Requests :
          /\ handler[r].with \in 0 .. made
          /\ handler[r].at = "waiting" <=> \E e \in Objects : lock[e] = r
          /\ handler[r].at = "waiting" => lock[handler[r].with] = r
          /\ answer[r].code # 0 <=> handler[r].at = "answered"

\* A good answer is the engine's answer to this very request, never a late
\* one to a request that timed out before (send kills the engine it gave up on).
AnswersMatch == \A r \in Requests : answer[r].code = 200 => answer[r].body = r

\* No child is started over a running one that it would orphan: an object's
\* child is replaced only when it is gone, or when the same step answers an
\* error.
RestartsReported ==
    [][\A e \in Objects :
          proc'[e].pid # proc[e].pid /\ proc[e].state \in {"running", "closing"} =>
              \E r \in Requests : /\ handler[r].with = e
                                  /\ answer[r].code = 0 /\ answer'[r].code \in {500, 504}]_vars

\* Every request is answered, whatever the engine does.
Answered == \A r \in Requests : handler[r].at # "answered" ~> handler[r].at = "answered"

\* README.md, Concurrency Model: "threading.Lock (serialized IPC)" in front
\* of one single-threaded engine.
SerializedIpc ==
    \A r, q \in Requests : handler[r].at = "waiting" /\ handler[q].at = "waiting" => r = q
=============================================================================
