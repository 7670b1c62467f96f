------------------------------ MODULE AsyncCalls ------------------------------
(***************************************************************************)
(* async_api.py: coroutines that run the blocking methods of IQ_Option in  *)
(* a pool of threads.  Calls wait in one queue, close() among them, and    *)
(* the pool is shut down when the call of close() has ended: what was      *)
(* submitted before still runs, what is submitted later raises.            *)
(*                                                                         *)
(* A coroutine may be cancelled.  A call that no thread has taken yet is   *)
(* then dropped; one that runs goes on without anybody who waits for it.   *)
(* Calls are told apart only by whether they place an order.  The pool and *)
(* its futures are those of concurrent.futures.                            *)
(***************************************************************************)
EXTENDS Naturals, Sequences, FiniteSets

CONSTANTS
  Coroutines,  \* calls of methods of the facade
  Closer,      \* the coroutine of close()
  MaxWorkers   \* max_workers

ASSUME AsyncAssumption ==
  /\ IsFiniteSet(Coroutines) /\ Closer \notin Coroutines
  /\ MaxWorkers \in Nat \ {0}

Calls == Coroutines \cup {Closer}

VARIABLES
  line,     \* the queue of the executor
  work,     \* what has become of each call: "none", "queued", "running", "done"
            \* or "dropped"
  answer,   \* what each coroutine has: "none", "waits", "result", "cancelled",
            \* "raised"
  shut,     \* shutdown() was called
  closed    \* IQ_Option.close() has run

asyncVars == <<line, work, answer, shut, closed>>

AsyncInit ==
  /\ line = <<>>
  /\ work = [c \in Calls |-> "none"]
  /\ answer = [c \in Calls |-> "none"]
  /\ shut = FALSE /\ closed = FALSE

Running == {c \in Calls : work[c] = "running"}

-----------------------------------------------------------------------------
(* The event loop. *)

RunAndShut(c) ==   \* variant: close() shuts the pool down before it awaits the call
  /\ answer[c] = "none" /\ ~shut
  /\ line' = Append(line, c)
  /\ work' = [work EXCEPT ![c] = "queued"]
  /\ answer' = [answer EXCEPT ![c] = "waits"]
  /\ shut' = (c = Closer)
  /\ UNCHANGED closed

\* _run(): run_in_executor(), and the coroutine waits.
Run(c) ==
  /\ answer[c] = "none" /\ ~shut
  /\ line' = Append(line, c)
  /\ work' = [work EXCEPT ![c] = "queued"]
  /\ answer' = [answer EXCEPT ![c] = "waits"]
  /\ UNCHANGED <<shut, closed>>

\* RuntimeError: cannot schedule new futures after shutdown.
RunRaises(c) ==
  /\ answer[c] = "none" /\ shut
  /\ answer' = [answer EXCEPT ![c] = "raised"]
  /\ UNCHANGED <<line, work, shut, closed>>

\* The finally of close(): the pool is shut down, without waiting for it.
Shuts(c) == shut' = (shut \/ c = Closer)

\* The coroutine is cancelled, and CancelledError goes on to its caller.
Cancelled(c) ==
  /\ answer[c] = "waits"
  /\ answer' = [answer EXCEPT ![c] = "cancelled"]
  /\ work' = IF work[c] = "queued" THEN [work EXCEPT ![c] = "dropped"] ELSE work
  /\ Shuts(c)
  /\ UNCHANGED <<line, closed>>

\* The result, or the exception of the call, reaches the coroutine.
Returns(c) ==
  /\ answer[c] = "waits" /\ work[c] = "done"
  /\ answer' = [answer EXCEPT ![c] = "result"]
  /\ Shuts(c)
  /\ UNCHANGED <<line, work, closed>>

-----------------------------------------------------------------------------
(* The threads of the pool. *)

WorkerTakes ==
  /\ line # <<>> /\ Cardinality(Running) < MaxWorkers
  /\ line' = Tail(line)
  /\ work' = IF work[Head(line)] = "queued" THEN [work EXCEPT ![Head(line)] = "running"] ELSE work
  /\ UNCHANGED <<answer, shut, closed>>

WorkerEnds(c) ==
  /\ work[c] = "running"
  /\ work' = [work EXCEPT ![c] = "done"]
  /\ closed' = (closed \/ c = Closer)
  /\ UNCHANGED <<line, answer, shut>>

Progress == WorkerTakes \/ \E c \in Calls : WorkerEnds(c) \/ Returns(c)

AsyncNext == (\E c \in Calls : Run(c) \/ RunRaises(c) \/ Cancelled(c)) \/ Progress

AsyncSpec == AsyncInit /\ [][AsyncNext]_asyncVars

\* Threads and the event loop run, and the blocking methods have time limits.
AsyncFairSpec ==
  /\ AsyncSpec
  /\ WF_asyncVars(WorkerTakes)
  /\ \A c \in Calls : WF_asyncVars(WorkerEnds(c)) /\ WF_asyncVars(Returns(c))

-----------------------------------------------------------------------------
AsyncTypeOK ==
  /\ line \in Seq(Calls)
  /\ work \in [Calls -> {"none", "queued", "running", "done", "dropped"}]
  /\ answer \in [Calls -> {"none", "waits", "result", "cancelled", "raised"}]
  /\ shut \in BOOLEAN /\ closed \in BOOLEAN

\* The pool is shut down after the connection is closed, although close() waits in
\* the same queue as the other calls and all threads may be taken: only if the
\* coroutine of close() itself is cancelled there is no pool and still a connection.
ShutAfterClose == shut => closed \/ answer[Closer] = "cancelled"

\* Nobody waits for ever: a coroutine gets its result, or was cancelled, also if the
\* pool was shut down while its call was in the queue.
EveryAwaitEnds ==
  \A c \in Calls : (answer[c] = "waits") ~> (answer[c] # "waits")
=============================================================================
