---------------------------- MODULE AuditDelivery ----------------------------
(***************************************************************************)
(* Audit events on their way into the table: emitters of request runtimes  *)
(* (core/src/runtime/audit.ts) write through one shared Postgres sink      *)
(* (postgres/src/audit.ts), which may hold events back in a buffer, and    *)
(* drain joins what its own emitter has written.                           *)
(*                                                                         *)
(* A write is a promise per event.  Everything up to the next await is one *)
(* action; the callbacks of a settled promise run before anything else     *)
(* does.  The database answers an insert with success, or fails it, before *)
(* or after its rows have landed.                                          *)
(***************************************************************************)
EXTENDS Naturals, FiniteSets

CONSTANTS
  Events,
  Emitters,
  Drains,       \* calls of drain
  EmitterOf,    \* EmitterOf[x]: the emitter of an event or a drain
  Started,      \* the events of type capability.started
  Batching,     \* options.batch is given
  Size          \* batch.size

ASSUME AuditConstants ==
  /\ EmitterOf \in [Events \cup Drains -> Emitters]
  /\ Started \subseteq Events
  /\ Batching \in BOOLEAN
  /\ Size \in Nat \ {0}

VARIABLES
  buffer,     \* the events held back
  timer,      \* the flush timer: "unset", "armed", or "fired" and kept
  closed,
  writes,     \* inserts under way, each the set of its events
  rows,       \* rows[e]: how often e is in the table
  promise,    \* promise[e]: what the emitter knows of its write
  failures,   \* failures[m]: failed writes that no drain has taken
  drain,      \* drain[d]: the inner function, and the inserts it waits for
  told        \* told[d]: what the caller of d was told

sinkVars  == <<buffer, timer, closed, writes>>
drainVars == <<drain, told>>
vars == <<sinkVars, rows, promise, failures, drainVars>>

Inserts == (SUBSET Events) \ {{}}

NoDrain == [stage |-> "idle", waits |-> {}]

TypeOK ==
  /\ buffer \subseteq Events
  /\ timer \in {"unset", "armed"}
  /\ closed \in BOOLEAN
  /\ writes \subseteq Inserts
  /\ rows \in [Events -> Nat]
  /\ promise \in [Events -> {"none", "pending", "resolved", "rejected"}]
  /\ failures \in [Emitters -> SUBSET Events]
  /\ drain \in [Drains -> [stage : {"idle", "inner", "over"}, waits : SUBSET Inserts]]
  /\ told \in [Drains -> {"nothing", "ok", "failed", "timeout"}]

Init ==
  /\ buffer = {} /\ timer = "unset" /\ closed = FALSE /\ writes = {}
  /\ rows = [e \in Events |-> 0]
  /\ promise = [e \in Events |-> "none"]
  /\ failures = [m \in Emitters |-> {}]
  /\ drain = [d \in Drains |-> NoDrain]
  /\ told = [d \in Drains |-> "nothing"]

-----------------------------------------------------------------------------
\* Mutated: the buffer is emptied when the insert has succeeded, not before;
\* the handle of a timer that has fired is kept.
FlushLate(held) ==
  /\ writes' = IF held = {} THEN writes ELSE writes \cup {held}
  /\ buffer' = held
  /\ timer' = "unset"

FlushKeepingTimer(held) ==
  /\ writes' = IF held = {} THEN writes ELSE writes \cup {held}
  /\ buffer' = {}
  /\ timer' = IF timer = "unset" THEN "unset" ELSE "fired"

\* flushBuffer, up to its await.
Flush(held) ==
  /\ writes' = IF held = {} THEN writes ELSE writes \cup {held}
  /\ buffer' = {}
  /\ timer' = "unset"

Direct(e) == ~Batching \/ closed \/ e \in Started

\* emit or emitAwaited, and the sink it calls.
Emit(e) ==
  LET held == buffer \cup {e} IN
  /\ promise[e] = "none"
  /\ promise' = [promise EXCEPT ![e] = "pending"]
  /\ \/ Direct(e) /\ writes' = writes \cup {{e}} /\ UNCHANGED <<buffer, timer>>
     \/ ~Direct(e) /\ Cardinality(held) >= Size /\ Flush(held)
     \/ /\ ~Direct(e) /\ Cardinality(held) < Size
        /\ buffer' = held
        /\ timer' = IF timer = "unset" THEN "armed" ELSE timer
        /\ UNCHANGED writes
  /\ UNCHANGED <<closed, rows, failures, drainVars>>

TimerFires ==
  /\ timer = "armed"
  /\ Flush(buffer)
  /\ UNCHANGED <<closed, rows, promise, failures, drainVars>>

Close ==
  /\ ~closed /\ closed' = TRUE
  /\ Flush(buffer)
  /\ UNCHANGED <<rows, promise, failures, drainVars>>

-----------------------------------------------------------------------------
Tell(d, answer) == told' = IF told[d] = "nothing" THEN [told EXCEPT ![d] = answer] ELSE told

\* flush joins the inserts with Promise.all: one failure, of whatever
\* request, rejects it at once, and with it the drain.
Waiting(d, w) == drain[d].stage = "inner" /\ w \in drain[d].waits

Settled(d, w, ok) ==
  CASE ~Waiting(d, w) -> drain[d]
    [] Waiting(d, w) /\ ok -> [drain[d] EXCEPT !.waits = @ \ {w}]
    [] Waiting(d, w) /\ ~ok -> [stage |-> "over", waits |-> {}]

\* An insert settles, and with it the promises of its events.
InsertEnds(w, landed, ok) ==
  /\ w \in writes
  /\ ok => landed
  /\ writes' = writes \ {w}
  /\ rows' = [e \in Events |-> IF landed /\ e \in w THEN rows[e] + 1 ELSE rows[e]]
  /\ promise' =
       [e \in Events |-> IF e \in w THEN IF ok THEN "resolved" ELSE "rejected" ELSE promise[e]]
  /\ failures' =
       [m \in Emitters |-> IF ok THEN failures[m] ELSE failures[m] \cup {e \in w : EmitterOf[e] = m}]
  /\ drain' = [d \in Drains |-> Settled(d, w, ok)]
  /\ told' =
       [d \in Drains |->
          IF told[d] = "nothing" /\ ~ok /\ Waiting(d, w) THEN "failed" ELSE told[d]]
  /\ UNCHANGED <<buffer, timer, closed>>

\* drain: the sink is flushed, then the emitter's own writes are joined.
Drain(d) ==
  /\ drain[d].stage = "idle"
  /\ Flush(buffer)
  /\ drain' = [drain EXCEPT ![d] = [stage |-> "inner", waits |-> writes']]
  /\ UNCHANGED <<closed, rows, promise, failures, told>>

\* Mutated: only the sink is flushed; what the emitter has pending is not joined.
JoinableFlushed(d) == drain[d].stage = "inner" /\ drain[d].waits = {}

Joinable(d) ==
  /\ drain[d].stage = "inner" /\ drain[d].waits = {}
  /\ \A e \in Events : EmitterOf[e] = EmitterOf[d] => promise[e] # "pending"

\* while (pending.size) ...; the failures are taken even when the caller has
\* been told of a timeout.
Join(d) ==
  LET taken == failures[EmitterOf[d]] IN
  /\ Joinable(d)
  /\ drain' = [drain EXCEPT ![d].stage = "over"]
  /\ failures' = [failures EXCEPT ![EmitterOf[d]] = {}]
  /\ Tell(d, IF taken = {} THEN "ok" ELSE "failed")
  /\ UNCHANGED <<sinkVars, rows, promise>>

\* Promise.race: the caller is answered, the inner function goes on.  A timer
\* fires only when no settled promise has callbacks left to run.
DrainTimesOut(d) ==
  /\ drain[d].stage = "inner" /\ ~Joinable(d) /\ told[d] = "nothing"
  /\ Tell(d, "timeout")
  /\ UNCHANGED <<sinkVars, rows, promise, failures, drain>>

DrainStep(d) == Drain(d) \/ Join(d) \/ DrainTimesOut(d)

Next ==
  \/ \E e \in Events : Emit(e)
  \/ TimerFires \/ Close
  \/ \E w \in writes, landed, ok \in BOOLEAN : InsertEnds(w, landed, ok)
  \/ \E d \in Drains : DrainStep(d)

Spec == Init /\ [][Next]_vars

\* The process lives on and its flush timer fires.  The database may never answer.
AuditFairness == WF_vars(TimerFires)

-----------------------------------------------------------------------------
\* Through buffer, flush, close and drain an event comes into the table at
\* most once, and its promise resolves only when it is there: in strict mode
\* that is what the execution waits for.
WrittenOnce ==
  \A e \in Events : rows[e] <= 1 /\ (promise[e] = "resolved" => rows[e] = 1)

Emitted(d) == {e \in Events : EmitterOf[e] = EmitterOf[d] /\ promise[e] # "none"}

Resolves(d) == told[d] = "nothing" /\ told'[d] = "ok"

\* A drain that resolves leaves nothing behind: every event its emitter has
\* emitted by then is durable, or its failure was taken by an earlier drain.
DrainCovers ==
  [][\A d \in Drains : Resolves(d) => \A e \in Emitted(d) :
       \/ promise[e] = "resolved"
       \/ promise[e] = "rejected" /\ e \notin failures[EmitterOf[d]]]_vars

\* What is held back is on its way before long, although nobody drains,
\* closes or emits again.
BufferedIsSent == \A e \in Events : e \in buffer ~> e \notin buffer
=============================================================================
