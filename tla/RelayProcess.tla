----------------------------- MODULE RelayProcess -----------------------------
(***************************************************************************)
(* One operating-system process that runs the library: a command of the    *)
(* CLI (nats_outbox/cli.py), or a host application that runs               *)
(* PollingRelay.start() as a task of its own event loop.  It says when the *)
(* process acquires and releases its engine and NATS client, when a tick   *)
(* begins, and what a signal, a stop() or a cancellation does at every     *)
(* await.  What a tick does to the table is PollingRelay's business.       *)
(*                                                                         *)
(* The main coroutine runs from one await to the next, so each of its      *)
(* steps is one action; signals, the host, NATS and kill act in between.   *)
(***************************************************************************)
EXTENDS Naturals

CONSTANT Programs   \* the programs this instance may run

Commands == {"start", "cleanup", "requeue", "dry-run"}

ASSUME ProgramsAssumption == Programs \subseteq Commands \union {"embedded", "wal"}

VARIABLES
    program,    \* the program that runs
    at,         \* the await the main coroutine is suspended at
    open,       \* resources it has acquired and not released
    nats,       \* the NATS client's connection
    handlers,   \* the CLI's signal handlers are installed
    running,    \* PollingRelay._running
    stopTask,   \* the task that will run relay.stop()
    cancelled,  \* a CancelledError is about to be thrown at the await
    result,     \* how the try block around the work was left
    done,       \* the command's statement is committed
    ended,      \* how the process, or the host's task, ended
    asked,      \* history: it was told to end
    ticks       \* history: ticks begun since then (bound: counted up to 2)

vars == <<program, at, open, nats, handlers, running, stopTask, cancelled,
          result, done, ended, asked, ticks>>

(* The awaits; "begin" and "created" come before the first, "end" after    *)
(* the last.  The loop sleeps when the outbox is empty and pauses when a   *)
(* tick has raised.                                                        *)
Looping == {"tick", "sleep", "pause"}
Places == {"begin", "created", "connect", "metrics", "tick", "sleep", "pause",
           "work", "drain", "close", "dispose", "end"}

TypeOK ==
    /\ program \in Programs
    /\ at \in Places
    /\ open \in SUBSET {"engine", "nats"}
    /\ nats \in {"none", "up", "reconnecting", "closed"}
    /\ handlers \in BOOLEAN /\ running \in BOOLEAN
    /\ stopTask \in {"none", "queued", "overtaken", "over"}
    /\ cancelled \in BOOLEAN /\ done \in BOOLEAN /\ asked \in BOOLEAN
    /\ result \in {"ok", "error", "cancelled"}
    /\ ended \in {"no", "ok", "error", "cancelled", "killed"}
    /\ ticks \in 0 .. 2

Init ==
    /\ program \in Programs
    /\ at = IF program \in Commands THEN "begin" ELSE "created"
    /\ open = {}
    /\ nats = "none"
    /\ handlers = FALSE /\ running = FALSE
    /\ stopTask = "none"
    /\ cancelled = FALSE /\ done = FALSE /\ asked = FALSE
    /\ result = "ok"
    /\ ended = "no"
    /\ ticks = 0

-----------------------------------------------------------------------------
(* The event loop runs what is ready in order.  When the task that runs    *)
(* stop() is created, the main coroutine may already be ready: it can take *)
(* one step before that task runs, and no second one.                      *)
Resume ==
    /\ ended = "no"
    /\ stopTask # "overtaken"
    /\ stopTask' = IF stopTask = "queued" THEN "overtaken" ELSE stopTask

End(how) == at' = "end" /\ ended' = how

Goto(place) == at' = place /\ UNCHANGED ended

-----------------------------------------------------------------------------
(* Setting up.                                                             *)

(* An unknown strategy, "wal", a malformed UUID or invalid settings.       *)
Reject ==
    /\ at = "begin"
    /\ End("error")
    /\ UNCHANGED open

CreateEngine ==
    /\ at = "begin"
    /\ open' = {"engine"}
    /\ Goto(IF program \in {"requeue", "dry-run"} THEN "work" ELSE "connect")

Configure ==
    /\ Resume
    /\ Reject \/ CreateEngine
    /\ UNCHANGED <<program, nats, handlers, running, cancelled, result, done, asked, ticks>>

(* Faulty variant: start() is made a task of its own, so the handlers can  *)
(* run before it does.                                                     *)
EnterLoopAsTask ==
    /\ handlers' = TRUE
    /\ Goto("created")
    /\ UNCHANGED running

(* The handlers are installed and start() entered without an await between *)
(* the two and without one before the first tick.                          *)
EnterLoop ==
    /\ handlers' = TRUE
    /\ running' = TRUE
    /\ Goto("tick")

(* await nats.connect(...).  What follows has no await without a metrics   *)
(* port or without prometheus-client, so the loop is entered at once.      *)
Connect ==
    /\ at = "connect" /\ ~cancelled
    /\ Resume
    /\ \/ /\ nats' = "up"
          /\ open' = open \union {"nats"}
          /\ \/ program = "start" /\ EnterLoop
             \/ /\ Goto(IF program = "start" THEN "metrics" ELSE "work")
                /\ UNCHANGED <<handlers, running>>
       \/ /\ End("error")
          /\ UNCHANGED <<open, nats, handlers, running>>
    /\ UNCHANGED <<program, cancelled, result, done, asked, ticks>>

(* await start_metrics_server(...): the port may be taken.                 *)
StartMetrics ==
    /\ at = "metrics" /\ ~cancelled
    /\ Resume
    /\ EnterLoop \/ (End("error") /\ UNCHANGED <<handlers, running>>)
    /\ UNCHANGED <<program, open, nats, cancelled, result, done, asked, ticks>>

-----------------------------------------------------------------------------
(* PollingRelay.start().                                                   *)

(* The first step of the host's task.                                      *)
Begin ==
    /\ at = "created" /\ ~cancelled
    /\ program # "wal"
    /\ Resume
    /\ running' = TRUE
    /\ Goto("tick")
    /\ UNCHANGED <<program, open, nats, handlers, cancelled, result, done, asked, ticks>>

(* WALRelay.start() raises NotImplementedError.                            *)
BeginWal ==
    /\ at = "created" /\ ~cancelled
    /\ program = "wal"
    /\ Resume
    /\ End("error")
    /\ UNCHANGED <<program, open, nats, handlers, running, cancelled, result, done, asked, ticks>>

BeginTick ==
    /\ Goto("tick")
    /\ ticks' = IF asked /\ ticks < 2 THEN ticks + 1 ELSE ticks

(* start() returns: to the CLI's finally clause, or to the host.           *)
Return ==
    /\ IF program = "start" THEN Goto("drain") ELSE End("ok")
    /\ UNCHANGED ticks

(* while self._running                                                     *)
LoopHead == IF running THEN BeginTick ELSE Return

Snooze(place) == Goto(place) /\ UNCHANGED ticks

(* Faulty variant: no "except Exception" around the tick.                  *)
TickOutcomeUncaught == LoopHead \/ Snooze("sleep") \/ Return

(* Faulty variant: the flag is looked at only once the outbox is empty.    *)
TickOutcomeDraining == BeginTick \/ Snooze("sleep") \/ Snooze("pause")

(* The tick has processed events, found none, or raised.                   *)
TickOutcome == LoopHead \/ Snooze("sleep") \/ Snooze("pause")

Loop ==
    /\ ~cancelled
    /\ Resume
    /\ \/ at = "tick" /\ TickOutcome
       \/ at \in {"sleep", "pause"} /\ LoopHead
    /\ UNCHANGED <<program, open, nats, handlers, running, cancelled, result, done, asked>>

-----------------------------------------------------------------------------
(* The cleanup and requeue commands: one transaction, whose answer may be  *)
(* lost after the database has committed it.  A dry run only counts.       *)
MayCommit == IF program = "dry-run" THEN {FALSE} ELSE BOOLEAN

Work ==
    /\ at = "work" /\ ~cancelled
    /\ Resume
    /\ result' \in {"ok", "error"}
    /\ done' \in MayCommit
    /\ result' = "ok" => done' \/ program = "dry-run"
    /\ Goto(IF program = "cleanup" THEN "close" ELSE "dispose")
    /\ UNCHANGED <<program, open, nats, handlers, running, cancelled, asked, ticks>>

-----------------------------------------------------------------------------
(* Releasing what was acquired.                                            *)

(* await nc.drain() closes a connected client, and raises when the client  *)
(* is reconnecting or closed: nothing after it in the finally clause runs. *)
Drain ==
    /\ at = "drain" /\ ~cancelled
    /\ Resume
    /\ IF nats = "up"
       THEN nats' = "closed" /\ open' = open \ {"nats"} /\ Goto("close")
       ELSE End("error") /\ UNCHANGED <<open, nats>>
    /\ UNCHANGED <<program, handlers, running, cancelled, result, done, asked, ticks>>

(* Faulty variant: engine.dispose() is forgotten.                          *)
CloseWithoutDispose ==
    /\ at = "close" /\ ~cancelled
    /\ Resume
    /\ nats' = "closed"
    /\ open' = open \ {"nats"}
    /\ End(result)
    /\ UNCHANGED <<program, handlers, running, cancelled, result, done, asked, ticks>>

Close ==
    /\ at = "close" /\ ~cancelled
    /\ Resume
    /\ nats' = "closed"
    /\ open' = open \ {"nats"}
    /\ Goto("dispose")
    /\ UNCHANGED <<program, handlers, running, cancelled, result, done, asked, ticks>>

Dispose ==
    /\ at = "dispose" /\ ~cancelled
    /\ Resume
    /\ open' = open \ {"engine"}
    /\ End(result)
    /\ UNCHANGED <<program, nats, handlers, running, cancelled, result, done, asked, ticks>>

-----------------------------------------------------------------------------
(* Being told to end.                                                      *)

(* A CancelledError is thrown at the await the coroutine is suspended at:  *)
(* caught by the loop around tick and sleep, not in the error handler's    *)
(* sleep, and followed by the finally clause of a command at work, whose   *)
(* COMMIT may have reached the database.                                   *)
Interrupt ==
    /\ cancelled
    /\ at # "begin"
    /\ Resume
    /\ \/ at \in {"tick", "sleep"} /\ Return /\ UNCHANGED <<result, done>>
       \/ /\ at = "work"
          /\ Goto(IF program = "cleanup" THEN "close" ELSE "dispose")
          /\ result' = "cancelled"
          /\ done' \in MayCommit
          /\ UNCHANGED ticks
       \/ /\ at \notin {"tick", "sleep", "work"}
          /\ End("cancelled")
          /\ UNCHANGED <<result, done, ticks>>
    /\ cancelled' = FALSE
    /\ UNCHANGED <<program, open, nats, handlers, running, asked>>

(* SIGTERM or SIGINT.  With the handlers in place both create a task that  *)
(* runs stop(); without them SIGINT makes asyncio.run cancel the main task *)
(* (SIGTERM, or SIGINT again, is Kill).                                    *)
Signal ==
    /\ program \in Commands
    /\ ended = "no"
    /\ asked' = TRUE
    /\ IF handlers
       THEN /\ stopTask' = IF stopTask = "none" THEN "queued" ELSE stopTask
            /\ UNCHANGED cancelled
       ELSE ~asked /\ cancelled' = TRUE /\ UNCHANGED stopTask
    /\ UNCHANGED <<program, at, open, nats, handlers, running, result, done, ended, ticks>>

(* relay.stop()                                                            *)
RunStop ==
    /\ ended = "no"
    /\ stopTask \in {"queued", "overtaken"}
    /\ stopTask' = "over"
    /\ running' = FALSE
    /\ UNCHANGED <<program, at, open, nats, handlers, cancelled, result, done, ended, asked, ticks>>

(* The host awaits relay.stop().  Before the first step of start() that    *)
(* changes nothing start() would not overwrite: the request is lost.       *)
HostStop ==
    /\ program = "embedded"
    /\ ended = "no"
    /\ running' = FALSE
    /\ asked' = (asked \/ at # "created")
    /\ UNCHANGED <<program, at, open, nats, handlers, stopTask, cancelled, result, done, ended, ticks>>

(* The host cancels the task that runs start().                            *)
HostCancel ==
    /\ program = "embedded"
    /\ ended = "no"
    /\ cancelled' = TRUE
    /\ asked' = TRUE
    /\ UNCHANGED <<program, at, open, nats, handlers, running, stopTask, result, done, ended, ticks>>

Kill ==
    /\ ended = "no"
    /\ End("killed")
    /\ UNCHANGED <<program, open, nats, handlers, running, stopTask, cancelled, result, done, asked, ticks>>

(* NATS (external): the client loses its server, reconnects, or uses up    *)
(* its attempts and closes for good.                                       *)
Network ==
    /\ ended = "no"
    /\ \/ nats = "up" /\ nats' = "reconnecting" /\ UNCHANGED open
       \/ nats = "reconnecting" /\ nats' = "up" /\ UNCHANGED open
       \/ nats = "reconnecting" /\ nats' = "closed" /\ open' = open \ {"nats"}
    /\ UNCHANGED <<program, at, handlers, running, stopTask, cancelled, result, done, ended, asked, ticks>>

-----------------------------------------------------------------------------
Main ==
    \/ Configure \/ Connect \/ StartMetrics \/ Begin \/ BeginWal \/ Loop
    \/ Work \/ Drain \/ Close \/ Dispose \/ Interrupt

Next ==
    \/ Main \/ RunStop
    \/ Signal \/ HostStop \/ HostCancel \/ Kill \/ Network
    \/ ended # "no" /\ UNCHANGED vars

Spec == Init /\ [][Next]_vars

(* The event loop runs whatever is ready, and every await ends: a tick by  *)
(* its answers and timeouts, a connection attempt, a sleep.                *)
FairSpec == Spec /\ WF_vars(Main) /\ WF_vars(RunStop)

-----------------------------------------------------------------------------
(* A process told to end does so, at whichever await the signal, the       *)
(* cancellation or the stop finds it, and however NATS behaves.            *)
StopHonoured == asked ~> ended # "no"

(* "Will exit after current tick": a stop or cancellation by the host lets *)
(* no tick begin after it.  A signal allows one: the main coroutine may    *)
(* run before the task that carries the stop.                              *)
AtMostOneMoreTick == ticks <= IF program = "embedded" THEN 0 ELSE 1

(* Once it polls, the relay polls until it is told to end: no error of a   *)
(* tick and no state of the NATS client ends the loop, not even a client   *)
(* that has closed for good.                                               *)
KeepsPolling == running /\ ~asked => at \in Looping \/ ended = "killed"

(* A command that ends normally has released its engine and its NATS       *)
(* client and committed its statement; a dry run never commits one; and    *)
(* once the loop was entered only a NATS client that is not connected      *)
(* makes the start command fail.                                           *)
CleanExit ==
    /\ program \in Commands /\ ended = "ok" =>
          open = {} /\ (program \in {"cleanup", "requeue"} => done)
    /\ program = "dry-run" => ~done
    /\ handlers /\ ended = "error" => nats \in {"reconnecting", "closed"}

-----------------------------------------------------------------------------
(* Why: an inductive invariant.  What has been asked is on its way until   *)
(* it takes effect, and where the coroutine stands says what it holds.     *)

RequestUnderWay ==
    /\ ~asked => ticks = 0 /\ ~cancelled /\ stopTask = "none"
    /\ asked /\ ended = "no" =>
          \/ cancelled
          \/ stopTask # "none"
          \/ program = "embedded" /\ ~running /\ at # "created"
          \/ at \in {"close", "dispose"} /\ program # "start"
    /\ program = "embedded" \/ stopTask \in {"none", "queued"} => ticks = 0
    /\ ticks <= 1
    /\ stopTask = "over" => ~running
    /\ stopTask # "none" => handlers

PlaceSound ==
    /\ at = "end" <=> ended # "no"
    /\ at \in Looping \/ running => handlers \/ program = "embedded"
    /\ at = "created" => program \in {"embedded", "wal"} /\ ~running
    /\ at \in {"begin", "connect", "metrics"} => ~handlers
    /\ at \in {"connect", "close"} => program \in {"start", "cleanup"}
    /\ at \in {"metrics", "drain"} => program = "start"
    /\ at = "drain" => handlers
    /\ at = "work" => program \in {"cleanup", "requeue", "dry-run"}
    /\ handlers => program = "start" /\ ~cancelled
    /\ program = "start" => result = "ok"
    /\ at \in {"metrics", "drain"} \/ handlers => nats # "none"
    /\ program = "dry-run" => ~done
    /\ at = "dispose" => "nats" \notin open
    /\ at \in {"close", "dispose"} /\ result = "ok" =>
          done \/ program \in {"start", "dry-run"}
    /\ at \in {"close", "dispose"} /\ program = "start" => handlers
    /\ program \in {"requeue", "dry-run"} => nats = "none" /\ "nats" \notin open
    /\ program \notin Commands => at \in {"created", "end"} \/ at \in Looping

Inv ==
    /\ TypeOK
    /\ RequestUnderWay
    /\ PlaceSound
    /\ KeepsPolling
    /\ CleanExit

=============================================================================
