------------------------------- MODULE Shutdown -------------------------------
(***************************************************************************)
(* The life of the process (main.cpp, MatchingEngine's constructor,        *)
(* start(), run() and destructor, createAndStartThread()): the threads,    *)
(* the objects they share through pointers, and the sleeps that stand for  *)
(* synchronisation.  main's Logger is the module Logger.  Nothing is       *)
(* connected to the queues of the engine at this commit, so that its       *)
(* thread finds no request; its own Logger, another one, is left out.      *)
(*                                                                         *)
(* A sleep may end at any time.  p.late records that one has ended before  *)
(* another thread did what the sleeper counts on.  Ctrl-C goes to the main *)
(* thread unless that one blocks it, as it does in the handler: then any   *)
(* other thread may be interrupted to run signal_handler().                *)
(***************************************************************************)
EXTENDS Logger

Others  == {"flusher", "engine"}
Threads == {"main"} \cup Others

VARIABLE p      \* the process, but for main's Logger

mainLog == <<vars, loggerVars>>
allVars == <<p, mainLog>>

ShutdownInit ==
  /\ LoggerInit
  /\ p = [status |-> "up", late |-> FALSE, signals |-> 0,
          main    |-> "new_logger",                     \* what main() does next
          handler |-> [t \in Threads |-> "none"],       \* and signal_handler()
          engine  |-> "none",                           \* and run()
          logger |-> "null", matching_engine |-> "null",      \* the globals
          object |-> "none", queues |-> "set", run_ |-> FALSE] \* the engine

Up == p.status = "up" /\ status = "up"

\* A thread's own code stands still while the handler runs on it.
Runs(t) == Up /\ p.handler[t] = "none"

-------------------------------------------------------------------------------
(* main()                                                                      *)

NewLogger ==
  \/ /\ p.main = "new_logger"
     /\ flusher' = "spawned" /\ p' = [p EXCEPT !.main = "wait_flusher"]
     /\ UNCHANGED <<vars, running_, file_, disk, closed>>
  \/ /\ p.main = "wait_flusher"
     /\ p' = [p EXCEPT !.main = "install", !.late = @ \/ flusher = "spawned"]
     /\ UNCHANGED mainLog
  \/ /\ p.main = "install"
     /\ p' = [p EXCEPT !.main = "format", !.logger = "set"]
     /\ UNCHANGED mainLog

\* logger -> log(): the arguments are formatted, on the heap, then pushed.
Log ==
  /\ \/ /\ p.main = "format" /\ written < MaxWrites
        /\ p' = [p EXCEPT !.main = "push"]
        /\ UNCHANGED vars
     \/ /\ p.main = "push" /\ pushValue
        /\ p' = [p EXCEPT !.main = IF writer' # "idle" THEN @
                                   ELSE IF p.object = "none" THEN "new_engine"
                                   ELSE "format"]
  /\ UNCHANGED loggerVars

NewEngine ==
  /\ \/ /\ p.main = "new_engine"
        /\ p' = [p EXCEPT !.main = "assign", !.object = "live"]
     \/ /\ p.main = "assign"
        /\ p' = [p EXCEPT !.main = "start", !.matching_engine = "set"]
     \/ /\ p.main = "start"
        /\ p' = [p EXCEPT !.main = "wait_engine", !.run_ = TRUE, !.engine = "spawned"]
     \/ /\ p.main = "wait_engine"
        /\ p' = [p EXCEPT !.main = "format", !.late = @ \/ p.engine = "spawned"]
  /\ UNCHANGED mainLog

Main == Runs("main") /\ (NewLogger \/ Log \/ NewEngine)

-------------------------------------------------------------------------------
(* The other threads.                                                          *)

\* The first thing a new thread reads is what createAndStartThread() has handed
\* it by reference, which is there while main() sleeps.
Flusher ==
  /\ Runs("flusher")
  /\ \/ /\ flusher = "spawned" /\ p.main = "wait_flusher"
        /\ flusher' = "check"
        /\ UNCHANGED <<p, vars, running_, file_, disk, closed>>
     \/ /\ flusher = "spawned" /\ p.main # "wait_flusher"
        /\ p' = [p EXCEPT !.status = "dangling"]
        /\ UNCHANGED mainLog
     \/ /\ flushQueue
        /\ UNCHANGED p

\* MatchingEngine::run() logs a line and polls its queue.
run ==
  \/ /\ p.engine = "log"
     /\ p' = [p EXCEPT !.engine = "check"]
  \/ /\ p.engine = "check"
     /\ p' = [p EXCEPT !.engine = IF p.run_ THEN "poll" ELSE "ended"]
  \/ /\ p.engine = "poll" /\ p.queues = "set"
     /\ p' = [p EXCEPT !.engine = "check"]
  \/ /\ p.engine = "poll" /\ p.queues = "null"
     /\ p' = [p EXCEPT !.status = "segv"]

Engine ==
  /\ Runs("engine") /\ p.engine \notin {"none", "ended"}
  /\ \/ /\ p.object = "freed"
        /\ p' = [p EXCEPT !.status = "use_after_free"]
     \/ /\ p.object # "freed" /\ p.engine = "spawned" /\ p.main = "wait_engine"
        /\ p' = [p EXCEPT !.engine = "log"]
     \/ /\ p.object # "freed" /\ p.engine = "spawned" /\ p.main # "wait_engine"
        /\ p' = [p EXCEPT !.status = "dangling"]
     \/ /\ p.object # "freed" /\ run
  /\ UNCHANGED mainLog

-------------------------------------------------------------------------------
(* signal_handler() on thread t                                                *)

At(t, pc) == Up /\ p.handler[t] = pc
To(t, pc) == [p EXCEPT !.handler[t] = pc]

\* The thread was interrupted while it may hold the lock of the allocator.
InAllocator(t) ==
  \/ t = "main" /\ p.main \in {"format", "new_engine", "assign", "start"}
  \/ t = "engine" /\ p.engine = "log"

\* `delete logger', after ten seconds; then logger is nulled.  A second handler
\* runs ~Logger() on the same object: it waits in the drain as the first does,
\* and only behind it does it join a thread that is joined, or itself.
DeleteLogger(t) ==
  \/ /\ At(t, "sleep")
     /\ p' = [To(t, "delete_logger") EXCEPT !.late = @ \/ p.engine = "spawned"]
     /\ UNCHANGED mainLog
  \/ /\ At(t, "delete_logger") /\ p.logger = "null"
     /\ p' = To(t, "delete_engine")
     /\ UNCHANGED mainLog
  \/ /\ At(t, "delete_logger") /\ p.logger = "set" /\ InAllocator(t)
     /\ p' = [p EXCEPT !.status = "stuck"]
     /\ UNCHANGED mainLog
  \/ /\ At(t, "delete_logger") /\ p.logger = "set" /\ DestroyLogger
     /\ p' = To(t, "drain")
  \/ /\ At(t, "drain") /\ Drain
     /\ p' = To(t, "join")
  \/ /\ At(t, "join") /\ t # "flusher" /\ Join
     /\ p' = To(t, "null_logger")
  \/ /\ At(t, "join") /\ t = "flusher"
     /\ p' = [p EXCEPT !.status = "joins_itself"]
     /\ UNCHANGED mainLog
  \/ /\ \/ At(t, "delete_logger") /\ p.logger = "set" /\ closed
        \/ At(t, "drain") /\ closed
        \/ At(t, "join") /\ (closed \/ \E u \in Threads \ {t} : At(u, "join"))
     /\ p' = [p EXCEPT !.status = "double_delete"]
     /\ UNCHANGED mainLog
  \/ /\ At(t, "null_logger")
     /\ p' = [To(t, "delete_engine") EXCEPT !.logger = "null"]
     /\ UNCHANGED mainLog

EngineSleepMutant(t) ==            \* does not sleep
  /\ At(t, "engine_sleep")
  /\ p' = [To(t, "delete_books") EXCEPT !.queues = "null"]

EngineSleep(t) ==
  /\ At(t, "engine_sleep")
  /\ p' = [To(t, "delete_books") EXCEPT !.queues = "null",
              !.late = @ \/ p.engine \notin {"none", "ended"}]

\* `delete matching_engine': run_ is cleared, a second passes, the queues are
\* nulled and the books deleted; then matching_engine is nulled.
DeleteEngine(t) ==
  /\ \/ /\ At(t, "delete_engine") /\ p.matching_engine = "null"
        /\ p' = To(t, "last_sleep")
     \/ /\ At(t, "delete_engine") /\ p.matching_engine = "set" /\ p.object = "live"
        /\ p' = [To(t, "engine_sleep") EXCEPT !.object = "dying", !.run_ = FALSE]
     \/ /\ At(t, "delete_engine") /\ p.matching_engine = "set" /\ p.object # "live"
        /\ p' = [p EXCEPT !.status = "double_delete"]
     \/ EngineSleep(t)
     \/ /\ At(t, "delete_books")
        /\ p' = [To(t, "null_engine") EXCEPT !.object = "freed"]
     \/ /\ At(t, "null_engine")
        /\ p' = [To(t, "last_sleep") EXCEPT !.matching_engine = "null"]
     \/ /\ At(t, "last_sleep")
        /\ p' = [p EXCEPT !.status = "exited"]
  /\ UNCHANGED mainLog

signal_handler(t) == DeleteLogger(t) \/ DeleteEngine(t)

\* Ctrl-C: on the main thread, and once more on another that runs.
Interrupt ==
  /\ Up /\ p.logger = "set"
  /\ \E t \in Threads :
       /\ CASE t = "main"    -> p.signals = 0
            [] t = "flusher" -> p.signals = 1 /\ flusher # "ended"
            [] t = "engine"  -> p.signals = 1 /\ p.engine \in {"log", "check", "poll"}
       /\ p' = [To(t, "sleep") EXCEPT !.signals = @ + 1]
  /\ UNCHANGED mainLog

ShutdownNext ==
  \/ Main \/ Flusher \/ Engine
  \/ \E t \in Threads : signal_handler(t)
  \/ Interrupt

\* The threads are scheduled and every sleep ends; nobody has to press Ctrl-C.
ShutdownSpec ==
  /\ ShutdownInit /\ [][ShutdownNext]_allVars
  /\ WF_allVars(Main) /\ WF_allVars(Flusher) /\ WF_allVars(Engine)
  /\ \A t \in Threads : WF_allVars(signal_handler(t))

-------------------------------------------------------------------------------
(* Properties.                                                                 *)

HandlerSteps == {"none", "sleep", "delete_logger", "drain", "join", "null_logger",
  "delete_engine", "engine_sleep", "delete_books", "null_engine", "last_sleep"}

Processes ==
  [status : {"up", "exited", "stuck", "dangling", "segv", "use_after_free",
             "double_delete", "joins_itself"},
   late : BOOLEAN, signals : 0 .. 2,
   main : {"new_logger", "wait_flusher", "install", "format", "push", "new_engine",
           "assign", "start", "wait_engine"},
   handler : [Threads -> HandlerSteps],
   engine : {"none", "spawned", "log", "check", "poll", "ended"},
   logger : {"null", "set"}, matching_engine : {"null", "set"},
   object : {"none", "live", "dying", "freed"},
   queues : {"null", "set"}, run_ : BOOLEAN]

\* The threads are where their code can be, the pointers null or set, and the
\* flush thread is told to end only by a handler that is past the drain.
ShutdownTypeOK ==
  /\ p \in Processes
  /\ flusher \in {"none", "spawned", "check", "loop", "flush", "ended"}
  /\ file_ \in Seq(Nat \cup {Torn}) /\ disk \in 0 .. Len(file_)
  /\ closed \in BOOLEAN /\ running_ \in BOOLEAN
  /\ ~running_ => \E t \in Threads :
       p.handler[t] \notin {"none", "sleep", "delete_logger", "drain"}

\* Freed memory, nulled queues and the arguments of a function that has returned
\* are used only when a sleep was too short for another thread; an object is
\* deleted twice, or a thread joins itself, only after a second Ctrl-C
\* (matching_engine.cpp:19-33, thread_utils.h:31-44, main.cpp:55-66).
OnlyLateOrTwice ==
  /\ p.status \in {"segv", "use_after_free", "dangling"} => p.late
  /\ p.status \in {"double_delete", "joins_itself"} => p.signals = 2

\* The books, whose destructors log, are deleted when the engine's thread has
\* written its last line, unless it is late: a Logger has one writer at a time
\* (me_order_book.cpp:16-27, logging.h:101).
OneWriter ==
  \A t \in Threads : At(t, "delete_books") /\ p.engine \in {"spawned", "log"} => p.late

\* When signal_handler() exits the process, everything main() has logged is on
\* disk, whole and in order unless the log queue was overrun, and the engine is
\* destroyed, unless the signal came before main() had stored the pointer to it
\* (logging.h:84-97, main.cpp:55-66).
ExitKeepsLogs ==
  p.status = "exited" =>
    /\ closed
    /\ Len(file_) = Counted /\ disk = Counted
    /\ ~overrun => file_ = [k \in 1 .. Counted |-> k]
    /\ p.object = "live" => p.main = "assign"

\* What is logged reaches the disk while the process goes on, until the queue is
\* overrun or the flush thread is interrupted by a second Ctrl-C
\* (the outer loop of flushQueue(), logging.h:49-78).
LoggedIsFlushed ==
  \A k \in 1 .. MaxWrites :
    (Counted >= k) ~> \/ disk >= k \/ p.status # "up"
                      \/ overrun \/ p.handler["flusher"] # "none"

\* Elements are counted that nobody will read: the flush thread runs the handler,
\* or it finds the indices equal on an overrun ring while main() is in the handler.
DrainStarved ==
  /\ p.signals > 0 /\ num_elements_ # 0
  /\ \/ p.handler["flusher"] # "none"
     \/ reader = "idle" /\ next_read_index_ = next_write_index_

\* Ctrl-C ends the process, or the handler hangs in the allocator (stuck), or it
\* hangs in the drain of ~Logger() because nobody reads the queue any more.
\* Nothing else makes the drain or the join wait for ever (logging.h:87-93).
SignalEndsProcess == (p.signals > 0) ~> (p.status # "up" \/ DrainStarved)
===============================================================================
