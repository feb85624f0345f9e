---------------------------- MODULE ShutdownProofs ----------------------------
(***************************************************************************)
(* Proofs about Shutdown, for every size of main's log queue and any       *)
(* number of lines.                                                        *)
(***************************************************************************)
EXTENDS Shutdown, LFQueueProofs

-------------------------------------------------------------------------------
(* The queue of main's Logger, in the life of the process.                     *)

LEMMA LoggerStep == status = "up" /\ flushQueue => [Next]_vars
BY DEF flushQueue, CheckRunning, EndLoop, StreamElement, Flush, Next, Reader

LEMMA HandlerStep ==
  ASSUME NEW t \in Threads, signal_handler(t)
  PROVE  UNCHANGED vars
BY DEF signal_handler, DeleteLogger, DeleteEngine, mainLog, DestroyLogger, Drain, Join

LEMMA StepOfQueue == [ShutdownNext]_allVars => [Next]_vars
<1> SUFFICES ASSUME [ShutdownNext]_allVars
             PROVE  [Next]_vars
  OBVIOUS
<1>1. CASE Main
  BY <1>1 DEF Main, Runs, Up, NewLogger, Log, NewEngine, mainLog, pushValue, Next
<1>2. CASE Flusher
  BY <1>2, LoggerStep DEF Flusher, Runs, Up, mainLog
<1>3. CASE Engine
  BY <1>3 DEF Engine, mainLog
<1>4. CASE \E t \in Threads : signal_handler(t)
  BY <1>4, HandlerStep
<1>5. CASE Interrupt
  BY <1>5 DEF Interrupt, mainLog
<1>6. CASE UNCHANGED allVars
  BY <1>6 DEF allVars, mainLog
<1> QED
  BY <1>1, <1>2, <1>3, <1>4, <1>5, <1>6 DEF ShutdownNext

\* main(), the flush thread and the handler use the queue as LFQueue says a writer
\* and a reader do, so that all that is proved of LFQueue is true of the queue of
\* main's Logger (logging.h:47-103).
THEOREM LogIsAQueue == ShutdownSpec => Spec
<1>1. ShutdownInit => Init
  BY DEF ShutdownInit, LoggerInit
<1> QED
  BY <1>1, StepOfQueue, PTL DEF ShutdownSpec, Spec

-------------------------------------------------------------------------------
(* Who uses what when.                                                         *)

ThreadsOK ==
  /\ p \in Processes
  /\ flusher \in {"none", "spawned", "check", "loop", "flush", "ended"}
  /\ closed \in BOOLEAN

\* Ctrl-C goes to the main thread first, which does not go on after it.
MainInterruptedFirst ==
  /\ p.signals = 0 <=> p.handler["main"] = "none"
  /\ p.signals < 2 => \A t \in Others : p.handler[t] = "none"
  /\ p.main \in {"new_logger", "wait_flusher", "install"} => p.logger = "null"

\* A thread starts while createAndStartThread() still sleeps, or late.
StartsInTime ==
  /\ flusher = "spawned" => p.main = "wait_flusher" \/ p.late
  /\ p.engine = "spawned" => p.main = "wait_engine" \/ p.late

\* The engine is taken apart by a handler, behind a thread that has ended or is
\* late.
TakenApart ==
  /\ p.object \in {"dying", "freed"} \/ p.queues = "null" => p.signals > 0
  /\ p.object = "freed" => p.queues = "null"
  /\ \A t \in Threads : p.handler[t] = "delete_books" => p.queues = "null"
  /\ p.queues = "null" => p.engine \in {"none", "ended"} \/ p.late

\* One handler on its own finds what it deletes.
DeletedOnce ==
  /\ p.signals < 2
       /\ p.handler["main"] \in {"none", "sleep", "delete_logger", "drain", "join"}
       => ~closed
  /\ p.signals < 2 /\ p.matching_engine = "set"
       /\ p.handler["main"] \in {"none", "sleep", "delete_logger", "drain", "join",
                               "null_logger", "delete_engine"}
       => p.object = "live"
  /\ p.signals = 0 /\ p.main = "assign" => p.object = "live"

ProcessInv ==
  /\ ThreadsOK /\ MainInterruptedFirst /\ StartsInTime /\ TakenApart /\ DeletedOnce
  /\ OnlyLateOrTwice

LEMMA InitProcess == ShutdownInit => ProcessInv
<1> SUFFICES ASSUME ShutdownInit
             PROVE  ProcessInv
  OBVIOUS
<1>1. ThreadsOK
  <2>1. p \in Processes
    BY DEF ShutdownInit, Processes, HandlerSteps
  <2> QED
    BY <2>1 DEF ShutdownInit, LoggerInit, ThreadsOK
<1>2. MainInterruptedFirst /\ StartsInTime /\ TakenApart /\ DeletedOnce /\ OnlyLateOrTwice
  BY DEF ShutdownInit, LoggerInit, MainInterruptedFirst, StartsInTime, TakenApart,
     DeletedOnce, OnlyLateOrTwice, Threads, Others
<1> QED
  BY <1>1, <1>2 DEF ProcessInv

LEMMA Typed ==
  ASSUME ThreadsOK
  PROVE  /\ p.signals \in {0, 1, 2} /\ p.late \in BOOLEAN
         /\ p.logger \in {"null", "set"} /\ p.matching_engine \in {"null", "set"}
BY DEF ThreadsOK, Processes

LEMMA NewLoggerProcess ==
  ASSUME ProcessInv, Runs("main"), NewLogger
  PROVE  ProcessInv'
<1> USE DEF ProcessInv, Runs, mainLog, vars, loggerVars
<1>1. CASE p.main = "new_logger"
  <2>1. p' = [p EXCEPT !.main = "wait_flusher"]
        /\ flusher' = "spawned" /\ UNCHANGED closed
    BY <1>1 DEF NewLogger
  <2>2. ThreadsOK'
    BY <2>1 DEF ThreadsOK, Processes
  <2>3. MainInterruptedFirst'
    BY <1>1, <2>1, <2>2 DEF MainInterruptedFirst, StartsInTime, TakenApart, DeletedOnce,
         OnlyLateOrTwice
  <2>4. StartsInTime'
    BY <1>1, <2>1, <2>2 DEF MainInterruptedFirst, StartsInTime, TakenApart, DeletedOnce,
         OnlyLateOrTwice
  <2>5. TakenApart'
    BY <1>1, <2>1, <2>2 DEF MainInterruptedFirst, StartsInTime, TakenApart, DeletedOnce,
         OnlyLateOrTwice
  <2>6. DeletedOnce'
    BY <1>1, <2>1, <2>2 DEF MainInterruptedFirst, StartsInTime, TakenApart, DeletedOnce,
         OnlyLateOrTwice
  <2>7. OnlyLateOrTwice'
    BY <1>1, <2>1, <2>2 DEF MainInterruptedFirst, StartsInTime, TakenApart, DeletedOnce,
         OnlyLateOrTwice
  <2> QED
    BY <2>2, <2>3, <2>4, <2>5, <2>6, <2>7
<1>2. CASE p.main = "wait_flusher"
  <2>1. p' = [p EXCEPT !.main = "install", !.late = @ \/ flusher = "spawned"]
        /\ UNCHANGED mainLog
    BY <1>2 DEF NewLogger
  <2>2. ThreadsOK'
    BY <2>1 DEF ThreadsOK, Processes
  <2> (p.late => p'.late) /\ (flusher = "spawned" => p'.late)
    BY <2>1, Typed DEF ThreadsOK, Processes
  <2>3. MainInterruptedFirst'
    BY <1>2, <2>1, <2>2 DEF MainInterruptedFirst, StartsInTime, TakenApart, DeletedOnce,
         OnlyLateOrTwice
  <2>4. StartsInTime'
    BY <1>2, <2>1, <2>2 DEF MainInterruptedFirst, StartsInTime, TakenApart, DeletedOnce,
         OnlyLateOrTwice
  <2>5. TakenApart'
    BY <1>2, <2>1, <2>2 DEF MainInterruptedFirst, StartsInTime, TakenApart, DeletedOnce,
         OnlyLateOrTwice
  <2>6. DeletedOnce'
    BY <1>2, <2>1, <2>2 DEF MainInterruptedFirst, StartsInTime, TakenApart, DeletedOnce,
         OnlyLateOrTwice
  <2>7. OnlyLateOrTwice'
    BY <1>2, <2>1, <2>2 DEF MainInterruptedFirst, StartsInTime, TakenApart, DeletedOnce,
         OnlyLateOrTwice
  <2> QED
    BY <2>2, <2>3, <2>4, <2>5, <2>6, <2>7
<1>3. CASE p.main = "install"
  <2>1. p' = [p EXCEPT !.main = "format", !.logger = "set"]
        /\ UNCHANGED mainLog
    BY <1>3 DEF NewLogger
  <2>2. ThreadsOK'
    BY <2>1, ZenonT(60) DEF ThreadsOK, Processes
  <2>3. MainInterruptedFirst'
    BY <1>3, <2>1, <2>2 DEF MainInterruptedFirst, StartsInTime, TakenApart, DeletedOnce,
         OnlyLateOrTwice
  <2>4. StartsInTime'
    BY <1>3, <2>1, <2>2 DEF MainInterruptedFirst, StartsInTime, TakenApart, DeletedOnce,
         OnlyLateOrTwice
  <2>5. TakenApart'
    BY <1>3, <2>1, <2>2 DEF MainInterruptedFirst, StartsInTime, TakenApart, DeletedOnce,
         OnlyLateOrTwice
  <2>6. DeletedOnce'
    BY <1>3, <2>1, <2>2 DEF MainInterruptedFirst, StartsInTime, TakenApart, DeletedOnce,
         OnlyLateOrTwice
  <2>7. OnlyLateOrTwice'
    BY <1>3, <2>1, <2>2 DEF MainInterruptedFirst, StartsInTime, TakenApart, DeletedOnce,
         OnlyLateOrTwice
  <2> QED
    BY <2>2, <2>3, <2>4, <2>5, <2>6, <2>7
<1> QED
  BY <1>1, <1>2, <1>3 DEF NewLogger

LEMMA LogProcess ==
  ASSUME ProcessInv, Runs("main"), Log
  PROVE  ProcessInv'
<1> USE DEF ProcessInv, ThreadsOK, Processes, HandlerSteps, MainInterruptedFirst,
            StartsInTime, TakenApart, DeletedOnce, OnlyLateOrTwice, Threads, Others,
            Log, Runs, Up, mainLog, loggerVars
<1>1. CASE p.main = "format"
  BY <1>1
<1>2. CASE p.main = "push"
  BY <1>2
<1> QED
  BY <1>1, <1>2

LEMMA NewEngineProcess ==
  ASSUME ProcessInv, Runs("main"), NewEngine
  PROVE  ProcessInv'
<1> USE DEF ProcessInv, Runs, mainLog, vars, loggerVars
<1>1. CASE p.main = "new_engine"
  <2>1. p' = [p EXCEPT !.main = "assign", !.object = "live"]
        /\ UNCHANGED mainLog
    BY <1>1 DEF NewEngine
  <2>a. \A q \in Processes : [q EXCEPT !.main = "assign"] \in Processes
    BY DEF Processes
  <2>b. \A q \in Processes : [q EXCEPT !.object = "live"] \in Processes
    BY DEF Processes
  <2>c. p' = [[p EXCEPT !.main = "assign"] EXCEPT !.object = "live"]
    BY <2>1 DEF ThreadsOK, Processes
  <2>2. ThreadsOK'
    BY <2>1, <2>a, <2>b, <2>c DEF ThreadsOK
  <2>3. MainInterruptedFirst'
    BY <1>1, <2>1, <2>2 DEF MainInterruptedFirst, StartsInTime, TakenApart, DeletedOnce,
         OnlyLateOrTwice
  <2>4. StartsInTime'
    BY <1>1, <2>1, <2>2 DEF MainInterruptedFirst, StartsInTime, TakenApart, DeletedOnce,
         OnlyLateOrTwice
  <2>5. TakenApart'
    BY <1>1, <2>1, <2>2 DEF MainInterruptedFirst, StartsInTime, TakenApart, DeletedOnce,
         OnlyLateOrTwice
  <2>6. DeletedOnce'
    BY <1>1, <2>1, <2>2 DEF MainInterruptedFirst, StartsInTime, TakenApart, DeletedOnce,
         OnlyLateOrTwice
  <2>7. OnlyLateOrTwice'
    BY <1>1, <2>1, <2>2 DEF MainInterruptedFirst, StartsInTime, TakenApart, DeletedOnce,
         OnlyLateOrTwice
  <2> QED
    BY <2>2, <2>3, <2>4, <2>5, <2>6, <2>7
<1>2. CASE p.main = "assign"
  <2>1. p' = [p EXCEPT !.main = "start", !.matching_engine = "set"]
        /\ UNCHANGED mainLog
    BY <1>2 DEF NewEngine
  <2>2. ThreadsOK'
    BY <2>1, ZenonT(60) DEF ThreadsOK, Processes
  <2>3. MainInterruptedFirst'
    BY <1>2, <2>1, <2>2 DEF MainInterruptedFirst, StartsInTime, TakenApart, DeletedOnce,
         OnlyLateOrTwice
  <2>4. StartsInTime'
    BY <1>2, <2>1, <2>2 DEF MainInterruptedFirst, StartsInTime, TakenApart, DeletedOnce,
         OnlyLateOrTwice
  <2>5. TakenApart'
    BY <1>2, <2>1, <2>2 DEF MainInterruptedFirst, StartsInTime, TakenApart, DeletedOnce,
         OnlyLateOrTwice
  <2>6. DeletedOnce'
    BY <1>2, <2>1, <2>2 DEF MainInterruptedFirst, StartsInTime, TakenApart, DeletedOnce,
         OnlyLateOrTwice
  <2>7. OnlyLateOrTwice'
    BY <1>2, <2>1, <2>2 DEF MainInterruptedFirst, StartsInTime, TakenApart, DeletedOnce,
         OnlyLateOrTwice
  <2> QED
    BY <2>2, <2>3, <2>4, <2>5, <2>6, <2>7
<1>3. CASE p.main = "start"
  <2>1. p' = [p EXCEPT !.main = "wait_engine", !.run_ = TRUE, !.engine = "spawned"]
        /\ UNCHANGED mainLog
    BY <1>3 DEF NewEngine
  <2>2. ThreadsOK'
    BY <2>1 DEF ThreadsOK, Processes
  <2>3. MainInterruptedFirst'
    BY <1>3, <2>1, <2>2 DEF MainInterruptedFirst, StartsInTime, TakenApart, DeletedOnce,
         OnlyLateOrTwice
  <2>4. StartsInTime'
    BY <1>3, <2>1, <2>2 DEF MainInterruptedFirst, StartsInTime, TakenApart, DeletedOnce,
         OnlyLateOrTwice
  <2>5. TakenApart'
    BY <1>3, <2>1, <2>2 DEF MainInterruptedFirst, StartsInTime, TakenApart, DeletedOnce,
         OnlyLateOrTwice
  <2>6. DeletedOnce'
    BY <1>3, <2>1, <2>2 DEF MainInterruptedFirst, StartsInTime, TakenApart, DeletedOnce,
         OnlyLateOrTwice
  <2>7. OnlyLateOrTwice'
    BY <1>3, <2>1, <2>2 DEF MainInterruptedFirst, StartsInTime, TakenApart, DeletedOnce,
         OnlyLateOrTwice
  <2> QED
    BY <2>2, <2>3, <2>4, <2>5, <2>6, <2>7
<1>4. CASE p.main = "wait_engine"
  <2>1. p' = [p EXCEPT !.main = "format", !.late = @ \/ p.engine = "spawned"]
        /\ UNCHANGED mainLog
    BY <1>4 DEF NewEngine
  <2>2. ThreadsOK'
    BY <2>1 DEF ThreadsOK, Processes
  <2> (p.late => p'.late) /\ (p.engine = "spawned" => p'.late)
    BY <2>1, Typed DEF ThreadsOK, Processes
  <2>3. MainInterruptedFirst'
    BY <1>4, <2>1, <2>2 DEF MainInterruptedFirst, StartsInTime, TakenApart, DeletedOnce,
         OnlyLateOrTwice
  <2>4. StartsInTime'
    BY <1>4, <2>1, <2>2 DEF MainInterruptedFirst, StartsInTime, TakenApart, DeletedOnce,
         OnlyLateOrTwice
  <2>5. TakenApart'
    BY <1>4, <2>1, <2>2 DEF MainInterruptedFirst, StartsInTime, TakenApart, DeletedOnce,
         OnlyLateOrTwice
  <2>6. DeletedOnce'
    BY <1>4, <2>1, <2>2 DEF MainInterruptedFirst, StartsInTime, TakenApart, DeletedOnce,
         OnlyLateOrTwice
  <2>7. OnlyLateOrTwice'
    BY <1>4, <2>1, <2>2 DEF MainInterruptedFirst, StartsInTime, TakenApart, DeletedOnce,
         OnlyLateOrTwice
  <2> QED
    BY <2>2, <2>3, <2>4, <2>5, <2>6, <2>7
<1> QED
  BY <1>1, <1>2, <1>3, <1>4 DEF NewEngine

LEMMA MainProcess == ProcessInv /\ Main => ProcessInv'
BY NewLoggerProcess, LogProcess, NewEngineProcess DEF Main

LEMMA FlusherProcess == ProcessInv /\ Flusher => ProcessInv'
BY DEF ProcessInv, ThreadsOK, Processes, HandlerSteps, MainInterruptedFirst,
       StartsInTime, TakenApart, DeletedOnce, OnlyLateOrTwice, Threads, Others,
       Flusher, Runs, Up, mainLog, loggerVars, flushQueue, CheckRunning, EndLoop,
       StreamElement, Flush

LEMMA EngineProcess == ProcessInv /\ Engine => ProcessInv'
BY DEF ProcessInv, ThreadsOK, Processes, HandlerSteps, MainInterruptedFirst,
       StartsInTime, TakenApart, DeletedOnce, OnlyLateOrTwice, Threads, Others,
       Engine, run, Runs, Up, mainLog, loggerVars

LEMMA DeleteLoggerProcess ==
  ASSUME ProcessInv, NEW t \in Threads, DeleteLogger(t)
  PROVE  ProcessInv'
<1> USE DEF ProcessInv, Runs, mainLog, vars, loggerVars
<1>1. CASE At(t, "sleep")
  <2>1. p' = [To(t, "delete_logger") EXCEPT !.late = @ \/ p.engine = "spawned"]
    BY <1>1 DEF DeleteLogger, At, Up
  <2>2. p.status = "up" /\ UNCHANGED mainLog
    BY <1>1 DEF DeleteLogger, At, Up
  <2>3. ThreadsOK'
    BY <2>1, <2>2 DEF ThreadsOK, Processes, HandlerSteps, To
  <2>4. /\ p'.status = p.status /\ p'.signals = p.signals /\ p'.main = p.main
        /\ p'.engine = p.engine /\ p'.logger = p.logger
        /\ p'.matching_engine = p.matching_engine /\ p'.object = p.object
        /\ p'.queues = p.queues /\ p'.run_ = p.run_
        /\ p'.handler[t] = "delete_logger"
        /\ \A u \in Threads \ {t} : p'.handler[u] = p.handler[u]
        /\ p.late => p'.late
    BY <2>1 DEF ThreadsOK, Processes, To
  <2>5. MainInterruptedFirst'
    BY <1>1, <2>2, <2>4, Typed DEF MainInterruptedFirst, StartsInTime, TakenApart,
       DeletedOnce,
         OnlyLateOrTwice, At, Threads, Others
  <2>6. StartsInTime'
    BY <1>1, <2>2, <2>4, Typed DEF MainInterruptedFirst, StartsInTime, TakenApart,
       DeletedOnce,
         OnlyLateOrTwice, At, Threads, Others
  <2>7. TakenApart'
    BY <1>1, <2>2, <2>4, Typed DEF MainInterruptedFirst, StartsInTime, TakenApart,
       DeletedOnce,
         OnlyLateOrTwice, At, Threads, Others
  <2>8. DeletedOnce'
    BY <1>1, <2>2, <2>4, Typed DEF MainInterruptedFirst, StartsInTime, TakenApart,
       DeletedOnce,
         OnlyLateOrTwice, At, Threads, Others
  <2>9. OnlyLateOrTwice'
    BY <1>1, <2>2, <2>4, Typed DEF MainInterruptedFirst, StartsInTime, TakenApart,
       DeletedOnce,
         OnlyLateOrTwice, At, Threads, Others
  <2> QED
    BY <2>3, <2>5, <2>6, <2>7, <2>8, <2>9
<1>2. CASE At(t, "delete_logger") /\ p.logger = "null"
  BY <1>2 DEF ThreadsOK, Processes, HandlerSteps, MainInterruptedFirst, StartsInTime,
     TakenApart, DeletedOnce, OnlyLateOrTwice, Threads, Others, DeleteLogger,
     DestroyLogger, Drain, Join, At, To, Up
<1>3. CASE At(t, "delete_logger") /\ p.logger = "set"
  BY <1>3 DEF ThreadsOK, Processes, HandlerSteps, MainInterruptedFirst, StartsInTime,
     TakenApart, DeletedOnce, OnlyLateOrTwice, Threads, Others, DeleteLogger,
     DestroyLogger, Drain, Join, At, To, Up
<1>4. CASE At(t, "drain")
  BY <1>4 DEF ThreadsOK, Processes, HandlerSteps, MainInterruptedFirst, StartsInTime,
     TakenApart, DeletedOnce, OnlyLateOrTwice, Threads, Others, DeleteLogger,
     DestroyLogger, Drain, Join, At, To, Up
<1>5. CASE At(t, "join")
  <2>1. CASE Join /\ p' = To(t, "null_logger")
    BY <1>5, <2>1 DEF ThreadsOK, Processes, HandlerSteps, MainInterruptedFirst,
       StartsInTime, TakenApart, DeletedOnce, OnlyLateOrTwice, Threads, Others, Join,
       At, To, Up
  <2>2. CASE t = "flusher" /\ p' = [p EXCEPT !.status = "joins_itself"] /\ UNCHANGED mainLog
    BY <1>5, <2>2 DEF ThreadsOK, Processes, MainInterruptedFirst, StartsInTime,
       TakenApart, DeletedOnce, OnlyLateOrTwice, Threads, Others, At, Up
  <2>3. CASE /\ closed \/ \E u \in Threads \ {t} : At(u, "join")
             /\ p' = [p EXCEPT !.status = "double_delete"] /\ UNCHANGED mainLog
    <3>1. p.signals = 2
      BY <1>5, <2>3, Typed DEF MainInterruptedFirst, DeletedOnce, Threads, Others, At
    <3> QED
      BY <1>5, <2>3, <3>1 DEF ThreadsOK, Processes, MainInterruptedFirst, StartsInTime,
         TakenApart, DeletedOnce, OnlyLateOrTwice, At, Up
  <2> QED
    BY <1>5, <2>1, <2>2, <2>3 DEF DeleteLogger, At
<1>6. CASE At(t, "null_logger")
  <2>1. p' = [To(t, "delete_engine") EXCEPT !.logger = "null"]
    BY <1>6 DEF DeleteLogger, At, Up
  <2>2. p.status = "up" /\ UNCHANGED mainLog
    BY <1>6 DEF DeleteLogger, At, Up
  <2>3. ThreadsOK'
    BY <2>1, <2>2 DEF ThreadsOK, Processes, HandlerSteps, To
  <2>4. /\ p'.status = p.status /\ p'.late = p.late /\ p'.signals = p.signals
        /\ p'.main = p.main /\ p'.engine = p.engine
        /\ p'.matching_engine = p.matching_engine /\ p'.object = p.object
        /\ p'.queues = p.queues /\ p'.run_ = p.run_
        /\ p'.handler[t] = "delete_engine"
        /\ \A u \in Threads \ {t} : p'.handler[u] = p.handler[u]
        /\ p'.logger = "null"
    BY <2>1 DEF ThreadsOK, Processes, To
  <2>5. MainInterruptedFirst'
    BY <1>6, <2>2, <2>4, Typed DEF MainInterruptedFirst, StartsInTime, TakenApart,
       DeletedOnce,
         OnlyLateOrTwice, At, Threads, Others
  <2>6. StartsInTime'
    BY <1>6, <2>2, <2>4, Typed DEF MainInterruptedFirst, StartsInTime, TakenApart,
       DeletedOnce,
         OnlyLateOrTwice, At, Threads, Others
  <2>7. TakenApart'
    BY <1>6, <2>2, <2>4, Typed DEF MainInterruptedFirst, StartsInTime, TakenApart,
       DeletedOnce,
         OnlyLateOrTwice, At, Threads, Others
  <2>8. DeletedOnce'
    BY <1>6, <2>2, <2>4, Typed DEF MainInterruptedFirst, StartsInTime, TakenApart,
       DeletedOnce,
         OnlyLateOrTwice, At, Threads, Others
  <2>9. OnlyLateOrTwice'
    BY <1>6, <2>2, <2>4, Typed DEF MainInterruptedFirst, StartsInTime, TakenApart,
       DeletedOnce,
         OnlyLateOrTwice, At, Threads, Others
  <2> QED
    BY <2>3, <2>5, <2>6, <2>7, <2>8, <2>9
<1> QED
  BY <1>1, <1>2, <1>3, <1>4, <1>5, <1>6, Typed DEF DeleteLogger

LEMMA DeleteEngineProcess ==
  ASSUME ProcessInv, NEW t \in Threads, DeleteEngine(t)
  PROVE  ProcessInv'
<1> USE DEF ProcessInv, Runs, mainLog, vars, loggerVars
<1>1. CASE At(t, "delete_engine") /\ p.matching_engine = "null"
  <2>1. p' = To(t, "last_sleep")
    BY <1>1 DEF DeleteEngine, EngineSleep, At, Up
  <2>2. p.status = "up" /\ UNCHANGED mainLog
    BY <1>1 DEF DeleteEngine, EngineSleep, At, Up
  <2>3. ThreadsOK'
    BY <2>1, <2>2 DEF ThreadsOK, Processes, HandlerSteps, To
  <2>4. /\ p'.status = p.status /\ p'.late = p.late /\ p'.signals = p.signals
        /\ p'.main = p.main /\ p'.engine = p.engine /\ p'.logger = p.logger
        /\ p'.matching_engine = p.matching_engine /\ p'.object = p.object
        /\ p'.queues = p.queues /\ p'.run_ = p.run_
        /\ p'.handler[t] = "last_sleep"
        /\ \A u \in Threads \ {t} : p'.handler[u] = p.handler[u]
    BY <2>1 DEF ThreadsOK, Processes, To
  <2>5. MainInterruptedFirst'
    BY <1>1, <2>2, <2>4, Typed DEF MainInterruptedFirst, StartsInTime, TakenApart,
       DeletedOnce,
         OnlyLateOrTwice, At, Threads, Others
  <2>6. StartsInTime'
    BY <1>1, <2>2, <2>4, Typed DEF MainInterruptedFirst, StartsInTime, TakenApart,
       DeletedOnce,
         OnlyLateOrTwice, At, Threads, Others
  <2>7. TakenApart'
    BY <1>1, <2>2, <2>4, Typed DEF MainInterruptedFirst, StartsInTime, TakenApart,
       DeletedOnce,
         OnlyLateOrTwice, At, Threads, Others
  <2>8. DeletedOnce'
    BY <1>1, <2>2, <2>4, Typed DEF MainInterruptedFirst, StartsInTime, TakenApart,
       DeletedOnce,
         OnlyLateOrTwice, At, Threads, Others
  <2>9. OnlyLateOrTwice'
    BY <1>1, <2>2, <2>4, Typed DEF MainInterruptedFirst, StartsInTime, TakenApart,
       DeletedOnce,
         OnlyLateOrTwice, At, Threads, Others
  <2> QED
    BY <2>3, <2>5, <2>6, <2>7, <2>8, <2>9
<1>2. CASE At(t, "delete_engine") /\ p.matching_engine = "set" /\ p.object = "live"
  <2>1. p' = [To(t, "engine_sleep") EXCEPT !.object = "dying", !.run_ = FALSE]
    BY <1>2 DEF DeleteEngine, EngineSleep, At, Up
  <2>2. p.status = "up" /\ UNCHANGED mainLog
    BY <1>2 DEF DeleteEngine, EngineSleep, At, Up
  <2>3. ThreadsOK'
    BY <2>1, <2>2 DEF ThreadsOK, Processes, HandlerSteps, To
  <2>4. /\ p'.status = p.status /\ p'.late = p.late /\ p'.signals = p.signals
        /\ p'.main = p.main /\ p'.engine = p.engine /\ p'.logger = p.logger
        /\ p'.matching_engine = p.matching_engine /\ p'.queues = p.queues
        /\ p'.handler[t] = "engine_sleep"
        /\ \A u \in Threads \ {t} : p'.handler[u] = p.handler[u]
        /\ p'.object = "dying"
    BY <2>1 DEF ThreadsOK, Processes, To
  <2>5. MainInterruptedFirst'
    BY <1>2, <2>2, <2>4, Typed DEF MainInterruptedFirst, StartsInTime, TakenApart,
       DeletedOnce,
         OnlyLateOrTwice, At, Threads, Others
  <2>6. StartsInTime'
    BY <1>2, <2>2, <2>4, Typed DEF MainInterruptedFirst, StartsInTime, TakenApart,
       DeletedOnce,
         OnlyLateOrTwice, At, Threads, Others
  <2>7. TakenApart'
    BY <1>2, <2>2, <2>4, Typed DEF MainInterruptedFirst, StartsInTime, TakenApart,
       DeletedOnce,
         OnlyLateOrTwice, At, Threads, Others
  <2>8. DeletedOnce'
    BY <1>2, <2>2, <2>4, Typed DEF MainInterruptedFirst, StartsInTime, TakenApart,
       DeletedOnce,
         OnlyLateOrTwice, At, Threads, Others
  <2>9. OnlyLateOrTwice'
    BY <1>2, <2>2, <2>4, Typed DEF MainInterruptedFirst, StartsInTime, TakenApart,
       DeletedOnce,
         OnlyLateOrTwice, At, Threads, Others
  <2> QED
    BY <2>3, <2>5, <2>6, <2>7, <2>8, <2>9
<1>3. CASE At(t, "delete_engine") /\ p.matching_engine = "set" /\ p.object # "live"
  <2>1. p' = [p EXCEPT !.status = "double_delete"]
    BY <1>3 DEF DeleteEngine, EngineSleep, At, Up
  <2>2. p.status = "up" /\ UNCHANGED mainLog
    BY <1>3 DEF DeleteEngine, EngineSleep, At, Up
  <2>3. ThreadsOK'
    BY <2>1, <2>2 DEF ThreadsOK, Processes, HandlerSteps
  <2>4. /\ p'.late = p.late /\ p'.signals = p.signals /\ p'.main = p.main
        /\ p'.handler = p.handler /\ p'.engine = p.engine /\ p'.logger = p.logger
        /\ p'.matching_engine = p.matching_engine /\ p'.object = p.object
        /\ p'.queues = p.queues /\ p'.run_ = p.run_
        /\ p'.status = "double_delete"
    BY <2>1 DEF ThreadsOK, Processes
  <2>5. MainInterruptedFirst'
    BY <1>3, <2>2, <2>4, Typed DEF MainInterruptedFirst, StartsInTime, TakenApart,
       DeletedOnce,
         OnlyLateOrTwice, At, Threads, Others
  <2>6. StartsInTime'
    BY <1>3, <2>2, <2>4, Typed DEF MainInterruptedFirst, StartsInTime, TakenApart,
       DeletedOnce,
         OnlyLateOrTwice, At, Threads, Others
  <2>7. TakenApart'
    BY <1>3, <2>2, <2>4, Typed DEF MainInterruptedFirst, StartsInTime, TakenApart,
       DeletedOnce,
         OnlyLateOrTwice, At, Threads, Others
  <2>8. DeletedOnce'
    BY <1>3, <2>2, <2>4, Typed DEF MainInterruptedFirst, StartsInTime, TakenApart,
       DeletedOnce,
         OnlyLateOrTwice, At, Threads, Others
  <2>9. OnlyLateOrTwice'
    BY <1>3, <2>2, <2>4, Typed DEF MainInterruptedFirst, StartsInTime, TakenApart,
       DeletedOnce,
         OnlyLateOrTwice, At, Threads, Others
  <2> QED
    BY <2>3, <2>5, <2>6, <2>7, <2>8, <2>9
<1>4. CASE At(t, "engine_sleep")
  <2>1. p' = [To(t, "delete_books") EXCEPT !.queues = "null",
                                      !.late = @ \/ p.engine \notin {"none", "ended"}]
    BY <1>4 DEF DeleteEngine, EngineSleep, At, Up
  <2>2. p.status = "up" /\ UNCHANGED mainLog
    BY <1>4 DEF DeleteEngine, EngineSleep, At, Up
  <2>3. ThreadsOK'
    BY <2>1, <2>2, ZenonT(60) DEF ThreadsOK, Processes, HandlerSteps, To
  <2>4. /\ p'.status = p.status /\ p'.signals = p.signals /\ p'.main = p.main
        /\ p'.engine = p.engine /\ p'.logger = p.logger
        /\ p'.matching_engine = p.matching_engine /\ p'.object = p.object
        /\ p'.run_ = p.run_
        /\ p'.handler[t] = "delete_books"
        /\ \A u \in Threads \ {t} : p'.handler[u] = p.handler[u]
        /\ p'.queues = "null"
        /\ p.late => p'.late
        /\ p.engine \notin {"none", "ended"} => p'.late
    BY <2>1, ZenonT(60) DEF ThreadsOK, Processes, To
  <2>5. MainInterruptedFirst'
    BY <1>4, <2>2, <2>4, Typed DEF MainInterruptedFirst, StartsInTime, TakenApart,
       DeletedOnce,
         OnlyLateOrTwice, At, Threads, Others
  <2>6. StartsInTime'
    BY <1>4, <2>2, <2>4, Typed DEF MainInterruptedFirst, StartsInTime, TakenApart,
       DeletedOnce,
         OnlyLateOrTwice, At, Threads, Others
  <2>7. TakenApart'
    BY <1>4, <2>2, <2>4, Typed DEF MainInterruptedFirst, StartsInTime, TakenApart,
       DeletedOnce,
         OnlyLateOrTwice, At, Threads, Others
  <2>8. DeletedOnce'
    BY <1>4, <2>2, <2>4, Typed DEF MainInterruptedFirst, StartsInTime, TakenApart,
       DeletedOnce,
         OnlyLateOrTwice, At, Threads, Others
  <2>9. OnlyLateOrTwice'
    BY <1>4, <2>2, <2>4, Typed DEF MainInterruptedFirst, StartsInTime, TakenApart,
       DeletedOnce,
         OnlyLateOrTwice, At, Threads, Others
  <2> QED
    BY <2>3, <2>5, <2>6, <2>7, <2>8, <2>9
<1>5. CASE At(t, "delete_books")
  <2>1. p' = [To(t, "null_engine") EXCEPT !.object = "freed"]
    BY <1>5 DEF DeleteEngine, EngineSleep, At, Up
  <2>2. p.status = "up" /\ UNCHANGED mainLog
    BY <1>5 DEF DeleteEngine, EngineSleep, At, Up
  <2>3. ThreadsOK'
    BY <2>1, <2>2, ZenonT(60) DEF ThreadsOK, Processes, HandlerSteps, To
  <2>4. /\ p'.status = p.status /\ p'.late = p.late /\ p'.signals = p.signals
        /\ p'.main = p.main /\ p'.engine = p.engine /\ p'.logger = p.logger
        /\ p'.matching_engine = p.matching_engine /\ p'.queues = p.queues
        /\ p'.run_ = p.run_
        /\ p'.handler[t] = "null_engine"
        /\ \A u \in Threads \ {t} : p'.handler[u] = p.handler[u]
        /\ p'.object = "freed"
    BY <2>1 DEF ThreadsOK, Processes, To
  <2>5. MainInterruptedFirst'
    BY <1>5, <2>2, <2>4, Typed DEF MainInterruptedFirst, StartsInTime, TakenApart,
       DeletedOnce,
         OnlyLateOrTwice, At, Threads, Others
  <2>6. StartsInTime'
    BY <1>5, <2>2, <2>4, Typed DEF MainInterruptedFirst, StartsInTime, TakenApart,
       DeletedOnce,
         OnlyLateOrTwice, At, Threads, Others
  <2>7. TakenApart'
    BY <1>5, <2>2, <2>4, Typed DEF MainInterruptedFirst, StartsInTime, TakenApart,
       DeletedOnce,
         OnlyLateOrTwice, At, Threads, Others
  <2>8. DeletedOnce'
    BY <1>5, <2>2, <2>4, Typed DEF MainInterruptedFirst, StartsInTime, TakenApart,
       DeletedOnce,
         OnlyLateOrTwice, At, Threads, Others
  <2>9. OnlyLateOrTwice'
    BY <1>5, <2>2, <2>4, Typed DEF MainInterruptedFirst, StartsInTime, TakenApart,
       DeletedOnce,
         OnlyLateOrTwice, At, Threads, Others
  <2> QED
    BY <2>3, <2>5, <2>6, <2>7, <2>8, <2>9
<1>6. CASE At(t, "null_engine")
  <2>1. p' = [To(t, "last_sleep") EXCEPT !.matching_engine = "null"]
    BY <1>6 DEF DeleteEngine, EngineSleep, At, Up
  <2>2. p.status = "up" /\ UNCHANGED mainLog
    BY <1>6 DEF DeleteEngine, EngineSleep, At, Up
  <2>3. ThreadsOK'
    BY <2>1, <2>2 DEF ThreadsOK, Processes, HandlerSteps, To
  <2>4. /\ p'.status = p.status /\ p'.late = p.late /\ p'.signals = p.signals
        /\ p'.main = p.main /\ p'.engine = p.engine /\ p'.logger = p.logger
        /\ p'.object = p.object /\ p'.queues = p.queues /\ p'.run_ = p.run_
        /\ p'.handler[t] = "last_sleep"
        /\ \A u \in Threads \ {t} : p'.handler[u] = p.handler[u]
        /\ p'.matching_engine = "null"
    BY <2>1 DEF ThreadsOK, Processes, To
  <2>5. MainInterruptedFirst'
    BY <1>6, <2>2, <2>4, Typed DEF MainInterruptedFirst, StartsInTime, TakenApart,
       DeletedOnce,
         OnlyLateOrTwice, At, Threads, Others
  <2>6. StartsInTime'
    BY <1>6, <2>2, <2>4, Typed DEF MainInterruptedFirst, StartsInTime, TakenApart,
       DeletedOnce,
         OnlyLateOrTwice, At, Threads, Others
  <2>7. TakenApart'
    BY <1>6, <2>2, <2>4, Typed DEF MainInterruptedFirst, StartsInTime, TakenApart,
       DeletedOnce,
         OnlyLateOrTwice, At, Threads, Others
  <2>8. DeletedOnce'
    BY <1>6, <2>2, <2>4, Typed DEF MainInterruptedFirst, StartsInTime, TakenApart,
       DeletedOnce,
         OnlyLateOrTwice, At, Threads, Others
  <2>9. OnlyLateOrTwice'
    BY <1>6, <2>2, <2>4, Typed DEF MainInterruptedFirst, StartsInTime, TakenApart,
       DeletedOnce,
         OnlyLateOrTwice, At, Threads, Others
  <2> QED
    BY <2>3, <2>5, <2>6, <2>7, <2>8, <2>9
<1>7. CASE At(t, "last_sleep")
  <2>1. p' = [p EXCEPT !.status = "exited"]
    BY <1>7 DEF DeleteEngine, EngineSleep, At, Up
  <2>2. p.status = "up" /\ UNCHANGED mainLog
    BY <1>7 DEF DeleteEngine, EngineSleep, At, Up
  <2>3. ThreadsOK'
    BY <2>1, <2>2 DEF ThreadsOK, Processes, HandlerSteps
  <2>4. /\ p'.late = p.late /\ p'.signals = p.signals /\ p'.main = p.main
        /\ p'.handler = p.handler /\ p'.engine = p.engine /\ p'.logger = p.logger
        /\ p'.matching_engine = p.matching_engine /\ p'.object = p.object
        /\ p'.queues = p.queues /\ p'.run_ = p.run_
        /\ p'.status = "exited"
    BY <2>1 DEF ThreadsOK, Processes
  <2>5. MainInterruptedFirst'
    BY <1>7, <2>2, <2>4, Typed DEF MainInterruptedFirst, StartsInTime, TakenApart,
       DeletedOnce,
         OnlyLateOrTwice, At, Threads, Others
  <2>6. StartsInTime'
    BY <1>7, <2>2, <2>4, Typed DEF MainInterruptedFirst, StartsInTime, TakenApart,
       DeletedOnce,
         OnlyLateOrTwice, At, Threads, Others
  <2>7. TakenApart'
    BY <1>7, <2>2, <2>4, Typed DEF MainInterruptedFirst, StartsInTime, TakenApart,
       DeletedOnce,
         OnlyLateOrTwice, At, Threads, Others
  <2>8. DeletedOnce'
    BY <1>7, <2>2, <2>4, Typed DEF MainInterruptedFirst, StartsInTime, TakenApart,
       DeletedOnce,
         OnlyLateOrTwice, At, Threads, Others
  <2>9. OnlyLateOrTwice'
    BY <1>7, <2>2, <2>4, Typed DEF MainInterruptedFirst, StartsInTime, TakenApart,
       DeletedOnce,
         OnlyLateOrTwice, At, Threads, Others
  <2> QED
    BY <2>3, <2>5, <2>6, <2>7, <2>8, <2>9
<1> QED
  BY <1>1, <1>2, <1>3, <1>4, <1>5, <1>6, <1>7 DEF DeleteEngine, EngineSleep

LEMMA InterruptProcess ==
  ASSUME ProcessInv, Interrupt
  PROVE  ProcessInv'
<1> USE DEF ProcessInv, Runs, mainLog, vars, loggerVars
<1>1. PICK t \in Threads :
        /\ CASE t = "main"    -> p.signals = 0
             [] t = "flusher" -> p.signals = 1 /\ flusher # "ended"
             [] t = "engine"  -> p.signals = 1 /\ p.engine \in {"log", "check", "poll"}
        /\ p' = [To(t, "sleep") EXCEPT !.signals = @ + 1]
  BY DEF Interrupt
<1>2. CASE t = "main"
  <2>1. p' = [To(t, "sleep") EXCEPT !.signals = @ + 1]
    BY <1>1, <1>2 DEF Interrupt, Up
  <2>2. p.status = "up" /\ UNCHANGED mainLog /\ p.signals = 0
    BY <1>1, <1>2 DEF Interrupt, Up
  <2>a. To(t, "sleep").signals + 1 \in 0 .. 2
    BY <2>2 DEF ThreadsOK, Processes, To
  <2>b. To(t, "sleep") \in Processes
    BY DEF ThreadsOK, Processes, HandlerSteps, To
  <2>3. ThreadsOK'
    BY <2>1, <2>2, <2>a, <2>b DEF ThreadsOK, Processes
  <2>4. /\ p'.status = p.status /\ p'.late = p.late /\ p'.main = p.main
        /\ p'.engine = p.engine /\ p'.logger = p.logger
        /\ p'.matching_engine = p.matching_engine /\ p'.object = p.object
        /\ p'.queues = p.queues /\ p'.run_ = p.run_
        /\ p'.handler[t] = "sleep"
        /\ \A u \in Threads \ {t} : p'.handler[u] = p.handler[u]
        /\ p'.signals = p.signals + 1
    BY <2>1 DEF ThreadsOK, Processes, To
  <2>5. MainInterruptedFirst'
    BY <1>1, <1>2, <2>2, <2>4, Typed DEF MainInterruptedFirst, StartsInTime,
       TakenApart, DeletedOnce,
         OnlyLateOrTwice, At, Threads, Others
  <2>6. StartsInTime'
    BY <1>1, <1>2, <2>2, <2>4, Typed DEF MainInterruptedFirst, StartsInTime,
       TakenApart, DeletedOnce,
         OnlyLateOrTwice, At, Threads, Others
  <2>7. TakenApart'
    BY <1>1, <1>2, <2>2, <2>4, Typed DEF MainInterruptedFirst, StartsInTime,
       TakenApart, DeletedOnce,
         OnlyLateOrTwice, At, Threads, Others
  <2>8. DeletedOnce'
    BY <1>1, <1>2, <2>2, <2>4, Typed DEF MainInterruptedFirst, StartsInTime,
       TakenApart, DeletedOnce,
         OnlyLateOrTwice, At, Threads, Others
  <2>9. OnlyLateOrTwice'
    BY <1>1, <1>2, <2>2, <2>4, Typed DEF MainInterruptedFirst, StartsInTime,
       TakenApart, DeletedOnce,
         OnlyLateOrTwice, At, Threads, Others
  <2> QED
    BY <2>3, <2>5, <2>6, <2>7, <2>8, <2>9
<1>3. CASE t = "flusher"
  <2>1. p' = [To(t, "sleep") EXCEPT !.signals = @ + 1]
    BY <1>1, <1>3 DEF Interrupt, Up
  <2>2. p.status = "up" /\ UNCHANGED mainLog /\ p.signals = 1
    BY <1>1, <1>3 DEF Interrupt, Up
  <2>a. To(t, "sleep").signals + 1 \in 0 .. 2
    BY <2>2 DEF ThreadsOK, Processes, To
  <2>b. To(t, "sleep") \in Processes
    BY DEF ThreadsOK, Processes, HandlerSteps, To
  <2>3. ThreadsOK'
    BY <2>1, <2>2, <2>a, <2>b DEF ThreadsOK, Processes
  <2>4. /\ p'.status = p.status /\ p'.late = p.late /\ p'.main = p.main
        /\ p'.engine = p.engine /\ p'.logger = p.logger
        /\ p'.matching_engine = p.matching_engine /\ p'.object = p.object
        /\ p'.queues = p.queues /\ p'.run_ = p.run_
        /\ p'.handler[t] = "sleep"
        /\ \A u \in Threads \ {t} : p'.handler[u] = p.handler[u]
        /\ p'.signals = p.signals + 1
    BY <2>1 DEF ThreadsOK, Processes, To
  <2>5. MainInterruptedFirst'
    BY <1>1, <1>3, <2>2, <2>4, Typed DEF MainInterruptedFirst, StartsInTime,
       TakenApart, DeletedOnce,
         OnlyLateOrTwice, At, Threads, Others
  <2>6. StartsInTime'
    BY <1>1, <1>3, <2>2, <2>4, Typed DEF MainInterruptedFirst, StartsInTime,
       TakenApart, DeletedOnce,
         OnlyLateOrTwice, At, Threads, Others
  <2>7. TakenApart'
    BY <1>1, <1>3, <2>2, <2>4, Typed DEF MainInterruptedFirst, StartsInTime,
       TakenApart, DeletedOnce,
         OnlyLateOrTwice, At, Threads, Others
  <2>8. DeletedOnce'
    BY <1>1, <1>3, <2>2, <2>4, Typed DEF MainInterruptedFirst, StartsInTime,
       TakenApart, DeletedOnce,
         OnlyLateOrTwice, At, Threads, Others
  <2>9. OnlyLateOrTwice'
    BY <1>1, <1>3, <2>2, <2>4, Typed DEF MainInterruptedFirst, StartsInTime,
       TakenApart, DeletedOnce,
         OnlyLateOrTwice, At, Threads, Others
  <2> QED
    BY <2>3, <2>5, <2>6, <2>7, <2>8, <2>9
<1>4. CASE t = "engine"
  <2>1. p' = [To(t, "sleep") EXCEPT !.signals = @ + 1]
    BY <1>1, <1>4 DEF Interrupt, Up
  <2>2. p.status = "up" /\ UNCHANGED mainLog /\ p.signals = 1
    BY <1>1, <1>4 DEF Interrupt, Up
  <2>a. To(t, "sleep").signals + 1 \in 0 .. 2
    BY <2>2 DEF ThreadsOK, Processes, To
  <2>b. To(t, "sleep") \in Processes
    BY DEF ThreadsOK, Processes, HandlerSteps, To
  <2>3. ThreadsOK'
    BY <2>1, <2>2, <2>a, <2>b DEF ThreadsOK, Processes
  <2>4. /\ p'.status = p.status /\ p'.late = p.late /\ p'.main = p.main
        /\ p'.engine = p.engine /\ p'.logger = p.logger
        /\ p'.matching_engine = p.matching_engine /\ p'.object = p.object
        /\ p'.queues = p.queues /\ p'.run_ = p.run_
        /\ p'.handler[t] = "sleep"
        /\ \A u \in Threads \ {t} : p'.handler[u] = p.handler[u]
        /\ p'.signals = p.signals + 1
    BY <2>1 DEF ThreadsOK, Processes, To
  <2>5. MainInterruptedFirst'
    BY <1>1, <1>4, <2>2, <2>4, Typed DEF MainInterruptedFirst, StartsInTime,
       TakenApart, DeletedOnce,
         OnlyLateOrTwice, At, Threads, Others
  <2>6. StartsInTime'
    BY <1>1, <1>4, <2>2, <2>4, Typed DEF MainInterruptedFirst, StartsInTime,
       TakenApart, DeletedOnce,
         OnlyLateOrTwice, At, Threads, Others
  <2>7. TakenApart'
    BY <1>1, <1>4, <2>2, <2>4, Typed DEF MainInterruptedFirst, StartsInTime,
       TakenApart, DeletedOnce,
         OnlyLateOrTwice, At, Threads, Others
  <2>8. DeletedOnce'
    BY <1>1, <1>4, <2>2, <2>4, Typed DEF MainInterruptedFirst, StartsInTime,
       TakenApart, DeletedOnce,
         OnlyLateOrTwice, At, Threads, Others
  <2>9. OnlyLateOrTwice'
    BY <1>1, <1>4, <2>2, <2>4, Typed DEF MainInterruptedFirst, StartsInTime,
       TakenApart, DeletedOnce,
         OnlyLateOrTwice, At, Threads, Others
  <2> QED
    BY <2>3, <2>5, <2>6, <2>7, <2>8, <2>9
<1> QED
  BY <1>2, <1>3, <1>4 DEF Threads, Others

LEMMA StepProcess == ProcessInv /\ [ShutdownNext]_allVars => ProcessInv'
<1> SUFFICES ASSUME ProcessInv, [ShutdownNext]_allVars
             PROVE  ProcessInv'
  OBVIOUS
<1>1. CASE UNCHANGED allVars
  BY <1>1 DEF allVars, mainLog, loggerVars, ProcessInv, ThreadsOK, MainInterruptedFirst,
     StartsInTime, TakenApart, DeletedOnce, OnlyLateOrTwice
<1>2. CASE \E t \in Threads : signal_handler(t)
  BY <1>2, DeleteLoggerProcess, DeleteEngineProcess DEF signal_handler
<1> QED
  BY <1>1, <1>2, MainProcess, FlusherProcess, EngineProcess, InterruptProcess
  DEF ShutdownNext

LEMMA AlwaysProcess == ShutdownSpec => []ProcessInv
BY InitProcess, StepProcess, PTL DEF ShutdownSpec

\* Freed memory and nulled queues are used only when a sleep was too short, an
\* object is deleted twice only after a second Ctrl-C (main.cpp:55-66,
\* matching_engine.cpp:19-33).
THEOREM UsedLateOrTwice == ShutdownSpec => []OnlyLateOrTwice
<1>1. ProcessInv => OnlyLateOrTwice
  BY DEF ProcessInv
<1> QED
  BY <1>1, AlwaysProcess, PTL

\* The engine's thread and the destructors of its books do not push into one log
\* queue together, unless the thread is late (me_order_book.cpp:16-27).
THEOREM OneWriterInTime == ShutdownSpec => []OneWriter
<1>1. ProcessInv => OneWriter
  BY DEF ProcessInv, TakenApart, OneWriter, At
<1> QED
  BY <1>1, AlwaysProcess, PTL

-------------------------------------------------------------------------------
(* What main() has logged is on disk at the exit.                              *)

\* The file has the elements that were taken, and the one in hand when it has
\* been streamed.
Streamed == IF reader = "advance" THEN taken + 1 ELSE taken

FileInOrder ==
  /\ file_ \in Seq(Nat \cup {Torn}) /\ Len(file_) = Streamed
  /\ ~overrun => \A k \in 1 .. Streamed : file_[k] = k

\* A handler is past the drain.
PastDrain ==
  \E t \in Threads : p.handler[t] \notin {"none", "sleep", "delete_logger", "drain"}

\* Behind the drain the writer, which is main(), stands still in its handler and
\* the reader finds nothing more.
Drained ==
  /\ closed => p.signals > 0
  /\ closed \/ (\E t \in Threads : p.handler[t] = "join") =>
       num_elements_ = 0 /\ reader \in {"idle", "size"} /\ taken = Counted
  /\ closed => flusher = "ended" /\ disk = taken

\* A handler that is behind `delete logger' has joined the flush thread, or found
\* that another has.
Joined ==
  /\ \A t \in Threads :
       p.handler[t] \notin {"none", "sleep", "delete_logger", "drain", "join"}
         => closed
  /\ p.logger = "null" /\ p.signals > 0 => closed
  /\ p.status = "exited" => closed

\* The engine is left alive only before main() has stored the pointer.
LeftAlive ==
  /\ p.object = "live" /\ p.matching_engine = "null" => p.main = "assign"
  /\ \A t \in Threads : p.handler[t] \in {"engine_sleep", "delete_books", "null_engine"}
       => p.object # "live"
  /\ p.object = "live" /\ (\E t \in Threads : p.handler[t] = "last_sleep")
       => p.main = "assign"
  /\ p.object = "live" /\ p.status = "exited" => p.main = "assign"

KeptInv == FileInOrder /\ Drained /\ Joined /\ LeftAlive

LEMMA InitKept == ShutdownInit => KeptInv
<1> SUFFICES ASSUME ShutdownInit
             PROVE  KeptInv
  OBVIOUS
<1> USE DEF ShutdownInit, LoggerInit, Init, Threads, Others
<1>1. FileInOrder
  BY DEF FileInOrder, Streamed
<1>2. Drained /\ Joined /\ LeftAlive
  BY DEF Drained, Joined, LeftAlive
<1> QED
  BY <1>1, <1>2 DEF KeptInv

\* The element the reader reads is the next one, until the ring is overrun.
LEMMA NextInHand ==
  ASSUME TypeOK, Contents, reader = "use"
  PROVE  store_[next_read_index_] = taken + 1
<1>1. pending \in Nat /\ pending >= 1 /\ Offset(next_read_index_, 0) = next_read_index_
  BY QueueConstants DEF Contents, pending, published, TypeOK, Offset, Slots
<1>2. store_[Offset(next_read_index_, 0)] = taken + 1 + 0
  BY <1>1 DEF Contents
<1> QED
  BY <1>1, <1>2 DEF TypeOK

LEMMA FlusherKept ==
  ASSUME ChecksSize, TypeOK, Elements, ThreadsOK, KeptInv, Flusher
  PROVE  KeptInv'
<1> USE DEF KeptInv
<1>1. CASE /\ flusher = "spawned" /\ flusher' = "check"
           /\ UNCHANGED <<vars, p, running_, file_, disk, closed>>
  BY <1>1 DEF FileInOrder, Streamed, Drained, Joined, LeftAlive, Counted, vars
<1>2. CASE p' = [p EXCEPT !.status = "dangling"] /\ UNCHANGED mainLog
  <2>1. /\ p'.status = "dangling" /\ p'.handler = p.handler /\ p'.signals = p.signals
        /\ p'.logger = p.logger /\ p'.object = p.object /\ p'.main = p.main
        /\ p'.matching_engine = p.matching_engine
    BY <1>2 DEF ThreadsOK, Processes
  <2> QED
    BY <1>2, <2>1 DEF FileInOrder, Streamed, Drained, Joined, LeftAlive, Counted,
       mainLog, vars,
       loggerVars
<1>3. CASE flushQueue /\ UNCHANGED p
  <2>1. FileInOrder'
    <3>1. CASE StreamElement /\ Use /\ file_' = Append(file_, got')
      <4>1. /\ taken' = taken /\ taken \in Nat
            /\ reader = "use" /\ reader' = "advance"
        BY <3>1 DEF Use, TypeOK
      <4>3. overrun' = overrun /\ got' \in Nat \cup {Torn}
        BY <3>1 DEF Use, TypeOK, writerVars
      <4>4. ~overrun => got' = taken + 1
        BY <3>1, <4>1, NextInHand DEF Use, Elements
      <4>2. Streamed = taken /\ Streamed' = taken + 1
        BY <4>1 DEF Streamed
      <4> QED
        BY <3>1, <4>1, <4>2, <4>3, <4>4 DEF FileInOrder
    <3>2. CASE UNCHANGED file_
      BY <1>3, <3>2 DEF FileInOrder, Streamed, flushQueue, CheckRunning, EndLoop,
         StreamElement,
         Flush, size, getNextToRead, Advance, CountRead, vars, TypeOK, writerVars
    <3> QED
      BY <1>3, <3>1, <3>2 DEF flushQueue, CheckRunning, EndLoop, StreamElement, Flush
  <2>2. Drained'
    <3> USE <1>3 DEF Drained, Counted
    <3>1. CASE CheckRunning
      BY <3>1 DEF CheckRunning, vars
    <3>2. CASE EndLoop
      BY <3>2 DEF EndLoop, vars, size, writerVars
    <3>3. CASE StreamElement
      BY <3>3 DEF StreamElement, size, getNextToRead, Use, Advance, CountRead, writerVars
    <3>4. CASE Flush
      BY <3>4 DEF Flush, vars
    <3> QED
      BY <3>1, <3>2, <3>3, <3>4 DEF flushQueue
  <2>3. Joined' /\ LeftAlive'
    BY <1>3 DEF Joined, LeftAlive, flushQueue, CheckRunning, EndLoop, StreamElement, Flush
  <2> QED
    BY <2>1, <2>2, <2>3
<1> QED
  BY <1>1, <1>2, <1>3 DEF Flusher, mainLog, loggerVars

LEMMA MainKept ==
  ASSUME TypeOK, ProcessInv, KeptInv, Main
  PROVE  KeptInv'
<1> USE DEF KeptInv, Main, Runs, Up, ProcessInv, ThreadsOK, MainInterruptedFirst
<1>1. p.signals = 0 /\ ~closed /\ \A t \in Threads : p.handler[t] = "none"
  BY DEF Drained, Threads, Others, Processes
<1>2. /\ p'.handler = p.handler /\ p'.signals = p.signals /\ p'.status = p.status
      /\ closed' = closed
  BY ZenonT(60) DEF NewLogger, Log, NewEngine, mainLog, loggerVars, Processes
<1>3. FileInOrder'
  BY DEF FileInOrder, Streamed, NewLogger, Log, NewEngine, mainLog, vars, loggerVars,
     pushValue,
     Writer, BeginAssign, EndAssign, Publish, CountWritten, readerVars
<1>4. Drained' /\ Joined'
  BY <1>1, <1>2 DEF Drained, Joined
<1>5. (p'.object = "live" /\ p'.matching_engine = "null") => p'.main = "assign"
  BY ZenonT(60) DEF LeftAlive, NewLogger, Log, NewEngine, Processes
<1>6. LeftAlive'
  BY <1>1, <1>2, <1>5 DEF LeftAlive
<1> QED
  BY <1>3, <1>4, <1>6

LEMMA EngineKept ==
  ASSUME ThreadsOK, KeptInv, Engine
  PROVE  KeptInv'
<1>1. /\ p'.handler = p.handler /\ p'.signals = p.signals /\ p'.logger = p.logger
      /\ p'.object = p.object /\ p'.main = p.main /\ p'.matching_engine = p.matching_engine
      /\ p'.status # "exited"
  BY DEF Engine, run, Runs, Up, ThreadsOK, Processes
<1> QED
  BY <1>1 DEF Engine, mainLog, vars, loggerVars, KeptInv, FileInOrder, Streamed, Drained,
     Joined, LeftAlive, Counted

LEMMA InterruptKept ==
  ASSUME ThreadsOK, KeptInv, Interrupt
  PROVE  KeptInv'
<1>1. PICK t \in Threads : p' = [To(t, "sleep") EXCEPT !.signals = @ + 1]
  BY DEF Interrupt
<1>2. /\ p'.handler[t] = "sleep" /\ \A u \in Threads \ {t} : p'.handler[u] = p.handler[u]
      /\ p'.signals = p.signals + 1 /\ p.signals \in 0 .. 2
      /\ p'.object = p.object /\ p'.main = p.main /\ p'.matching_engine = p.matching_engine
      /\ p'.status = p.status /\ p'.logger = "set"
  BY <1>1 DEF Interrupt, To, ThreadsOK, Processes
<1>3. UNCHANGED mainLog
  BY DEF Interrupt
<1> QED
  BY <1>2, <1>3 DEF mainLog, vars, loggerVars, KeptInv, FileInOrder, Streamed, Drained,
     Joined, LeftAlive, Counted

LEMMA Interrupted ==
  ASSUME ProcessInv, NEW t \in Threads, p.handler[t] # "none"
  PROVE  p.signals > 0 /\ p.signals \in 0 .. 2
BY DEF ProcessInv, ThreadsOK, Processes, MainInterruptedFirst, Threads, Others

\* num_elements_ is 0 when every element the writer has counted is taken.
LEMMA NothingLeft ==
  ASSUME TypeOK, Counters, Checked, num_elements_ = 0
  PROVE  reader \in {"idle", "size"} /\ taken = Counted
BY DEF TypeOK, Counters, Checked, pending, published, Counted

LEMMA DeleteLoggerKept ==
  ASSUME TypeOK, Counters, Checked, ProcessInv, KeptInv, NEW t \in Threads, DeleteLogger(t)
  PROVE  Drained' /\ Joined' /\ LeftAlive'
<1> USE DEF KeptInv, ProcessInv
<1>s. p.signals > 0 /\ p.signals \in 0 .. 2
  BY Interrupted DEF DeleteLogger, At
<1>1. CASE At(t, "sleep")
  <2>1. p' = [To(t, "delete_logger") EXCEPT !.late = @ \/ p.engine = "spawned"]
    BY <1>1 DEF DeleteLogger, At, Up
  <2>2. /\ p'.status = p.status /\ p'.signals = p.signals /\ p'.main = p.main
        /\ p'.logger = p.logger /\ p'.matching_engine = p.matching_engine
        /\ p'.object = p.object
        /\ p'.handler[t] = "delete_logger"
        /\ \A u \in Threads \ {t} : p'.handler[u] = p.handler[u]
    BY <2>1 DEF ThreadsOK, Processes, To
  <2>3. UNCHANGED mainLog
    BY <1>1 DEF DeleteLogger, At
  <2> QED
    BY <1>1, <1>s, <2>2, <2>3 DEF Joined, LeftAlive, Drained, Counted, mainLog, vars,
       loggerVars, At
<1>2. CASE At(t, "delete_logger") /\ p.logger = "null"
  <2>1. p' = To(t, "delete_engine")
    BY <1>2 DEF DeleteLogger, At, Up
  <2>2. /\ p'.status = p.status /\ p'.signals = p.signals /\ p'.main = p.main
        /\ p'.logger = p.logger /\ p'.matching_engine = p.matching_engine
        /\ p'.object = p.object
        /\ p'.handler[t] = "delete_engine"
        /\ \A u \in Threads \ {t} : p'.handler[u] = p.handler[u]
    BY <2>1 DEF ThreadsOK, Processes, To
  <2>3. UNCHANGED mainLog
    BY <1>2 DEF DeleteLogger, At
  <2> QED
    BY <1>2, <1>s, <2>2, <2>3 DEF Joined, LeftAlive, Drained, Counted, mainLog, vars,
       loggerVars, At
<1>3. CASE At(t, "delete_logger") /\ DestroyLogger /\ p' = To(t, "drain")
  <2>1. p' = To(t, "drain")
    BY <1>3
  <2>2. /\ p'.status = p.status /\ p'.signals = p.signals /\ p'.main = p.main
        /\ p'.logger = p.logger /\ p'.matching_engine = p.matching_engine
        /\ p'.object = p.object
        /\ p'.handler[t] = "drain"
        /\ \A u \in Threads \ {t} : p'.handler[u] = p.handler[u]
    BY <2>1 DEF ThreadsOK, Processes, To
  <2> QED
    BY <1>3, <1>s, <2>2 DEF Joined, LeftAlive, Drained, DestroyLogger, Counted, vars,
       loggerVars, At
<1>4. CASE /\ UNCHANGED mainLog
           /\ \/ p' = [p EXCEPT !.status = "double_delete"]
              \/ p' = [p EXCEPT !.status = "stuck"]
              \/ p' = [p EXCEPT !.status = "joins_itself"]
  <2>1. /\ p'.signals = p.signals /\ p'.main = p.main /\ p'.logger = p.logger
        /\ p'.matching_engine = p.matching_engine /\ p'.object = p.object
        /\ p'.status # "exited" /\ p'.handler = p.handler
    BY <1>4 DEF ThreadsOK, Processes
  <2> QED
    BY <1>4, <1>s, <2>1 DEF Joined, LeftAlive, Drained, Counted, mainLog, vars, loggerVars
<1>5. CASE At(t, "drain") /\ Drain /\ p' = To(t, "join")
  <2>1. p' = To(t, "join")
    BY <1>5
  <2>2. /\ p'.status = p.status /\ p'.signals = p.signals /\ p'.main = p.main
        /\ p'.logger = p.logger /\ p'.matching_engine = p.matching_engine
        /\ p'.object = p.object
        /\ p'.handler[t] = "join"
        /\ \A u \in Threads \ {t} : p'.handler[u] = p.handler[u]
    BY <2>1 DEF ThreadsOK, Processes, To
  <2>3. Drained'
    BY <1>5, <1>s, <2>2, NothingLeft DEF Drained, Drain, vars, Counted
  <2>4. Joined' /\ LeftAlive'
    BY <1>5, <1>s, <2>2 DEF Joined, LeftAlive, Drain, At
  <2> QED
    BY <2>3, <2>4
<1>6. CASE At(t, "join") /\ Join /\ p' = To(t, "null_logger")
  <2>1. p' = To(t, "null_logger")
    BY <1>6
  <2>2. /\ p'.status = p.status /\ p'.signals = p.signals /\ p'.main = p.main
        /\ p'.logger = p.logger /\ p'.matching_engine = p.matching_engine
        /\ p'.object = p.object
        /\ p'.handler[t] = "null_logger"
        /\ \A u \in Threads \ {t} : p'.handler[u] = p.handler[u]
    BY <2>1 DEF ThreadsOK, Processes, To
  <2>5. num_elements_ = 0 /\ reader \in {"idle", "size"} /\ taken = Counted
    BY <1>6 DEF Drained, At
  <2>3. Drained'
    BY <1>6, <1>s, <2>2, <2>5 DEF Drained, FileInOrder, Streamed, Join, Counted, vars
  <2>4. Joined' /\ LeftAlive'
    BY <1>6, <1>s, <2>2 DEF Joined, LeftAlive, Join, At
  <2> QED
    BY <2>3, <2>4
<1>8. CASE At(t, "null_logger")
  <2>1. p' = [To(t, "delete_engine") EXCEPT !.logger = "null"]
    BY <1>8 DEF DeleteLogger, At, Up
  <2>2. /\ p'.status = p.status /\ p'.signals = p.signals /\ p'.main = p.main
        /\ p'.matching_engine = p.matching_engine /\ p'.object = p.object
        /\ p'.logger = "null"
        /\ p'.handler[t] = "delete_engine"
        /\ \A u \in Threads \ {t} : p'.handler[u] = p.handler[u]
    BY <2>1 DEF ThreadsOK, Processes, To
  <2>3. UNCHANGED mainLog
    BY <1>8 DEF DeleteLogger, At
  <2> QED
    BY <1>8, <1>s, <2>2, <2>3 DEF Joined, LeftAlive, Drained, Counted, mainLog, vars,
       loggerVars, At
<1> QED
  BY <1>1, <1>2, <1>3, <1>4, <1>5, <1>6, <1>8 DEF DeleteLogger

LEMMA DeleteEngineKept ==
  ASSUME ProcessInv, KeptInv, NEW t \in Threads, DeleteEngine(t)
  PROVE  Drained' /\ Joined' /\ LeftAlive'
<1> USE DEF KeptInv, ProcessInv
<1>s. p.signals > 0 /\ p.signals \in 0 .. 2
  BY Interrupted DEF DeleteEngine, EngineSleep, At
<1>u. /\ UNCHANGED mainLog
      /\ p.matching_engine \in {"null", "set"}
  BY DEF DeleteEngine, ThreadsOK, Processes
<1>d. ASSUME p'.signals = p.signals
      PROVE  Drained'
  <2>1. \A u \in Threads : p'.handler[u] = "join" => p.handler[u] = "join"
    BY ZenonT(60) DEF DeleteEngine, EngineSleep, At, To, ThreadsOK, Processes
  <2> QED
    BY <1>d, <1>u, <2>1 DEF Drained, Counted, mainLog, vars, loggerVars
<1>1. CASE At(t, "delete_engine") /\ p.matching_engine = "null"
  <2>1. p' = To(t, "last_sleep")
    BY <1>1 DEF DeleteEngine, EngineSleep, At, Up
  <2>2. /\ p'.status = p.status /\ p'.signals = p.signals /\ p'.main = p.main
        /\ p'.logger = p.logger /\ p'.matching_engine = p.matching_engine
        /\ p'.object = p.object
        /\ p'.handler[t] = "last_sleep"
        /\ \A u \in Threads \ {t} : p'.handler[u] = p.handler[u]
    BY <2>1 DEF ThreadsOK, Processes, To
  <2> QED
    BY <1>1, <1>s, <1>u, <1>d, <2>2 DEF Joined, LeftAlive, mainLog, loggerVars, At
<1>2. CASE At(t, "delete_engine") /\ p.matching_engine = "set" /\ p.object = "live"
  <2>1. p' = [To(t, "engine_sleep") EXCEPT !.object = "dying", !.run_ = FALSE]
    BY <1>2 DEF DeleteEngine, EngineSleep, At, Up
  <2>2. /\ p'.status = p.status /\ p'.signals = p.signals /\ p'.main = p.main
        /\ p'.logger = p.logger /\ p'.matching_engine = p.matching_engine
        /\ p'.object = "dying"
        /\ p'.handler[t] = "engine_sleep"
        /\ \A u \in Threads \ {t} : p'.handler[u] = p.handler[u]
    BY <2>1 DEF ThreadsOK, Processes, To
  <2> QED
    BY <1>2, <1>s, <1>u, <1>d, <2>2 DEF Joined, LeftAlive, mainLog, loggerVars, At
<1>3. CASE At(t, "delete_engine") /\ p.matching_engine = "set" /\ p.object # "live"
  <2>1. p' = [p EXCEPT !.status = "double_delete"]
    BY <1>3 DEF DeleteEngine, EngineSleep, At, Up
  <2>2. /\ p'.signals = p.signals /\ p'.main = p.main /\ p'.logger = p.logger
        /\ p'.matching_engine = p.matching_engine /\ p'.object = p.object
        /\ p'.status = "double_delete"
        /\ p'.handler = p.handler
    BY <2>1 DEF ThreadsOK, Processes
  <2> QED
    BY <1>3, <1>s, <1>u, <1>d, <2>2 DEF Joined, LeftAlive, mainLog, loggerVars, At
<1>4. CASE At(t, "engine_sleep")
  <2>1. p' = [To(t, "delete_books") EXCEPT !.queues = "null",
                                      !.late = @ \/ p.engine \notin {"none", "ended"}]
    BY <1>4 DEF DeleteEngine, EngineSleep, At, Up
  <2>2. /\ p'.status = p.status /\ p'.signals = p.signals /\ p'.main = p.main
        /\ p'.logger = p.logger /\ p'.matching_engine = p.matching_engine
        /\ p'.object = p.object
        /\ p'.handler[t] = "delete_books"
        /\ \A u \in Threads \ {t} : p'.handler[u] = p.handler[u]
    BY <2>1 DEF ThreadsOK, Processes, To
  <2> QED
    BY <1>4, <1>s, <1>u, <1>d, <2>2 DEF Joined, LeftAlive, mainLog, loggerVars, At
<1>5. CASE At(t, "delete_books")
  <2>1. p' = [To(t, "null_engine") EXCEPT !.object = "freed"]
    BY <1>5 DEF DeleteEngine, EngineSleep, At, Up
  <2>2. /\ p'.status = p.status /\ p'.signals = p.signals /\ p'.main = p.main
        /\ p'.logger = p.logger /\ p'.matching_engine = p.matching_engine
        /\ p'.object = "freed"
        /\ p'.handler[t] = "null_engine"
        /\ \A u \in Threads \ {t} : p'.handler[u] = p.handler[u]
    BY <2>1 DEF ThreadsOK, Processes, To
  <2> QED
    BY <1>5, <1>s, <1>u, <1>d, <2>2 DEF Joined, LeftAlive, mainLog, loggerVars, At
<1>6. CASE At(t, "null_engine")
  <2>1. p' = [To(t, "last_sleep") EXCEPT !.matching_engine = "null"]
    BY <1>6 DEF DeleteEngine, EngineSleep, At, Up
  <2>2. /\ p'.status = p.status /\ p'.signals = p.signals /\ p'.main = p.main
        /\ p'.logger = p.logger /\ p'.object = p.object
        /\ p'.matching_engine = "null"
        /\ p'.handler[t] = "last_sleep"
        /\ \A u \in Threads \ {t} : p'.handler[u] = p.handler[u]
    BY <2>1 DEF ThreadsOK, Processes, To
  <2> QED
    BY <1>6, <1>s, <1>u, <1>d, <2>2 DEF Joined, LeftAlive, mainLog, loggerVars, At
<1>7. CASE At(t, "last_sleep")
  <2>1. p' = [p EXCEPT !.status = "exited"]
    BY <1>7 DEF DeleteEngine, EngineSleep, At, Up
  <2>2. /\ p'.signals = p.signals /\ p'.main = p.main /\ p'.logger = p.logger
        /\ p'.matching_engine = p.matching_engine /\ p'.object = p.object
        /\ p'.status = "exited"
        /\ p'.handler = p.handler
    BY <2>1 DEF ThreadsOK, Processes
  <2> QED
    BY <1>7, <1>s, <1>u, <1>d, <2>2 DEF Joined, LeftAlive, mainLog, loggerVars, At
<1> QED
  BY <1>1, <1>2, <1>3, <1>4, <1>5, <1>6, <1>7, <1>u DEF DeleteEngine, EngineSleep

LEMMA HandlerKept ==
  ASSUME TypeOK, Counters, Checked, ProcessInv, KeptInv,
         NEW t \in Threads, signal_handler(t)
  PROVE  KeptInv'
<1>1. UNCHANGED <<vars, file_>>
  BY DEF signal_handler, DeleteLogger, DeleteEngine, mainLog, loggerVars,
     DestroyLogger, Drain,
     Join
<1>2. FileInOrder'
  BY <1>1 DEF KeptInv, FileInOrder, Streamed, vars
<1> QED
  BY <1>2, DeleteLoggerKept, DeleteEngineKept DEF signal_handler, KeptInv

LEMMA StepKept ==
  ASSUME ChecksSize, TypeOK, Counters, Elements, Checked, ProcessInv, KeptInv,
         [ShutdownNext]_allVars
  PROVE  KeptInv'
<1>1. CASE UNCHANGED allVars
  BY <1>1 DEF allVars, mainLog, vars, loggerVars, KeptInv, FileInOrder, Streamed, Drained,
     Joined, LeftAlive, Counted
<1>2. CASE \E t \in Threads : signal_handler(t)
  BY <1>2, HandlerKept
<1> QED
  BY <1>1, <1>2, MainKept, FlusherKept, EngineKept, InterruptKept DEF ShutdownNext,
     ProcessInv

LEMMA AlwaysChecked ==
  ASSUME ChecksSize
  PROVE  Spec => []Checked
<1>1. Init => Checked
  BY DEF Init, Checked
<1>2. TypeOK /\ Checked /\ [Next]_vars => Checked'
  BY StepChecked
<1> QED
  BY <1>1, <1>2, TypeCorrect, PTL DEF Spec

\* Whenever the handler exits the process, even after a second Ctrl-C, all that
\* main() has logged is in the file and on disk, and, unless the queue was overrun,
\* whole and in order, whatever the size of the queue and the number of lines
\* (logging.h:84-97, main.cpp:55-66).
THEOREM ExitLosesNoLog ==
  ASSUME ChecksSize
  PROVE  ShutdownSpec => []ExitKeepsLogs
<1>1. TypeOK /\ KeptInv => ExitKeepsLogs
  <2> SUFFICES ASSUME TypeOK, KeptInv, p.status = "exited"
               PROVE  /\ closed
                      /\ Len(file_) = Counted /\ disk = Counted
                      /\ ~overrun => file_ = [k \in 1 .. Counted |-> k]
                      /\ p.object = "live" => p.main = "assign"
    BY DEF ExitKeepsLogs
  <2>1. closed /\ disk = taken /\ Streamed = taken /\ taken = Counted
    BY DEF KeptInv, Joined, Drained, Streamed
  <2>2. ~overrun => file_ = [k \in 1 .. Counted |-> k]
    BY <2>1 DEF KeptInv, FileInOrder
  <2> QED
    BY <2>1, <2>2 DEF KeptInv, LeftAlive, FileInOrder
<1> QED
  BY <1>1, InitKept, StepKept, LogIsAQueue, TypeCorrect, AlwaysCounters, AlwaysElements,
     AlwaysChecked, AlwaysProcess, PTL DEF ShutdownSpec

TypesKept ==
  /\ running_ \in BOOLEAN /\ disk \in 0 .. Streamed
  /\ ~running_ => PastDrain

LEMMA StepTypes ==
  ASSUME TypeOK, ProcessInv, KeptInv, TypesKept, KeptInv', [ShutdownNext]_allVars
  PROVE  TypesKept'
<1> USE DEF ProcessInv
<1>0. Streamed \in Nat /\ Len(file_) = Streamed /\ Len(file_') = Streamed'
  BY DEF KeptInv, FileInOrder, Streamed, TypeOK
<1>1. Streamed <= Streamed' /\ Streamed' \in Nat
  <2>1. CASE UNCHANGED <<reader, taken>>
    BY <1>0, <2>1 DEF Streamed
  <2>2. CASE Use \/ Advance \/ getNextToRead \/ size \/ CountRead
    BY <2>2 DEF Use, Advance, getNextToRead, size, CountRead, Streamed, TypeOK, writerVars
  <2> QED
    BY <2>1, <2>2, StepOfQueue DEF Next, Reader, vars, Writer, BeginAssign, EndAssign,
       Publish, CountWritten, readerVars
<1>2. disk' \in 0 .. Streamed'
  <2>1. disk' = disk \/ (disk' = Len(file_) /\ file_' = file_)
    BY DEF ShutdownNext, Main, NewLogger, Log, NewEngine, mainLog, loggerVars, Flusher,
       flushQueue, CheckRunning, EndLoop, StreamElement, Flush, Engine, Interrupt, allVars,
       signal_handler, DeleteLogger, DeleteEngine, DestroyLogger, Drain, Join
  <2> QED
    BY <1>0, <1>1, <2>1 DEF TypesKept
<1>3. running_' \in BOOLEAN /\ (~running_' => PastDrain')
  <2>1. CASE \E t \in Threads : At(t, "drain") /\ Drain /\ p' = To(t, "join")
    BY <2>1 DEF Drain, PastDrain, To, ThreadsOK, Processes
  <2>2. CASE running_' = running_ /\ p'.handler = p.handler
    BY <2>2 DEF TypesKept, PastDrain
  <2>3. CASE /\ running_' = running_
             /\ \E t \in Threads :
                  /\ p.handler[t] \in {"none", "sleep", "delete_logger"}
                  /\ \A u \in Threads \ {t} : p'.handler[u] = p.handler[u]
    BY <2>3 DEF TypesKept, PastDrain
  <2>4. CASE /\ running_' = running_
             /\ \E t \in Threads : p'.handler[t] \notin
                  {"none", "sleep", "delete_logger", "drain"}
    BY <2>4 DEF TypesKept, PastDrain
  <2>5. CASE \E t \in Threads : DeleteEngine(t)
    <3>1. PICK t \in Threads : DeleteEngine(t)
      BY <2>5
    <3>2. running_' = running_
      BY <3>1 DEF DeleteEngine, mainLog, loggerVars
    <3>3. \/ p'.handler = p.handler
          \/ p'.handler[t] \in {"last_sleep", "engine_sleep", "delete_books", "null_engine"}
      <4>1. CASE p' = To(t, "last_sleep")
        BY <4>1 DEF ThreadsOK, Processes, To
      <4>2. CASE p' = [To(t, "engine_sleep") EXCEPT !.object = "dying", !.run_ = FALSE]
        BY <4>2 DEF ThreadsOK, Processes, To
      <4>3. CASE p' = [To(t, "delete_books") EXCEPT !.queues = "null",
                          !.late = @ \/ p.engine \notin {"none", "ended"}]
        BY <4>3 DEF ThreadsOK, Processes, To
      <4>4. CASE p' = [To(t, "null_engine") EXCEPT !.object = "freed"]
        BY <4>4 DEF ThreadsOK, Processes, To
      <4>5. CASE p' = [To(t, "last_sleep") EXCEPT !.matching_engine = "null"]
        BY <4>5 DEF ThreadsOK, Processes, To
      <4>6. CASE \/ p' = [p EXCEPT !.status = "exited"]
                 \/ p' = [p EXCEPT !.status = "double_delete"]
        BY <4>6 DEF ThreadsOK, Processes
      <4> QED
        BY <3>1, <4>1, <4>2, <4>3, <4>4, <4>5, <4>6 DEF DeleteEngine, EngineSleep
    <3> QED
      BY <2>2, <2>4, <3>2, <3>3
  <2>6. CASE \E t \in Threads : DeleteLogger(t)
    <3>1. PICK t \in Threads : DeleteLogger(t)
      BY <2>6
    <3>2. (At(t, "drain") /\ Drain /\ p' = To(t, "join")) \/ running_' = running_
      BY <3>1 DEF DeleteLogger, mainLog, loggerVars, DestroyLogger, Join
    <3>3. \/ p'.handler = p.handler
          \/ p'.handler[t] \in {"join", "null_logger", "delete_engine"}
          \/ /\ p.handler[t] \in {"sleep", "delete_logger"}
             /\ \A u \in Threads \ {t} : p'.handler[u] = p.handler[u]
      <4>1. CASE /\ At(t, "sleep")
                 /\ p' = [To(t, "delete_logger") EXCEPT !.late = @ \/ p.engine = "spawned"]
        BY <4>1 DEF ThreadsOK, Processes, To, At
      <4>2. CASE At(t, "delete_logger") /\ p' = To(t, "drain")
        BY <4>2 DEF ThreadsOK, Processes, To, At
      <4>5. CASE \/ p' = To(t, "delete_engine")
                 \/ p' = To(t, "join") \/ p' = To(t, "null_logger")
        BY <4>5 DEF ThreadsOK, Processes, To
      <4>3. CASE p' = [To(t, "delete_engine") EXCEPT !.logger = "null"]
        BY <4>3 DEF ThreadsOK, Processes, To
      <4>4. CASE \/ p' = [p EXCEPT !.status = "stuck"]
                 \/ p' = [p EXCEPT !.status = "joins_itself"]
                 \/ p' = [p EXCEPT !.status = "double_delete"]
        BY <4>4 DEF ThreadsOK, Processes
      <4> QED
        BY <3>1, <4>1, <4>2, <4>3, <4>4, <4>5 DEF DeleteLogger
    <3> QED
      BY <2>1, <2>2, <2>3, <2>4, <3>2, <3>3
  <2>7. CASE Interrupt
    <3>1. PICK t \in Threads :
            /\ t = "main" => p.signals = 0
            /\ t # "main" => p.signals = 1
            /\ p' = [To(t, "sleep") EXCEPT !.signals = @ + 1]
      BY <2>7 DEF Interrupt, Threads, Others
    <3>2. running_' = running_
      BY <2>7 DEF Interrupt, mainLog, loggerVars
    <3>3. p.handler[t] = "none"
      BY <3>1 DEF MainInterruptedFirst, Threads, Others
    <3>4. \A u \in Threads \ {t} : p'.handler[u] = p.handler[u]
      BY <3>1 DEF To, ThreadsOK, Processes
    <3> QED
      BY <2>3, <3>2, <3>3, <3>4
  <2>8. CASE Main \/ Flusher \/ Engine \/ UNCHANGED allVars
    <3>1. running_' = running_
      BY <2>8 DEF Main, NewLogger, Log, NewEngine, mainLog, loggerVars, Flusher,
         flushQueue, CheckRunning, EndLoop, StreamElement, Flush, Engine, allVars
    <3>2. p'.handler = p.handler
      BY <2>8, ZenonT(60) DEF Main, NewLogger, Log, NewEngine, Flusher, Engine, run, allVars,
         ThreadsOK, Processes
    <3> QED
      BY <2>2, <3>1, <3>2
  <2> QED
    BY <2>5, <2>6, <2>7, <2>8 DEF ShutdownNext, signal_handler
<1> QED
  BY <1>2, <1>3 DEF TypesKept

\* The threads are where their code can be, no more is on disk than was streamed,
\* and running_ is cleared only behind the drain.
THEOREM ShutdownTypes ==
  ASSUME ChecksSize
  PROVE  ShutdownSpec => []ShutdownTypeOK
<1>1. ShutdownInit => TypesKept
  BY DEF ShutdownInit, LoggerInit, Init, TypesKept, Streamed
<1>2. ProcessInv /\ KeptInv /\ TypesKept => ShutdownTypeOK
  BY DEF ProcessInv, ThreadsOK, KeptInv, FileInOrder, TypesKept, PastDrain, ShutdownTypeOK
<1> QED
  BY <1>1, <1>2, InitKept, StepKept, StepTypes, LogIsAQueue, TypeCorrect,
     AlwaysCounters, AlwaysElements, AlwaysChecked, AlwaysProcess, PTL DEF ShutdownSpec
===============================================================================
