----------------------------- MODULE Lifecycle -----------------------------
(***************************************************************************)
(* How the backend process starts and stops: main and its watcher thread   *)
(* (backend/src/main.cpp), the console thread (backend/src/command), the   *)
(* CDN server (backend/src/server/http_server.h), the gRPC server          *)
(* (backend/src/server/server.cpp) and the DeletePost handlers, which use  *)
(* the CDN server's S3Context through the global g_cdn.                    *)
(*                                                                         *)
(* Each access to state that threads share is a step of its own.  The      *)
(* predicate of the watcher's wait is evaluated under g_shutdownMutex, but *)
(* RequestShutdown takes no mutex, so it may run between the evaluation    *)
(* and the sleep.                                                          *)
(***************************************************************************)
EXTENDS Naturals

CONSTANTS
    Handlers    \* DeletePost calls with an image that may run at once

VARIABLES
    console,    \* console thread: reading, between store and notify, or over
    flag,       \* g_shuttingDown
    watcher,    \* where the watcher thread is
    main,       \* where the main thread is
    cdnRunning, \* CdnServer::running_
    s3,         \* CdnServer::s3_: null, up, or null with its destructor running
    http,       \* CdnServer::thread_: none, started, listening, over
    stopped,    \* svr_->stop() reached a listening server
    grpc,       \* CrownServer::server_: null, up, stopping, shut
    gcdn,       \* g_cdn is set
    handler     \* where each DeletePost handler is

processVars == <<console, flag, watcher, main, cdnRunning, s3, http, stopped, grpc, gcdn, handler>>

ProcessInit ==
    /\ console = "read" /\ flag = FALSE
    /\ watcher = "eval" /\ main = "s3"
    /\ cdnRunning = FALSE /\ s3 = "null" /\ http = "none" /\ stopped = FALSE
    /\ grpc = "null" /\ gcdn = FALSE
    /\ handler = [h \in Handlers |-> "idle"]

\* The process has neither returned from main nor died.
Alive == main \notin {"exit", "abort", "crash"}

-----------------------------------------------------------------------------
(* The console.                                                            *)

\* A line that is no command is skipped; "exit" stores the flag ...
CommandExit ==
    /\ Alive /\ console = "read"
    /\ console' = "notify"
    /\ flag' = TRUE
    /\ UNCHANGED <<watcher, main, cdnRunning, s3, http, stopped, grpc, gcdn, handler>>

\* Mutant of CommandNotify: the flag is stored and nobody notified.
MutCommandNotify ==
    /\ Alive /\ console = "notify"
    /\ console' = "read"
    /\ UNCHANGED <<flag, watcher, main, cdnRunning, s3, http, stopped, grpc, gcdn, handler>>

\* ... and then notifies g_shutdownCv, which wakes the watcher only if it
\* sleeps already.
CommandNotify ==
    /\ Alive /\ console = "notify"
    /\ console' = "read"
    /\ watcher' = IF watcher = "sleep" THEN "eval" ELSE watcher
    /\ UNCHANGED <<flag, main, cdnRunning, s3, http, stopped, grpc, gcdn, handler>>

\* An empty line, or the end of the input, ends the thread.
ConsoleEnd ==
    /\ Alive /\ console = "read"
    /\ console' = "over"
    /\ UNCHANGED <<flag, watcher, main, cdnRunning, s3, http, stopped, grpc, gcdn, handler>>

-----------------------------------------------------------------------------
(* The watcher.                                                            *)

\* WaitForShutdownSignal: the predicate ...
WatcherEval ==
    /\ Alive /\ watcher = "eval"
    /\ watcher' = IF flag THEN "cdn" ELSE "block"
    /\ UNCHANGED <<console, flag, main, cdnRunning, s3, http, stopped, grpc, gcdn, handler>>

\* ... and the sleep.
WatcherBlock ==
    /\ Alive /\ watcher = "block"
    /\ watcher' = "sleep"
    /\ UNCHANGED <<console, flag, main, cdnRunning, s3, http, stopped, grpc, gcdn, handler>>

\* server.shutdown(): a server that does not exist yet is skipped.
WatcherGrpc ==
    /\ Alive /\ watcher = "grpc"
    /\ watcher' = IF grpc = "up" THEN "drain" ELSE "done"
    /\ grpc' = IF grpc = "up" THEN "stopping" ELSE grpc
    /\ UNCHANGED <<console, flag, main, cdnRunning, s3, http, stopped, gcdn, handler>>

\* Shutdown() returns when the calls in flight are over.
GrpcDrained ==
    /\ Alive /\ watcher = "drain"
    /\ \A h \in Handlers : handler[h] = "idle"
    /\ watcher' = "done"
    /\ grpc' = "shut"
    /\ UNCHANGED <<console, flag, main, cdnRunning, s3, http, stopped, gcdn, handler>>

-----------------------------------------------------------------------------
(* CdnServer::shutdown, called by the watcher and then by main.            *)

\* A thread is at step s of the call; it leaves it for t.
At(who, s) == Alive /\ IF who = "watcher" THEN watcher = s ELSE main = s
Move(who, t) ==
    IF who = "watcher" THEN watcher' = t /\ UNCHANGED main ELSE main' = t /\ UNCHANGED watcher
After(who) == IF who = "watcher" THEN "grpc" ELSE "exit"

\* running_ decides; stop() ends a server that listens.
CdnShutdown(who) ==
    /\ At(who, "cdn")
    /\ cdnRunning' = FALSE
    /\ stopped' = (stopped \/ (cdnRunning /\ http = "listening"))
    /\ Move(who, IF cdnRunning THEN "cdnJoin" ELSE After(who))
    /\ UNCHANGED <<console, flag, s3, http, grpc, gcdn, handler>>

\* Mutant of PoolJoins: TaskQueue::shutdown clears running_.
MutPoolJoins == TRUE

\* ~S3Context runs ~WorkerPool, whose joins do not return: TaskQueue's
\* running_ is never cleared (PoolNeverStops of WorkerPoolProofs).
PoolJoins == FALSE

\* thread_.join(), svr_.reset() and s3_.reset(), which clears the pointer
\* before it destroys the S3Context.
CdnJoin(who) ==
    /\ At(who, "cdnJoin")
    /\ http = "over"
    /\ s3' = IF PoolJoins THEN "null" ELSE "dying"
    /\ Move(who, IF PoolJoins THEN After(who) ELSE "cdnReset")
    /\ UNCHANGED <<console, flag, cdnRunning, http, stopped, grpc, gcdn, handler>>

-----------------------------------------------------------------------------
(* The main thread.                                                        *)

\* Mutant of StartS3: running_ is set before the thread exists.
MutStartS3 ==
    /\ main = "s3"
    /\ s3' = "up" /\ cdnRunning' = TRUE /\ main' = "thread"
    /\ UNCHANGED <<console, flag, watcher, http, stopped, grpc, gcdn, handler>>

\* cdn.start creates the S3Context; when that throws it returns false and
\* main goes on without a CDN.
StartS3 ==
    /\ main = "s3"
    /\ \/ s3' = "up" /\ main' = "thread"
       \/ UNCHANGED s3 /\ main' = "grpc"
    /\ UNCHANGED <<console, flag, watcher, cdnRunning, http, stopped, grpc, gcdn, handler>>

\* cdn.start begins the listening thread ...
StartThread ==
    /\ main = "thread"
    /\ http' = "started"
    /\ main' = "running"
    /\ UNCHANGED <<console, flag, watcher, cdnRunning, s3, stopped, grpc, gcdn, handler>>

\* ... and marks the server as running; main publishes it.
StartRunning ==
    /\ main = "running"
    /\ cdnRunning' = TRUE
    /\ main' = "publish"
    /\ UNCHANGED <<console, flag, watcher, s3, http, stopped, grpc, gcdn, handler>>

Publish ==
    /\ main = "publish"
    /\ gcdn' = TRUE
    /\ main' = "grpc"
    /\ UNCHANGED <<console, flag, watcher, cdnRunning, s3, http, stopped, grpc, handler>>

\* server.init: BuildAndStart succeeds and main waits, or it fails; or
\* libsodium does and the exception unwinds past the joinable watcher, which
\* terminates the process.
StartGrpc ==
    /\ main = "grpc"
    /\ \/ grpc' = "up" /\ main' = "serve"
       \/ UNCHANGED grpc /\ main' \in {"join", "abort"}
    /\ UNCHANGED <<console, flag, watcher, cdnRunning, s3, http, stopped, gcdn, handler>>

\* server_->Wait() returns after Shutdown.
GrpcWait ==
    /\ main = "serve"
    /\ grpc \in {"stopping", "shut"}
    /\ main' = "join"
    /\ UNCHANGED <<console, flag, watcher, cdnRunning, s3, http, stopped, grpc, gcdn, handler>>

\* Mutant of JoinWatcher: main does not wait for the watcher.
MutJoinWatcher ==
    /\ main = "join"
    /\ main' = "cdn"
    /\ gcdn' = FALSE
    /\ UNCHANGED <<console, flag, watcher, cdnRunning, s3, http, stopped, grpc, handler>>

\* Mutant of JoinWatcher: main waits for the console thread too.
MutJoinConsole ==
    /\ main = "join"
    /\ watcher = "done" /\ console = "over"
    /\ main' = "cdn"
    /\ gcdn' = FALSE
    /\ UNCHANGED <<console, flag, watcher, cdnRunning, s3, http, stopped, grpc, handler>>

\* watcher.join(), then g_cdn = nullptr.
JoinWatcher ==
    /\ main = "join"
    /\ watcher = "done"
    /\ main' = "cdn"
    /\ gcdn' = FALSE
    /\ UNCHANGED <<console, flag, watcher, cdnRunning, s3, http, stopped, grpc, handler>>

-----------------------------------------------------------------------------
(* The listening thread and the handlers.                                  *)

Listen ==
    /\ Alive /\ http = "started"
    /\ http' = "listening"
    /\ UNCHANGED <<console, flag, watcher, main, cdnRunning, s3, stopped, grpc, gcdn, handler>>

\* listen() returns after stop(), or at once when the port cannot be bound.
ListenEnd ==
    /\ Alive
    /\ \/ http = "listening" /\ stopped
       \/ http = "started"
    /\ http' = "over"
    /\ UNCHANGED <<console, flag, watcher, main, cdnRunning, s3, stopped, grpc, gcdn, handler>>

\* S3DeleteAsync: if (g_cdn) ...
DeleteCall(h) ==
    /\ Alive /\ handler[h] = "idle" /\ grpc = "up"
    /\ gcdn
    /\ handler' = [handler EXCEPT ![h] = "check"]
    /\ UNCHANGED <<console, flag, watcher, main, cdnRunning, s3, http, stopped, grpc, gcdn>>

\* deleteObjectAsync: if (!s3_) return ...
DeleteCheck(h) ==
    /\ Alive /\ handler[h] = "check"
    /\ handler' = [handler EXCEPT ![h] = IF s3 = "up" THEN "submit" ELSE "idle"]
    /\ UNCHANGED <<console, flag, watcher, main, cdnRunning, s3, http, stopped, grpc, gcdn>>

\* ... s3_->pool.submit(...), which reads s3_ again.  When it was reset in
\* between, the build may use the value of the first read or crash.
DeleteSubmit(h) ==
    /\ Alive /\ handler[h] = "submit"
    /\ handler' = [handler EXCEPT ![h] = "idle"]
    /\ \/ UNCHANGED main
       \/ s3 # "up" /\ main' = "crash"
    /\ UNCHANGED <<console, flag, watcher, cdnRunning, s3, http, stopped, grpc, gcdn>>

-----------------------------------------------------------------------------
Console == CommandNotify
Watcher ==
    \/ WatcherEval \/ WatcherBlock \/ WatcherGrpc \/ GrpcDrained
    \/ CdnShutdown("watcher") \/ CdnJoin("watcher")
Main ==
    \/ StartS3 \/ StartThread \/ StartRunning \/ Publish \/ StartGrpc \/ GrpcWait
    \/ JoinWatcher \/ CdnShutdown("main") \/ CdnJoin("main")
Http == Listen \/ ListenEnd
Delete(h) == DeleteCheck(h) \/ DeleteSubmit(h)

ProcessNext ==
    \/ CommandExit \/ ConsoleEnd \/ Console \/ Watcher \/ Main \/ Http
    \/ \E h \in Handlers : DeleteCall(h) \/ Delete(h)

\* Every thread that can go on does; nothing forces input or a call.
ProcessFairness ==
    /\ WF_processVars(Console) /\ WF_processVars(Watcher) /\ WF_processVars(Main) /\ WF_processVars(Http)
    /\ \A h \in Handlers : WF_processVars(Delete(h))

ProcessSpec == ProcessInit /\ [][ProcessNext]_processVars /\ ProcessFairness

-----------------------------------------------------------------------------
Teardown == {"cdn", "cdnJoin", "cdnReset"}

\* The flags and the places of the threads keep their types.
ProcessTypeOK ==
    /\ console \in {"read", "notify", "over"} /\ flag \in BOOLEAN
    /\ watcher \in {"eval", "block", "sleep", "grpc", "drain", "done"} \cup Teardown
    /\ main \in {"s3", "thread", "running", "publish", "grpc", "serve", "join",
                 "exit", "abort", "crash"} \cup Teardown
    /\ cdnRunning \in BOOLEAN /\ s3 \in {"null", "up", "dying"}
    /\ http \in {"none", "started", "listening", "over"} /\ stopped \in BOOLEAN
    /\ cdnRunning => s3 = "up" /\ http # "none"
    /\ grpc \in {"null", "up", "stopping", "shut"} /\ gcdn \in BOOLEAN
    /\ handler \in [Handlers -> {"idle", "check", "submit"}]

\* CdnServer::shutdown has no lock, and two threads call it: they never do
\* so at the same time, so nothing is joined or destroyed twice.
OneTeardown == ~(watcher \in Teardown /\ main \in Teardown)

\* A handler that found s3_ set never submits to a pool whose storage is
\* gone, although the watcher tears the CDN down while the gRPC server still
\* accepts calls: the pool's destructor does not return.
NoFreedPool == (\E h \in Handlers : handler[h] = "submit") => s3 # "null"

\* An exit command given to a process without a CDN whose watcher sleeps
\* and whose gRPC server serves ends the process.
CleanStop ==
    (console = "notify" /\ watcher = "sleep" /\ main = "serve" /\ s3 = "null") ~> main = "exit"

\* The ways an exit command fails to end the process: the watcher slept on
\* because the flag was stored and notified between its test and its sleep;
\* the CDN server was told to stop before it listened, by the watcher or by
\* main; the pool is joined, by either; the gRPC server came up after the
\* watcher had looked for it.
Hung ==
    \/ watcher = "sleep" /\ console # "notify"
    \/ "cdnJoin" \in {watcher, main} /\ http = "listening" /\ ~stopped
    \/ "cdnReset" \in {watcher, main}
    \/ watcher = "done" /\ main = "serve" /\ grpc = "up"

\* An exit command ends the process, or leaves it in one of those four states
\* and in no other, whenever it is given during start or service.
StopsOrHangs == flag ~> (~Alive \/ Hung)
=============================================================================
