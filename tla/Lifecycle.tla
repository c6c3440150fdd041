------------------------------ MODULE Lifecycle ------------------------------
(***************************************************************************)
(* The life of the server process in packs mode, as its three programs     *)
(* see it: the main step that starts it and waits for the ready file       *)
(* (action/main.js), the server itself with its flush worker               *)
(* (cmd/cache-server/main.go, internal/server/pack_store.go) and the post  *)
(* step that stops it (action/post.js).  They meet in the ready file, the  *)
(* /shutdown request, a signal, and in deadlines that each of them         *)
(* computes by itself.                                                     *)
(*                                                                         *)
(* Time is discrete, in units of ten seconds.  A local step takes no time, *)
(* a step that waits for the cache service or for a client takes any time  *)
(* up to its deadline.  What a flush saves is PackStore's; the loss of the *)
(* process itself is in PackStore.                                         *)
(***************************************************************************)
EXTENDS Naturals

CONSTANTS
  T,               \* backend-timeout-seconds
  Grace,           \* the 10 seconds of httpServer.Shutdown
  MinWait,         \* the 60 seconds that post waits at least
  Slack,           \* the 30 seconds that post adds to the timeout
  FlushInterval,   \* pack-flush-seconds
  FailOpen,
  RequestMayFail   \* a request on the loopback interface may fail

ASSUME LifecycleAssumption ==
  /\ T \in Nat \ {0}
  /\ Grace \in Nat
  /\ MinWait \in Nat
  /\ Slack \in Nat
  /\ Grace < Slack
  /\ FlushInterval \in Nat \ {0}
  /\ FailOpen \in BOOLEAN
  /\ RequestMayFail \in BOOLEAN

VARIABLES
  main,        \* the main step: "polling", "ready" or "failed"
  server,      \* where run() is
  worker,      \* the flush worker
  post,        \* the post step
  readyFile,   \* "absent", "empty" (created, not written) or "complete"
  inbox,       \* shutdownRequested and signals, channels of one element each
  due,         \* ticker.C and flushRequests, channels of one element each
  left,        \* time until each deadline
  tempDir,
  extraRound,  \* history: the worker began a flush after stop was closed
  requestLost  \* history: the /shutdown request did not arrive

channels == <<readyFile, inbox, due>>
history == <<extraRound, requestLost>>
vars == <<main, server, worker, post, channels, left, tempDir, history>>

Timers == {"startup", "discovery", "ticker", "round", "http", "final", "wait"}

\* The time that main.js:160 saves for post.
Wait == IF MinWait > T + Slack THEN MinWait ELSE T + Slack

Start(timer, time) == left' = [left EXCEPT ![timer] = time]
Expired(timer) == left[timer] = 0

Init ==
  /\ main = "polling"
  /\ server = "starting"
  /\ worker = "none"
  /\ post = "none"
  /\ readyFile = "absent"
  /\ inbox = {}
  /\ due = {}
  /\ left = [t \in Timers |-> IF t = "startup" THEN T ELSE 0]
  /\ tempDir = "present"
  /\ extraRound = FALSE
  /\ requestLost = FALSE

-----------------------------------------------------------------------------
(* The main step                                                            *)

ReadReadyFile ==
  /\ main = "polling"
  /\ ~Expired("startup")
  /\ readyFile # "absent"
  /\ \/ readyFile = "complete" /\ main' = "ready"
     \/ readyFile = "empty" /\ main' = "failed"
     \/ RequestMayFail /\ main' = "failed"
  /\ UNCHANGED <<server, worker, post, channels, left, tempDir, history>>

GiveUpStarting ==
  /\ main = "polling"
  /\ \/ Expired("startup")
     \/ readyFile = "absent" /\ server = "exited"
  /\ main' = "failed"
  /\ UNCHANGED <<server, worker, post, channels, left, tempDir, history>>

-----------------------------------------------------------------------------
(* The server                                                               *)

Discover ==
  /\ server = "starting"
  /\ server' = "discovering"
  /\ Start("discovery", T)
  /\ UNCHANGED <<main, worker, post, channels, tempDir, history>>

\* The manifests are read; or discovery failed and the server starts empty.
Discovered ==
  /\ server = "discovering"
  /\ server' = "listening"
  /\ worker' = "waiting"
  /\ Start("ticker", FlushInterval)
  /\ UNCHANGED <<main, post, channels, tempDir, history>>

DiscoveryFails ==
  /\ server = "discovering"
  /\ ~FailOpen
  /\ server' = "exited"
  /\ UNCHANGED <<main, worker, post, channels, left, tempDir, history>>

CreateReadyFile ==
  /\ server = "listening"
  /\ readyFile = "absent"
  /\ readyFile' = "empty"
  /\ UNCHANGED <<main, server, worker, post, inbox, due, left, tempDir, history>>

WriteReadyFile ==
  /\ server = "listening"
  /\ readyFile = "empty"
  /\ readyFile' = "complete"
  /\ server' = "serving"
  /\ UNCHANGED <<main, worker, post, inbox, due, left, tempDir, history>>

\* Mutant: signals are not watched.
BeginShutdownMutant ==
  /\ server = "serving"
  /\ "request" \in inbox
  /\ inbox' = inbox \ {"request"}
  /\ server' = "http"
  /\ Start("http", Grace)
  /\ UNCHANGED <<main, worker, post, readyFile, due, tempDir, history>>

BeginShutdown ==
  /\ server = "serving"
  /\ \E message \in inbox : inbox' = inbox \ {message}
  /\ server' = "http"
  /\ Start("http", Grace)
  /\ UNCHANGED <<main, worker, post, readyFile, due, tempDir, history>>

CloseStore ==
  /\ server = "http"
  /\ server' = "closing"
  /\ Start("final", T)
  /\ UNCHANGED <<main, worker, post, channels, tempDir, history>>

FinalFlush ==
  /\ server = "closing"
  /\ worker = "stopped"
  /\ server' = "final"
  /\ UNCHANGED <<main, worker, post, channels, left, tempDir, history>>

Exit ==
  /\ server = "final"
  /\ server' = "exited"
  /\ UNCHANGED <<main, worker, post, channels, left, tempDir, history>>

-----------------------------------------------------------------------------
(* The flush worker                                                         *)

StopClosed == server \in {"closing", "final", "exited"}

Ticker ==
  /\ worker \in {"waiting", "flushing"}
  /\ Expired("ticker")
  /\ due' = due \cup {"tick"}
  /\ Start("ticker", FlushInterval)
  /\ UNCHANGED <<main, server, worker, post, readyFile, inbox, tempDir, history>>

\* A handler stages an object while the pending bytes reach the target size.
\* Handlers may outlive httpServer.Shutdown; a flush holds the lock they need.
RequestFlush ==
  /\ worker = "waiting"
  /\ server \in {"serving", "http", "closing"}
  /\ due' = due \cup {"request"}
  /\ UNCHANGED <<main, server, worker, post, readyFile, inbox, left, tempDir, history>>

BeginRound ==
  /\ worker = "waiting"
  /\ \E reason \in due : due' = due \ {reason}
  /\ worker' = "flushing"
  /\ Start("round", T)
  /\ extraRound' = (extraRound \/ StopClosed)
  /\ UNCHANGED <<main, server, post, readyFile, inbox, tempDir, requestLost>>

EndRound ==
  /\ worker = "flushing"
  /\ worker' = "waiting"
  /\ UNCHANGED <<main, server, post, channels, left, tempDir, history>>

StopWorker ==
  /\ worker = "waiting"
  /\ StopClosed
  /\ worker' = "stopped"
  /\ UNCHANGED <<main, server, post, channels, left, tempDir, history>>

-----------------------------------------------------------------------------
(* The post step, which the runner starts after main in every case           *)

PostWithoutState ==
  /\ post = "none"
  /\ main = "failed"
  /\ post' = "done"
  /\ UNCHANGED <<main, server, worker, channels, left, tempDir, history>>

PostRequest ==
  /\ post = "none"
  /\ main = "ready"
  /\ \/ inbox' = inbox \cup {"request"} /\ UNCHANGED requestLost
     \/ RequestMayFail /\ requestLost' = TRUE /\ UNCHANGED inbox
  /\ post' = "waiting"
  /\ Start("wait", Wait)
  /\ UNCHANGED <<main, server, worker, readyFile, due, tempDir, extraRound>>

ServerStopped ==
  /\ post = "waiting"
  /\ server = "exited"
  /\ post' = "cleaning"
  /\ UNCHANGED <<main, server, worker, channels, left, tempDir, history>>

\* Mutant: the first look at the process decides.
SignalMutant ==
  /\ post = "waiting"
  /\ server # "exited"
  /\ inbox' = inbox \cup {"signal"}
  /\ post' = "cleaning"
  /\ UNCHANGED <<main, server, worker, readyFile, due, left, tempDir, history>>

Signal ==
  /\ post = "waiting"
  /\ server # "exited"
  /\ Expired("wait")
  /\ inbox' = inbox \cup {"signal"}
  /\ post' = "cleaning"
  /\ UNCHANGED <<main, server, worker, readyFile, due, left, tempDir, history>>

CleanUp ==
  /\ post = "cleaning"
  /\ tempDir' = "removed"
  /\ post' = "done"
  /\ UNCHANGED <<main, server, worker, channels, left, history>>

-----------------------------------------------------------------------------
(* Time passes while every program waits                                    *)

MainWaits ==
  main = "polling" => /\ readyFile = "absent"
                      /\ server # "exited"
                      /\ ~Expired("startup")

ServerWaits ==
  /\ server \notin {"starting", "listening"}
  /\ server = "discovering" => ~Expired("discovery")
  /\ server = "serving" => inbox = {}
  /\ server = "http" => ~Expired("http")
  /\ server = "closing" => worker # "stopped"
  /\ server = "final" => ~Expired("final")

WorkerWaits ==
  /\ worker = "waiting" => due = {} /\ ~StopClosed
  /\ worker = "flushing" => ~Expired("round")
  /\ worker \in {"waiting", "flushing"} => ~Expired("ticker")

PostWaits ==
  /\ post = "waiting" => server # "exited" /\ ~Expired("wait")
  /\ post # "cleaning"

Tick ==
  /\ MainWaits
  /\ ServerWaits
  /\ WorkerWaits
  /\ PostWaits
  /\ left' = [t \in Timers |-> IF left[t] = 0 THEN 0 ELSE left[t] - 1]
  /\ UNCHANGED <<main, server, worker, post, channels, tempDir, history>>

-----------------------------------------------------------------------------
MainStep == ReadReadyFile \/ GiveUpStarting
ServerStep ==
  \/ Discover \/ Discovered \/ DiscoveryFails
  \/ CreateReadyFile \/ WriteReadyFile
  \/ BeginShutdown \/ CloseStore \/ FinalFlush \/ Exit
WorkerStep == Ticker \/ RequestFlush \/ BeginRound \/ EndRound \/ StopWorker
PostStep == PostWithoutState \/ PostRequest \/ ServerStopped \/ Signal \/ CleanUp

Next == MainStep \/ ServerStep \/ WorkerStep \/ PostStep \/ Tick

Spec == Init /\ [][Next]_vars

(* Every process is scheduled and time passes.  When stop is closed and a   *)
(* flush is due, select takes either, so stop is taken in the end.          *)
FairSpec ==
  /\ Spec
  /\ WF_vars(MainStep)
  /\ WF_vars(ServerStep)
  /\ WF_vars(BeginRound \/ EndRound)
  /\ SF_vars(StopWorker)
  /\ WF_vars(Ticker)
  /\ WF_vars(ServerStopped \/ Signal \/ CleanUp)
  /\ SF_vars(Tick)

-----------------------------------------------------------------------------
(* Type invariant: the states of the programs, and no deadline is further   *)
(* away than the time it was set to.                                        *)
TypeOK ==
  /\ main \in {"polling", "ready", "failed"}
  /\ server \in {"starting", "discovering", "listening", "serving", "http",
                 "closing", "final", "exited"}
  /\ worker \in {"none", "waiting", "flushing", "stopped"}
  /\ post \in {"none", "waiting", "cleaning", "done"}
  /\ readyFile \in {"absent", "empty", "complete"}
  /\ inbox \subseteq {"request", "signal"}
  /\ due \subseteq {"tick", "request"}
  /\ left \in [Timers -> Nat]
  /\ left["http"] <= Grace
  /\ left["final"] <= T
  /\ left["round"] <= T
  /\ tempDir \in {"present", "removed"}
  /\ extraRound \in BOOLEAN
  /\ requestLost \in BOOLEAN

(* The time that main computes for post (main.js:160) is enough: post sends *)
(* a signal, and removes the files that a flush reads, only when the server *)
(* has stopped, when the worker began another flush after stop was closed,  *)
(* or when the request to stop was lost.                                    *)
BudgetSuffices ==
  post \in {"cleaning", "done"} /\ main = "ready" =>
    server = "exited" \/ extraRound \/ requestLost

(* The final flush shares the deadline of flushContext (main.go:175) with   *)
(* the flush that the worker is in.  Without a further round it cannot      *)
(* begin after the deadline, and when it begins it ends before post gives   *)
(* up: the order of the three deadlines holds at every moment.              *)
DeadlinesNest ==
  post = "waiting" /\ ~requestLost /\ ~extraRound =>
    /\ server = "closing" /\ worker = "flushing" => left["round"] <= left["final"]
    /\ server \in {"closing", "final"} => left["final"] < left["wait"]

(* A server that was ready exits once post has run, also when the request   *)
(* was lost and only the signal reached it (post.js:31, 52).                *)
ServerEnds == post # "none" /\ main = "ready" ~> server = "exited"
=============================================================================
