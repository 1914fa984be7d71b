------------------------------- MODULE Server -------------------------------
(***************************************************************************)
(* The process from start to exit: main (main.go) and ListenAndServe of    *)
(* proxy/server.go.  main builds the parts that its environment asks for,  *)
(* or exits.  Requests are served until SIGINT or SIGTERM cancels the      *)
(* context or the listener fails.  Then http.Server.Shutdown closes the    *)
(* listener and waits for the requests in flight, 30 seconds at most.      *)
(* Init, Next and the like are named for the process here, so that a module*)
(* may extend this one beside Handler.                                     *)
(***************************************************************************)
EXTENDS Config

CONSTANT Connections   \* the requests that clients send, one each

(***************************************************************************)
(* process: "starting" while main builds the parts, "listening" until the  *)
(* port is open, "running", or how it ended: "exit0", "exit1", "killed".   *)
(***************************************************************************)
VARIABLES env,        \* the environment of the process
          scanner,    \* h.scanner is not nil
          maxBody,    \* h.maxBodyBytes
          process,
          signalled,  \* SIGINT or SIGTERM has been sent
          listener,   \* "open", "failed" or "closed"
          serving,    \* ListenAndServe: "select", "shutdown", or its result
          state       \* of each request: how far it has come, or how it ended

handler == <<env, scanner, maxBody>>
processVars == <<handler, process, signalled, listener, serving, state>>

InFlight == {r \in Connections : state[r] = "active"}

ProcessInit ==
  /\ env \in Environments
  /\ scanner = FALSE /\ maxBody = 0
  /\ process = "starting"
  /\ signalled = FALSE /\ listener = "closed" /\ serving = "select"
  /\ state = [r \in Connections |-> "idle"]

\* main up to signal.NotifyContext: a part that cannot be built ends it.
Build ==
  LET config == LoadConfig(env)
      builds == DetectorBuilds(config) /\ (config.secretScan => ScannerBuilds(config))
  IN  /\ process = "starting"
      /\ process' = IF builds THEN "listening" ELSE "exit1"
      /\ scanner' = (builds /\ config.secretScan)
      /\ maxBody' = config.maxBody
      /\ UNCHANGED <<env, signalled, listener, serving, state>>

\* The port check, and net.Listen, which may fail.
Listen ==
  /\ process = "listening"
  /\ \/ PortValid(LoadConfig(env)) /\ process' = "running" /\ listener' = "open"
     \/ process' = "exit1" /\ UNCHANGED listener
  /\ UNCHANGED <<handler, signalled, serving, state>>

\* A connection that is not accepted ends for the client at once.
Arrive(r) ==
  /\ state[r] = "idle"
  /\ state' = [state EXCEPT ![r] =
       IF process = "running" /\ listener = "open" THEN "active" ELSE "refused"]
  /\ UNCHANGED <<handler, process, signalled, listener, serving>>

\* The handler returns and the answer is complete.
Finish(r) ==
  /\ process = "running" /\ state[r] = "active"
  /\ state' = [state EXCEPT ![r] = "answered"]
  /\ UNCHANGED <<handler, process, signalled, listener, serving>>

\* A signal before NotifyContext ends the process.  One before the port is
\* open is seen by the select.
Signal ==
  /\ ~signalled /\ process \in {"starting", "listening", "running"}
  /\ signalled' = TRUE
  /\ process' = IF process = "starting" THEN "killed" ELSE process
  /\ UNCHANGED <<handler, listener, serving, state>>

\* srv.Serve returns an error on errCh.
ListenerFails ==
  /\ process = "running" /\ listener = "open"
  /\ listener' = "failed"
  /\ UNCHANGED <<handler, process, signalled, serving, state>>

\* The select takes one of the branches that are ready.
ServeError ==
  /\ process = "running" /\ serving = "select" /\ listener = "failed"
  /\ serving' = "error"
  /\ UNCHANGED <<handler, process, signalled, listener, state>>

Shutdown ==
  /\ process = "running" /\ serving = "select" /\ signalled
  /\ serving' = "shutdown"
  /\ listener' = "closed"
  /\ UNCHANGED <<handler, process, signalled, state>>

\* Mutant: Shutdown does not wait.
DrainedAtOnce ==
  /\ process = "running" /\ serving = "shutdown"
  /\ serving' = "nil"
  /\ UNCHANGED <<handler, process, signalled, listener, state>>

Drained ==
  /\ process = "running" /\ serving = "shutdown" /\ InFlight = {}
  /\ serving' = "nil"
  /\ UNCHANGED <<handler, process, signalled, listener, state>>

\* Mutant: Shutdown is called with a context without a deadline.
DeadlineNever ==
  /\ FALSE
  /\ UNCHANGED processVars

\* shutdownCtx expires while requests are still in flight.
Deadline ==
  /\ process = "running" /\ serving = "shutdown" /\ InFlight # {}
  /\ serving' = "error"
  /\ UNCHANGED <<handler, process, signalled, listener, state>>

\* main returns, or calls os.Exit(1): what is in flight is cut off.
Exit ==
  /\ process = "running" /\ serving \in {"nil", "error"}
  /\ process' = IF serving = "nil" THEN "exit0" ELSE "exit1"
  /\ listener' = IF listener = "open" THEN "closed" ELSE listener
  /\ state' = [r \in Connections |-> IF state[r] = "active" THEN "cut" ELSE state[r]]
  /\ UNCHANGED <<handler, signalled, serving>>

ProcessNext ==
  \/ Build \/ Listen
  \/ \E r \in Connections : Arrive(r) \/ Finish(r)
  \/ Signal \/ ListenerFails \/ ServeError \/ Shutdown \/ Drained \/ Deadline \/ Exit

ProcessSpec == ProcessInit /\ [][ProcessNext]_processVars

\* main's goroutine runs on and the timer fires; handlers owe nothing, they
\* may stream for ever.
FairProcess ==
  /\ ProcessSpec
  /\ WF_processVars(Build) /\ WF_processVars(Listen)
  /\ WF_processVars(ServeError) /\ WF_processVars(Shutdown \/ Drained)
  /\ WF_processVars(Deadline) /\ WF_processVars(Exit)

-----------------------------------------------------------------------------
Ended == {"exit0", "exit1", "killed"}

\* Exit code 0 tells that every request that was taken has been answered.
CleanExit == process = "exit0" => \A r \in Connections : state[r] # "cut"

\* A process that has been told to stop does stop, however long its requests
\* take.
StopsOnSignal == signalled ~> process \in Ended

\* A request is taken only by a process that redacts secrets, with rules to
\* redact them by, and limits bodies, unless its environment turns that off
\* in so many words: no typing error and no unreadable file does.
ServesAsConfigured ==
  InFlight # {} =>
    /\ env.secretScan \notin FalseWords => scanner /\ ScannerBuilds(LoadConfig(env))
    /\ maxBody <= 0 => env.maxBody \notin {Unset, Junk}
=============================================================================
