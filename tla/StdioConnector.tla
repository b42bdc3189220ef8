----------------------------- MODULE StdioConnector -----------------------------
(***************************************************************************)
(* A stdio component: one child process, one line in and one line out per  *)
(* call.  Handle holds the connector's mutex while it writes the request   *)
(* and waits for a line; the line is read by a goroutine of its own, which *)
(* outlives Handle when the caller's context ends first.                   *)
(*                                                                         *)
(* The daemon stops a component by cancelling the context the process was  *)
(* started with and then calling Stop, which needs the same mutex.         *)
(***************************************************************************)
EXTENDS Integers, Sequences

CONSTANTS
  Calls,      \* calls of Handle
  Silent,     \* those whose message the process does not answer
  None        \* null value

ASSUME StdioAssumption ==
  /\ Silent \subseteq Calls
  /\ None \notin Calls
  /\ {"eof", "cancelled", "failed", "garbled"} \cap (Calls \cup {None}) = {}

VARIABLES
  cmd,      \* StdioConnector.cmd # nil
  alive,    \* the process runs
  mu,       \* which call holds StdioConnector.mu
  pc,       \* where each call of Handle stands
  ctxDone,  \* the call's context is over
  stdin,    \* requests the process has not read
  stdout,   \* its lines not yet read; each is the call it answers
  readers,  \* calls whose goroutine is in ReadBytes
  line,     \* what that goroutine has put in the call's channel
  got,      \* what Handle returned
  stop      \* where the daemon's stopComponentLocked stands

processVars == <<cmd, alive, stdin, stdout>>
callVars == <<mu, pc, ctxDone, readers, line, got>>
vars == <<processVars, callVars, stop>>

Line == Calls \cup {"garbled", "eof"}

TypeOK ==
  /\ cmd \in BOOLEAN
  /\ alive \in BOOLEAN
  /\ mu \in Calls \cup {None}
  /\ pc \in [Calls -> {"idle", "wait", "done"}]
  /\ ctxDone \in [Calls -> BOOLEAN]
  /\ stdin \in Seq(Calls)
  /\ stdout \in Seq(Calls)
  /\ readers \in SUBSET Calls
  /\ line \in [Calls -> Line \cup {None}]
  /\ got \in [Calls -> Line \cup {"cancelled", "failed", None}]
  /\ stop \in {"idle", "cancelled", "done"}

Init ==
  /\ cmd = FALSE
  /\ alive = FALSE
  /\ mu = None
  /\ pc = [c \in Calls |-> "idle"]
  /\ ctxDone = [c \in Calls |-> FALSE]
  /\ stdin = <<>>
  /\ stdout = <<>>
  /\ readers = {}
  /\ line = [c \in Calls |-> None]
  /\ got = [c \in Calls |-> None]
  /\ stop = "idle"
-----------------------------------------------------------------------------
Start ==
  /\ ~cmd
  /\ stop = "idle"
  /\ cmd' = TRUE
  /\ alive' = TRUE
  /\ UNCHANGED <<stdin, stdout, callVars, stop>>

MutFinish(c, result) ==
  /\ pc' = [pc EXCEPT ![c] = "done"]
  /\ got' = [got EXCEPT ![c] = pc[c]]

Finish(c, result) ==
  /\ pc' = [pc EXCEPT ![c] = "done"]
  /\ got' = [got EXCEPT ![c] = result]

MutHandle(c) ==
  /\ pc[c] = "idle"
  /\ cmd /\ alive
  /\ mu' = c
  /\ stdin' = Append(stdin, c)
  /\ readers' = readers \cup {c}
  /\ pc' = [pc EXCEPT ![c] = "wait"]
  /\ UNCHANGED <<cmd, alive, stdout, ctxDone, line, got, stop>>

\* Handle takes the mutex, writes the request and starts the reader ...
Handle(c) ==
  /\ pc[c] = "idle"
  /\ mu = None
  /\ cmd /\ alive
  /\ mu' = c
  /\ stdin' = Append(stdin, c)
  /\ readers' = readers \cup {c}
  /\ pc' = [pc EXCEPT ![c] = "wait"]
  /\ UNCHANGED <<cmd, alive, stdout, ctxDone, line, got, stop>>

\* ... unless the component is not running, or the write fails.
HandleFails(c) ==
  /\ pc[c] = "idle"
  /\ mu = None
  /\ ~(cmd /\ alive)
  /\ Finish(c, "failed")
  /\ UNCHANGED <<processVars, mu, ctxDone, readers, line, stop>>

\* A goroutine's ReadBytes returns the next line.  Several goroutines in
\* ReadBytes race on one bufio.Reader: any of them gets the line, or a broken one.
ReadLine(r) ==
  /\ r \in readers
  /\ stdout # <<>>
  /\ \E l \in {Head(stdout)} \cup (IF readers = {r} THEN {} ELSE {"garbled"}) :
       line' = [line EXCEPT ![r] = l]
  /\ stdout' = Tail(stdout)
  /\ readers' = readers \ {r}
  /\ UNCHANGED <<cmd, alive, stdin, mu, pc, ctxDone, got, stop>>

ReadEOF(r) ==
  /\ r \in readers
  /\ stdout = <<>>
  /\ ~alive
  /\ line' = [line EXCEPT ![r] = "eof"]
  /\ readers' = readers \ {r}
  /\ UNCHANGED <<processVars, mu, pc, ctxDone, got, stop>>

\* case r := <-ch
HandleReturns(c) ==
  /\ pc[c] = "wait"
  /\ line[c] # None
  /\ Finish(c, line[c])
  /\ mu' = None
  /\ UNCHANGED <<processVars, ctxDone, readers, line, stop>>

\* case <-ctx.Done()
HandleCancelled(c) ==
  /\ pc[c] = "wait"
  /\ ctxDone[c]
  /\ Finish(c, "cancelled")
  /\ mu' = None
  /\ UNCHANGED <<processVars, ctxDone, readers, line, stop>>

\* A cancel frame, or the daemon's context, ends a call.
ContextEnds(c) ==
  /\ pc[c] = "wait"
  /\ ~ctxDone[c]
  /\ ctxDone' = [ctxDone EXCEPT ![c] = TRUE]
  /\ UNCHANGED <<processVars, mu, pc, readers, line, got, stop>>
-----------------------------------------------------------------------------
(***************************************************************************)
(* The process, which is not part of the code: it answers the messages it  *)
(* reads in order, except those that want no answer.                       *)
(***************************************************************************)
Process ==
  /\ alive
  /\ stdin # <<>>
  /\ stdin' = Tail(stdin)
  /\ stdout' = IF Head(stdin) \in Silent THEN stdout ELSE Append(stdout, Head(stdin))
  /\ UNCHANGED <<cmd, alive, callVars, stop>>

Dies ==
  /\ alive
  /\ alive' = FALSE
  /\ stdin' = <<>>
  /\ UNCHANGED <<cmd, stdout, callVars, stop>>
-----------------------------------------------------------------------------
\* stopComponentLocked cancels the runtime's context ...
CancelRuntime ==
  /\ cmd
  /\ stop = "idle"
  /\ stop' = "cancelled"
  /\ UNCHANGED <<processVars, callVars>>

MutKilled ==
  /\ FALSE
  /\ UNCHANGED vars

\* ... at which os/exec kills the process ...
Killed ==
  /\ stop = "cancelled"
  /\ alive
  /\ alive' = FALSE
  /\ stdin' = <<>>
  /\ UNCHANGED <<cmd, stdout, callVars, stop>>

\* ... and calls Stop, which waits for the mutex.
Stop ==
  /\ stop = "cancelled"
  /\ mu = None
  /\ cmd' = FALSE
  /\ alive' = FALSE
  /\ stdin' = <<>>
  /\ stop' = "done"
  /\ UNCHANGED <<stdout, callVars>>
-----------------------------------------------------------------------------
Reader(r) == ReadLine(r) \/ ReadEOF(r)

Next ==
  \/ Start
  \/ \E c \in Calls :
       \/ Handle(c)
       \/ HandleFails(c)
       \/ Reader(c)
       \/ HandleReturns(c)
       \/ HandleCancelled(c)
       \/ ContextEnds(c)
  \/ Process
  \/ Dies
  \/ CancelRuntime
  \/ Killed
  \/ Stop

Spec == Init /\ [][Next]_vars

(***************************************************************************)
(* Goroutines run, the kill arrives, and the mutex is not withheld from    *)
(* Stop for ever.  Nothing is assumed of the process or of the callers.    *)
(***************************************************************************)
Fairness ==
  /\ \A c \in Calls : WF_vars(Reader(c)) /\ WF_vars(HandleReturns(c)) /\ WF_vars(HandleCancelled(c))
  /\ WF_vars(Killed)
  /\ SF_vars(Stop)

FairSpec == Spec /\ Fairness
-----------------------------------------------------------------------------
(***************************************************************************)
(* Properties.                                                             *)
(***************************************************************************)

\* A line that Handle returns as the answer of a call is the process's answer
\* to that call: nothing in the line says so, only the order of the lines.
AnswerMatches == \A c \in Calls : pc[c] = "done" /\ got[c] \in Line \ {"eof"} => got[c] = c

\* As long as no caller has given up, whatever the process does, each call gets
\* its own answer: Handle's mutex keeps calls and lines in step.
UncancelledMatch == (\A c \in Calls : ~ctxDone[c]) => AnswerMatches

\* A component that is being stopped stops, even when the process never answers
\* the call that holds the mutex.
StopCompletes == stop = "cancelled" ~> stop = "done"
=============================================================================
