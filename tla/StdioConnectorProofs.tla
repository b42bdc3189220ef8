-------------------------- MODULE StdioConnectorProofs --------------------------
(***************************************************************************)
(* Proofs about StdioConnector: as long as no caller's context ends, every *)
(* call gets its own answer, for any number of calls and whenever the      *)
(* process dies or is stopped.                                             *)
(***************************************************************************)
EXTENDS StdioConnector, TLAPS

\* Nothing is in the pipes and nobody reads.
Quiet == stdin = <<>> /\ stdout = <<>> /\ readers = {}

\* The request or the answer of c, and nothing else, may be in the pipes.
OnlyIn(c) ==
  \/ stdin = <<c>> /\ stdout = <<>>
  \/ stdin = <<>> /\ stdout = <<>>
  \/ stdin = <<>> /\ stdout = <<c>>

\* A waiting call holds the mutex, and the pipes are its own.
WaitInv(c) ==
  pc[c] = "wait" =>
    /\ mu = c
    /\ \/ line[c] = None /\ readers = {c} /\ OnlyIn(c)
       \/ line[c] \in {c, "eof"} /\ Quiet

Uncancelled == \A c \in Calls : ~ctxDone[c]

PairInv ==
  /\ TypeOK
  /\ Uncancelled
  /\ mu = None => Quiet
  /\ ~alive => stdin = <<>>
  /\ \A c \in Calls : mu = c => pc[c] = "wait"
  /\ \A c \in Calls : WaitInv(c)
  /\ \A c \in Calls : pc[c] = "idle" => line[c] = None
  /\ \A c \in Calls : pc[c] = "done" => got[c] \in {c, "eof", "failed"}

\* The invariant holds initially.
LEMMA PairInit == Init => PairInv
  <1> SUFFICES ASSUME Init PROVE PairInv
    OBVIOUS
  <1>1. TypeOK
    <2>1. stdin \in Seq(Calls) /\ stdout \in Seq(Calls)
      BY DEF Init
    <2>2. /\ pc \in [Calls -> {"idle", "wait", "done"}] /\ ctxDone \in [Calls -> BOOLEAN]
          /\ line \in [Calls -> Line \cup {None}]
          /\ got \in [Calls -> Line \cup {"cancelled", "failed", None}]
      BY DEF Init
    <2> QED
      BY <2>1, <2>2, Zenon DEF Init, TypeOK
  <1> QED
    BY <1>1, StdioAssumption DEF Init, PairInv, Uncancelled, Quiet, WaitInv

\* A step of any kind keeps it when contexts do not end.
LEMMA PairStep == PairInv /\ [Next]_vars /\ Uncancelled' => PairInv'
  <1> SUFFICES ASSUME PairInv, [Next]_vars, Uncancelled' PROVE PairInv'
    OBVIOUS
  <1> USE StdioAssumption
  <1>q. \A c \in Calls : <<c>> # <<>> /\ Head(<<c>>) = c /\ Tail(<<c>>) = <<>> /\ Append(<<>>, c) = <<c>>
    OBVIOUS
  <1>1. ASSUME Start PROVE PairInv'
    BY <1>1 DEF Start, PairInv, TypeOK, Quiet, WaitInv, OnlyIn, callVars
  <1>2. ASSUME NEW c \in Calls, Handle(c) PROVE PairInv'
    <2>1. Quiet /\ line[c] = None
      BY <1>2 DEF Handle, PairInv
    <2>2. alive /\ stdin' = <<c>> /\ stdout' = <<>> /\ readers' = {c} /\ mu' = c
          /\ pc' = [pc EXCEPT ![c] = "wait"] /\ UNCHANGED <<cmd, alive, ctxDone, line, got, stop>>
      BY <1>2, <2>1, <1>q DEF Handle, Quiet
    <2>3. TypeOK'
      BY <2>2 DEF PairInv, TypeOK
    <2>4. \A d \in Calls \ {c} : pc[d] # "wait"
      BY <1>2 DEF Handle, PairInv, WaitInv
    <2> QED
      BY <2>1, <2>2, <2>3, <2>4 DEF PairInv, TypeOK, WaitInv, OnlyIn
  <1>3. ASSUME NEW c \in Calls, HandleFails(c) PROVE PairInv'
    <2>1. pc' = [pc EXCEPT ![c] = "done"] /\ got' = [got EXCEPT ![c] = "failed"]
          /\ mu = None /\ pc[c] = "idle" /\ UNCHANGED <<processVars, mu, ctxDone, readers, line, stop>>
      BY <1>3 DEF HandleFails, Finish
    <2> QED
      BY <2>1 DEF PairInv, TypeOK, WaitInv, OnlyIn, Quiet, processVars
  <1>4. ASSUME NEW c \in Calls, ReadLine(c) PROVE PairInv'
    <2>1. PICK d \in Calls : mu = d /\ pc[d] = "wait"
      BY <1>4 DEF ReadLine, PairInv, Quiet, TypeOK
    <2>2. line[d] = None /\ readers = {d} /\ OnlyIn(d) /\ c = d
      BY <1>4, <2>1 DEF ReadLine, PairInv, WaitInv, Quiet
    <2>3. stdin = <<>> /\ stdout = <<d>>
      BY <1>4, <2>2 DEF ReadLine, OnlyIn
    <2>4. line' = [line EXCEPT ![d] = d] /\ stdout' = <<>> /\ readers' = {}
          /\ UNCHANGED <<cmd, alive, stdin, mu, pc, ctxDone, got, stop>>
      BY <1>4, <2>2, <2>3, <1>q DEF ReadLine
    <2> QED
      BY <2>1, <2>3, <2>4 DEF PairInv, TypeOK, WaitInv, Quiet, Line
  <1>5. ASSUME NEW c \in Calls, ReadEOF(c) PROVE PairInv'
    <2>1. PICK d \in Calls : mu = d /\ pc[d] = "wait"
      BY <1>5 DEF ReadEOF, PairInv, Quiet, TypeOK
    <2>2. line[d] = None /\ readers = {d} /\ OnlyIn(d) /\ c = d
      BY <1>5, <2>1 DEF ReadEOF, PairInv, WaitInv, Quiet
    <2>3. line' = [line EXCEPT ![d] = "eof"] /\ readers' = {} /\ stdout = <<>> /\ ~alive
          /\ UNCHANGED <<cmd, alive, stdin, stdout, mu, pc, ctxDone, got, stop>>
      BY <1>5, <2>2 DEF ReadEOF, processVars
    <2> QED
      BY <2>1, <2>2, <2>3 DEF PairInv, TypeOK, WaitInv, Quiet, OnlyIn, Line
  <1>6. ASSUME NEW c \in Calls, HandleReturns(c) PROVE PairInv'
    <2>1. pc' = [pc EXCEPT ![c] = "done"] /\ got' = [got EXCEPT ![c] = line[c]] /\ mu' = None
          /\ pc[c] = "wait" /\ line[c] # None
          /\ UNCHANGED <<processVars, ctxDone, readers, line, stop>>
      BY <1>6 DEF HandleReturns, Finish
    <2>2. Quiet /\ line[c] \in {c, "eof"} /\ mu = c
      BY <2>1 DEF PairInv, WaitInv
    <2>3. \A d \in Calls \ {c} : pc[d] # "wait"
      BY <2>2 DEF PairInv, WaitInv
    <2> QED
      BY <2>1, <2>2, <2>3 DEF PairInv, TypeOK, WaitInv, Quiet, processVars, Line
  <1>7. ASSUME NEW c \in Calls, HandleCancelled(c) \/ ContextEnds(c) PROVE FALSE
    <2>1. ~HandleCancelled(c)
      BY DEF HandleCancelled, PairInv, Uncancelled
    <2>2. ContextEnds(c) => ctxDone'[c]
      BY DEF ContextEnds, PairInv, TypeOK
    <2> QED
      BY <1>7, <2>1, <2>2 DEF Uncancelled
  <1>8. ASSUME Process PROVE PairInv'
    <2>1. PICK d \in Calls : mu = d /\ pc[d] = "wait"
      BY <1>8 DEF Process, PairInv, Quiet, TypeOK
    <2>2. stdin = <<d>> /\ stdout = <<>> /\ line[d] = None /\ readers = {d}
      BY <1>8, <2>1 DEF Process, PairInv, WaitInv, Quiet, OnlyIn
    <2>3. stdin' = <<>> /\ stdout' \in {<<>>, <<d>>}
          /\ UNCHANGED <<cmd, alive, mu, pc, ctxDone, readers, line, got, stop>>
      BY <1>8, <2>2, <1>q DEF Process, callVars
    <2>4. \A e \in Calls : pc[e] = "wait" => e = d
      BY <2>1 DEF PairInv, WaitInv
    <2> QED
      BY <2>1, <2>2, <2>3, <2>4, ZenonT(60) DEF PairInv, TypeOK, WaitInv, Quiet, OnlyIn
  <1>9. ASSUME Dies \/ Killed \/ Stop PROVE PairInv'
    <2>1. stdin' = <<>> /\ UNCHANGED <<stdout, mu, pc, ctxDone, readers, line, got>>
          /\ cmd' \in BOOLEAN /\ alive' \in BOOLEAN /\ stop' \in {"idle", "cancelled", "done"}
      BY <1>9, ZenonT(60) DEF Dies, Killed, Stop, callVars, PairInv, TypeOK
    <2> QED
      BY <2>1 DEF PairInv, TypeOK, WaitInv, Quiet, OnlyIn
  <1>10. ASSUME CancelRuntime PROVE PairInv'
    BY <1>10 DEF CancelRuntime, PairInv, TypeOK, WaitInv, Quiet, OnlyIn, processVars, callVars
  <1>11. ASSUME UNCHANGED vars PROVE PairInv'
    BY <1>11 DEF vars, PairInv, TypeOK, WaitInv, Quiet, OnlyIn, processVars, callVars
  <1> HIDE DEF PairInv
  <1> QED
    BY <1>1, <1>2, <1>3, <1>4, <1>5, <1>6, <1>7, <1>8, <1>9, <1>10, <1>11 DEF Next, Reader

\* Every step keeps the types, whatever callers and process do.
LEMMA StdioTypeStep == TypeOK /\ [Next]_vars => TypeOK'
  <1> SUFFICES ASSUME TypeOK, [Next]_vars PROVE TypeOK'
    OBVIOUS
  <1> USE DEF TypeOK, processVars, callVars
  <1>1. ASSUME Start PROVE TypeOK'
    BY <1>1, Zenon DEF Start
  <1>2. ASSUME NEW c \in Calls, Handle(c) PROVE TypeOK'
    BY <1>2 DEF Handle
  <1>3. ASSUME NEW c \in Calls, NEW result \in Line \cup {"cancelled", "failed", None}, Finish(c, result)
        PROVE  /\ pc' \in [Calls -> {"idle", "wait", "done"}]
               /\ got' \in [Calls -> Line \cup {"cancelled", "failed", None}]
    BY <1>3 DEF Finish
  <1>4. ASSUME NEW c \in Calls, HandleFails(c) PROVE TypeOK'
    BY <1>3, <1>4, ZenonT(30) DEF HandleFails
  <1>5. ASSUME NEW c \in Calls, ReadLine(c) PROVE TypeOK'
    <2>1. PICK l \in {Head(stdout), "garbled"} : line' = [line EXCEPT ![c] = l]
      BY <1>5 DEF ReadLine
    <2>2. Head(stdout) \in Calls /\ Tail(stdout) \in Seq(Calls)
      BY <1>5 DEF ReadLine
    <2>3. line' \in [Calls -> Line \cup {None}]
      BY <2>1, <2>2 DEF Line
    <2> QED
      BY <1>5, <2>2, <2>3 DEF ReadLine
  <1>6. ASSUME NEW c \in Calls, ReadEOF(c) PROVE TypeOK'
    BY <1>6 DEF ReadEOF, Line
  <1>7. ASSUME NEW c \in Calls, HandleReturns(c) PROVE TypeOK'
    <2>1. line[c] \in Line \cup {"cancelled", "failed", None}
      OBVIOUS
    <2> QED
      BY <1>3, <1>7, <2>1, ZenonT(30) DEF HandleReturns
  <1>8. ASSUME NEW c \in Calls, HandleCancelled(c) PROVE TypeOK'
    BY <1>3, <1>8, ZenonT(30) DEF HandleCancelled
  <1>9. ASSUME NEW c \in Calls, ContextEnds(c) PROVE TypeOK'
    BY <1>9 DEF ContextEnds
  <1>10. ASSUME Process PROVE TypeOK'
    <2>1. Head(stdin) \in Calls /\ Tail(stdin) \in Seq(Calls)
      BY <1>10 DEF Process
    <2>2. stdout' \in Seq(Calls)
      BY <1>10, <2>1 DEF Process
    <2> QED
      BY <1>10, <2>1, <2>2 DEF Process
  <1>11. ASSUME Dies \/ Killed \/ Stop PROVE TypeOK'
    <2>1. <<>> \in Seq(Calls)
      OBVIOUS
    <2> QED
      BY <1>11, <2>1, ZenonT(30) DEF Dies, Killed, Stop
  <1>12. ASSUME CancelRuntime PROVE TypeOK'
    BY <1>12 DEF CancelRuntime
  <1>13. ASSUME UNCHANGED vars PROVE TypeOK'
    BY <1>13 DEF vars
  <1> HIDE DEF TypeOK
  <1> QED
    BY <1>1, <1>2, <1>4, <1>5, <1>6, <1>7, <1>8, <1>9, <1>10, <1>11, <1>12, <1>13 DEF Next, Reader

\* Every variable of the connector keeps its type: the pipes hold requests and
\* answers of calls, and what Handle returns is a line, a broken line or a failure.
THEOREM TypeCorrect == Spec => []TypeOK
  <1>1. Init => TypeOK
    BY PairInit DEF PairInv
  <1> QED
    BY <1>1, StdioTypeStep, PTL DEF Spec

\* A context that is over stays over, so a state in which none is has been
\* reached through such states only.
LEMMA UncancelledBefore ==
  ASSUME ctxDone \in [Calls -> BOOLEAN], [Next]_vars
  PROVE  ctxDone' \in [Calls -> BOOLEAN] /\ (Uncancelled' => Uncancelled)
  <1>1. ASSUME NEW c \in Calls, ContextEnds(c)
        PROVE  ctxDone' \in [Calls -> BOOLEAN] /\ (Uncancelled' => Uncancelled)
    BY <1>1 DEF ContextEnds, Uncancelled
  <1>2. ASSUME UNCHANGED ctxDone
        PROVE  ctxDone' \in [Calls -> BOOLEAN] /\ (Uncancelled' => Uncancelled)
    BY <1>2 DEF Uncancelled
  <1>3. UNCHANGED ctxDone \/ \E c \in Calls : ContextEnds(c)
    BY DEF Next, Reader, Start, Handle, HandleFails, ReadLine, ReadEOF, HandleReturns,
           HandleCancelled, Process, Dies, CancelRuntime, Killed, Stop, callVars, vars
  <1> QED
    BY <1>1, <1>2, <1>3

\* As long as no caller gives up, the order of the lines is enough: every call
\* that Handle answers gets the line the process wrote for it.
THEOREM AnswersMatch == Spec => []UncancelledMatch
  <1> DEFINE Inv == ctxDone \in [Calls -> BOOLEAN] /\ (Uncancelled => PairInv)
  <1>1. Init => Inv
    BY PairInit DEF Init
  <1>2. Inv /\ [Next]_vars => Inv'
    BY PairStep, UncancelledBefore
  <1>3. Inv => UncancelledMatch
    BY StdioAssumption DEF UncancelledMatch, PairInv, Uncancelled, AnswerMatches, Line
  <1> HIDE DEF Inv
  <1> QED
    BY <1>1, <1>2, <1>3, PTL DEF Spec
=============================================================================
