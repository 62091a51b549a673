------------------------ MODULE ExtensionCall_proofs ------------------------
(***************************************************************************)
(* A call into the VM is only ever ended by its own interrupt.             *)
(***************************************************************************)
EXTENDS ExtensionCall, TLAPS

\* The goroutines of earlier calls have ended and those of later calls have
\* not started.
OneGuard ==
  /\ main # "idle" => call \in Calls
  /\ \A n \in Calls : (n < call => guard[n] = "gone") /\ (n > call => guard[n] = "none")
  /\ call \in Calls => guard[call] # "none"

\* An interrupt in the channel comes from the goroutine of the current call,
\* which has ended: then nobody receives from successCh, so the call cannot
\* succeed and leave the interrupt behind for the next one.
InterruptIsOwn ==
  /\ interrupt # Nobody => interrupt = call /\ guard[interrupt] = "gone"
  /\ main = "idle" => interrupt = Nobody /\ \A n \in Calls : guard[n] \in {"none", "gone"}
  /\ main # "panicked"

Inv == TypeOK /\ OneGuard /\ InterruptIsOwn

\* The invariant holds before the first call.
LEMMA CallInit == Init => Inv
  BY CallConstants DEF Init, Inv, TypeOK, OneGuard, InterruptIsOwn, Calls, Nobody, MainPC, GuardPC

\* Every step of the calling thread, of the goroutines and of the environment
\* preserves it.
LEMMA CallStep == Inv /\ [Next]_vars => Inv'
<1> SUFFICES ASSUME Inv, [Next]_vars PROVE Inv'
  OBVIOUS
<1> USE CallConstants DEF Inv, TypeOK, OneGuard, InterruptIsOwn, Calls, Nobody, MainPC, GuardPC
<1>1. CASE HandleEvent
  <2>1. \A n \in Calls : guard[n] \in {"none", "gone"} /\ interrupt = Nobody
    BY <1>1 DEF HandleEvent
  <2>2. call + 1 \in Calls
    BY <1>1 DEF HandleEvent
  <2>3. TypeOK'
    BY <1>1, <2>2 DEF HandleEvent
  <2>4. ASSUME NEW n \in Calls PROVE (n < call + 1 => guard'[n] = "gone") /\ (n > call + 1 => guard'[n] = "none")
    <3>1. guard'[n] = IF n = call + 1 THEN "select" ELSE guard[n]
      BY <1>1, <2>2 DEF HandleEvent
    <3>2. n < call + 1 => n < call \/ n = call
      OBVIOUS
    <3> QED BY <2>1, <2>2, <3>1, <3>2
  <2>5. OneGuard'
    BY <1>1, <2>2, <2>4 DEF HandleEvent
  <2>6. InterruptIsOwn'
    BY <1>1, <2>1 DEF HandleEvent
  <2> QED BY <2>3, <2>5, <2>6
<1>2. CASE MainStep
  <2>1. CASE Convert
    BY <2>1 DEF Convert
  <2>2. CASE StopTimer
    BY <2>2 DEF StopTimer
  <2>3. CASE SendSuccess
    <3>1. call \in Calls /\ interrupt = Nobody
      BY <2>3 DEF SendSuccess
    <3>2. TypeOK' /\ OneGuard'
      BY <2>3, <3>1 DEF SendSuccess
    <3>3. InterruptIsOwn'
      BY <2>3, <3>1 DEF SendSuccess
    <3> QED BY <3>2, <3>3
  <2> QED BY <1>2, <2>1, <2>2, <2>3 DEF MainStep
<1>3. CASE Interrupted
  BY <1>3 DEF Interrupted
<1>4. CASE ScriptReturns
  BY <1>4 DEF ScriptReturns
<1>5. ASSUME NEW n \in Calls, GuardStep(n) PROVE Inv'
  <2>1. CASE SelectTimer(n)
    BY <2>1 DEF SelectTimer
  <2>2. CASE SelectClosed(n)
    BY <2>2 DEF SelectClosed
  <2>3. CASE SendInterrupt(n)
    BY <2>3 DEF SendInterrupt
  <2> QED BY <1>5, <2>1, <2>2, <2>3 DEF GuardStep
<1>6. ASSUME NEW n \in Calls, TimerFires(n) PROVE Inv'
  BY <1>6 DEF TimerFires
<1>7. CASE Disconnect
  BY <1>7 DEF Disconnect
<1>8. CASE UNCHANGED vars
  BY <1>8 DEF vars
<1> QED BY <1>1, <1>2, <1>3, <1>4, <1>5, <1>6, <1>7, <1>8 DEF Next

\* HandleEvent never panics with the error of another call, however many calls
\* a request makes and whenever its timers fire or its client disconnects.
THEOREM OwnInterrupts == Spec => []OnlyOwnInterrupts
<1>1. Inv => OnlyOwnInterrupts
  BY DEF Inv, InterruptIsOwn, OnlyOwnInterrupts
<1> QED BY CallInit, CallStep, <1>1, PTL DEF Spec

\* The variables keep their types in every behaviour.
THEOREM CallTypeCorrect == Spec => []TypeOK
<1>1. Inv => TypeOK
  BY DEF Inv
<1> QED BY CallInit, CallStep, <1>1, PTL DEF Spec
=============================================================================
