--------------------------- MODULE ExtensionCall ---------------------------
(***************************************************************************)
(* Environment.HandleEvent of extension/otto/otto.go: the calls a request  *)
(* makes, one after the other, into one Javascript VM.                     *)
(*                                                                         *)
(* Every call starts a timer and a goroutine that waits for the timer, for *)
(* the client to disconnect, or for the unbuffered channel successCh.  On  *)
(* the first two it puts a function that panics into vm.Interrupt, which   *)
(* the VM looks at while the script runs.  When the script has returned    *)
(* the call stops the timer and sends on successCh.                        *)
(***************************************************************************)
EXTENDS Integers

CONSTANTS
  MaxCalls,    \* bound: how many calls a request makes
  HasClient    \* whether the context has an http_response that may disconnect

ASSUME CallConstants ==
  /\ MaxCalls \in Nat \ {0}
  /\ HasClient \in BOOLEAN

Calls == 1 .. MaxCalls
Nobody == 0

VARIABLES
  call,       \* the number of the current call
  main,       \* where it is: see MainPC
  guard,      \* per call: where its goroutine is
  timer,      \* per call: "none", "armed", "fired" (a value in timer.C), "stopped"
  closed,     \* closeNotify: "open", "closed" (a value in it), or "taken"
  interrupt   \* vm.Interrupt: the call whose goroutine filled it, or Nobody

vars == <<call, main, guard, timer, closed, interrupt>>

MainPC == {"idle", "convert", "script", "stop", "send", "error", "panicked"}
GuardPC == {"none", "select", "interrupt", "gone"}

TypeOK ==
  /\ call \in 0 .. MaxCalls
  /\ main \in MainPC
  /\ guard \in [Calls -> GuardPC]
  /\ timer \in [Calls -> {"none", "armed", "fired", "stopped"}]
  /\ closed \in {"open", "closed", "taken"}
  /\ interrupt \in {Nobody} \cup Calls

Init ==
  /\ call = 0
  /\ main = "idle"
  /\ guard = [n \in Calls |-> "none"]
  /\ timer = [n \in Calls |-> "none"]
  /\ closed = "open"
  /\ interrupt = Nobody

-----------------------------------------------------------------------------
(* The calling thread *)

\* A caller goes on to its next event only when the last call succeeded, or
\* tries its transaction again after an exception; both are main = "idle".
HandleEvent ==
  /\ main = "idle"
  /\ call < MaxCalls
  /\ call' = call + 1
  /\ main' = "convert"
  /\ timer' = [timer EXCEPT ![call + 1] = "armed"]
  /\ guard' = [guard EXCEPT ![call + 1] = "select"]
  /\ UNCHANGED <<closed, interrupt>>

\* vm.ToValue(context); an error ends the call here.
Convert ==
  /\ main = "convert"
  /\ main' \in {"script", "error"}
  /\ UNCHANGED <<call, guard, timer, closed, interrupt>>

\* vm.Call looks at vm.Interrupt: the function panics, and the deferred
\* function recovers from this call's own two errors only.
Interrupted ==
  /\ main = "script"
  /\ interrupt # Nobody
  /\ main' = IF interrupt = call THEN "error" ELSE "panicked"
  /\ interrupt' = Nobody
  /\ UNCHANGED <<call, guard, timer, closed>>

\* vm.Call returns, with a result or with an exception.
ScriptReturns ==
  /\ main = "script"
  /\ main' = "stop"
  /\ UNCHANGED <<call, guard, timer, closed, interrupt>>

\* timer.Stop does not take back a value the timer has sent.
StopTimer ==
  /\ main = "stop"
  /\ main' = "send"
  /\ timer' = [timer EXCEPT ![call] = IF @ = "armed" THEN "stopped" ELSE @]
  /\ UNCHANGED <<call, guard, closed, interrupt>>

\* Mutant: successCh has room for the value, so the send waits for nobody.
SendBuffered ==
  /\ main = "send"
  /\ main' \in {"idle", "error"}
  /\ guard' = [guard EXCEPT ![call] = IF @ = "select" THEN "gone" ELSE @]
  /\ UNCHANGED <<call, timer, closed, interrupt>>

\* successCh <- true needs the goroutine to receive it.  The call then returns
\* what the script returned.
SendSuccess ==
  /\ main = "send"
  /\ guard[call] = "select"
  /\ guard' = [guard EXCEPT ![call] = "gone"]
  /\ main' \in {"idle", "error"}
  /\ UNCHANGED <<call, timer, closed, interrupt>>

-----------------------------------------------------------------------------
(* The goroutine of call n *)

SelectTimer(n) ==
  /\ guard[n] = "select"
  /\ timer[n] = "fired"
  /\ timer' = [timer EXCEPT ![n] = "stopped"]
  /\ guard' = [guard EXCEPT ![n] = "interrupt"]
  /\ UNCHANGED <<call, main, closed, interrupt>>

SelectClosed(n) ==
  /\ guard[n] = "select"
  /\ closed = "closed"
  /\ closed' = "taken"
  /\ guard' = [guard EXCEPT ![n] = "interrupt"]
  /\ UNCHANGED <<call, main, timer, interrupt>>

\* Mutant: the goroutine ends without interrupting the VM.
GiveUpInterrupt(n) ==
  /\ guard[n] = "interrupt"
  /\ guard' = [guard EXCEPT ![n] = "gone"]
  /\ UNCHANGED <<call, main, timer, closed, interrupt>>

\* vm.Interrupt has room for one function.
SendInterrupt(n) ==
  /\ guard[n] = "interrupt"
  /\ interrupt = Nobody
  /\ interrupt' = n
  /\ guard' = [guard EXCEPT ![n] = "gone"]
  /\ UNCHANGED <<call, main, timer, closed>>

-----------------------------------------------------------------------------
(* The environment *)

TimerFires(n) ==
  /\ timer[n] = "armed"
  /\ timer' = [timer EXCEPT ![n] = "fired"]
  /\ UNCHANGED <<call, main, guard, closed, interrupt>>

Disconnect ==
  /\ HasClient
  /\ closed = "open"
  /\ closed' = "closed"
  /\ UNCHANGED <<call, main, guard, timer, interrupt>>

MainStep == Convert \/ StopTimer \/ SendSuccess
GuardStep(n) == SelectTimer(n) \/ SelectClosed(n) \/ SendInterrupt(n)

Next ==
  \/ HandleEvent \/ MainStep \/ Interrupted \/ ScriptReturns
  \/ \E n \in Calls : GuardStep(n) \/ TimerFires(n)
  \/ Disconnect

\* The threads run and timers fire; the VM looks at vm.Interrupt.  Nothing
\* makes a script return.
Fairness ==
  /\ WF_vars(MainStep)
  /\ WF_vars(Interrupted)
  /\ \A n \in Calls : WF_vars(GuardStep(n)) /\ WF_vars(TimerFires(n))

Spec == Init /\ [][Next]_vars /\ Fairness

-----------------------------------------------------------------------------
(* Properties *)

\* A call is never ended by an interrupt meant for another one: it would find
\* an error it does not know, and panic in the caller's thread.
OnlyOwnInterrupts == main # "panicked" /\ (interrupt # Nobody => interrupt = call)

\* A script does not run for ever, and its call returns: "calls only to ETCD and
\* extensions, both protected by timeouts" (path_watcher.go:176).  One case is left
\* in which it does not: the goroutine has taken the timer's or the client's branch
\* when the script had just ended, and nobody receives from successCh.
CallsReturn ==
  \A n \in Calls :
    (call = n) ~> \/ main \in {"idle", "error", "panicked"} \/ call > n
                  \/ main = "send" /\ guard[n] # "select"
=============================================================================
