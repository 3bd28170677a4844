-------------------------------- MODULE WebHook --------------------------------
(***************************************************************************)
(* triggerHook (app/webhooks.go): a goroutine that triggers a webhook      *)
(* waits for a worker goroutine or for a context that expires after        *)
(* maxTimeout, and goes on to its next webhook, whatever became of the     *)
(* worker.                                                                 *)
(*                                                                         *)
(* The receiver of the webhooks is the environment: it gets a request at   *)
(* some time after it has been sent, and may answer or not.                *)
(***************************************************************************)
EXTENDS Naturals

CONSTANTS
    Goroutines,     \* goroutines of the program that trigger webhooks
    MaxHooks,       \* bound: webhooks a goroutine triggers
    WebHooks        \* Application.WebHooks, of the application each works for

ASSUME WebHookAssumption == MaxHooks \in Nat /\ WebHooks \in [Goroutines -> BOOLEAN]

VARIABLES
    calls,          \* calls[g]: how many calls g has made
    waits,          \* whether g is in the select of its last call
    result,         \* result[g][n]: what the n-th call of g returned
    ctxDone,        \* ctxDone[g][n]: the context of that call is cancelled
    worker,         \* worker[g][n]: where its worker goroutine is
    sent            \* sent[g][n]: how many requests it has put on the wire

vars == <<calls, waits, result, ctxDone, worker, sent>>

Hooks == Goroutines \X (1 .. MaxHooks)

WorkerPCs == {"none", "build", "post", "answered", "failed", "signal", "ended"}

TypeOK ==
    /\ calls \in [Goroutines -> 0 .. MaxHooks]
    /\ waits \in [Goroutines -> BOOLEAN]
    /\ result \in [Hooks -> {"none", "disabled", "nil", "timeout"}]
    /\ ctxDone \in [Hooks -> BOOLEAN]
    /\ worker \in [Hooks -> WorkerPCs]
    /\ sent \in [Hooks -> 0 .. 1]

Init ==
    /\ calls = [g \in Goroutines |-> 0]
    /\ waits = [g \in Goroutines |-> FALSE]
    /\ result = [h \in Hooks |-> "none"]
    /\ ctxDone = [h \in Hooks |-> FALSE]
    /\ worker = [h \in Hooks |-> "none"]
    /\ sent = [h \in Hooks |-> 0]

Goto(h, label) == worker' = [worker EXCEPT ![h] = label]

\* The call a goroutine waits in.
Current(g) == <<g, calls[g]>>

-------------------------------------------------------------------------------
(* The caller.                                                              *)

Trigger(g) ==
    LET h == <<g, calls[g] + 1>>
    IN  /\ ~waits[g]
        /\ calls[g] < MaxHooks
        /\ calls' = [calls EXCEPT ![g] = @ + 1]
        /\ IF WebHooks[g]
             THEN /\ waits' = [waits EXCEPT ![g] = TRUE]
                  /\ Goto(h, "build")
                  /\ UNCHANGED <<result, ctxDone>>
             ELSE /\ result' = [result EXCEPT ![h] = "disabled"]
                  /\ ctxDone' = [ctxDone EXCEPT ![h] = TRUE]
                  /\ UNCHANGED <<waits, worker>>
        /\ UNCHANGED sent

\* The return of triggerHook, and the deferred cancel of its caller.
Return(g, value) ==
    /\ waits' = [waits EXCEPT ![g] = FALSE]
    /\ result' = [result EXCEPT ![Current(g)] = value]
    /\ ctxDone' = [ctxDone EXCEPT ![Current(g)] = TRUE]

\* Mutant: the context has no deadline, a worker that is still busy must end first.
ExpireAfterWorker(g) ==
    /\ waits[g]
    /\ worker[Current(g)] = "signal"
    /\ ctxDone' = [ctxDone EXCEPT ![Current(g)] = TRUE]
    /\ UNCHANGED <<calls, waits, result, worker, sent>>

\* maxTimeout passes.
Expire(g) ==
    /\ waits[g]
    /\ ctxDone' = [ctxDone EXCEPT ![Current(g)] = TRUE]
    /\ UNCHANGED <<calls, waits, result, worker, sent>>

TimedOut(g) ==
    /\ waits[g]
    /\ ctxDone[Current(g)]
    /\ Return(g, "timeout")
    /\ UNCHANGED <<calls, worker, sent>>

\* done has no buffer: caller and worker meet.
Done(g) ==
    /\ waits[g]
    /\ worker[Current(g)] = "signal"
    /\ Return(g, "nil")
    /\ Goto(Current(g), "ended")
    /\ UNCHANGED <<calls, sent>>

-------------------------------------------------------------------------------
(* The worker.                                                              *)

\* A marshalling or a request error ends the worker, and nothing is put on done.
Build(h) ==
    /\ worker[h] = "build"
    /\ Goto(h, "post") \/ Goto(h, "ended")
    /\ UNCHANGED <<calls, waits, result, ctxDone, sent>>

\* http.Client.Do.  The request is put on the wire unless the context is done.
\* Mutants: the request is sent again while it is not answered; the request does not
\* carry the context, here and in Fail.
SendAgain(h) ==
    /\ worker[h] = "post"
    /\ ~ctxDone[h]
    /\ sent' = [sent EXCEPT ![h] = @ + 1]
    /\ UNCHANGED <<calls, waits, result, ctxDone, worker>>

SendWithoutContext(h) ==
    /\ worker[h] = "post"
    /\ sent[h] = 0
    /\ sent' = [sent EXCEPT ![h] = 1]
    /\ UNCHANGED <<calls, waits, result, ctxDone, worker>>

Send(h) ==
    /\ worker[h] = "post"
    /\ ~ctxDone[h]
    /\ sent[h] = 0
    /\ sent' = [sent EXCEPT ![h] = 1]
    /\ UNCHANGED <<calls, waits, result, ctxDone, worker>>

Answer(h) ==
    /\ worker[h] = "post"
    /\ sent[h] = 1
    /\ Goto(h, "answered")
    /\ UNCHANGED <<calls, waits, result, ctxDone, sent>>

FailWithoutContext(h) ==
    /\ worker[h] = "post"
    /\ ~ctxDone[h]
    /\ Goto(h, "failed")
    /\ UNCHANGED <<calls, waits, result, ctxDone, sent>>

\* A network error at any time, or the error of a context that is done.
Fail(h) ==
    /\ worker[h] = "post"
    /\ Goto(h, "failed")
    /\ UNCHANGED <<calls, waits, result, ctxDone, sent>>

\* Both outcomes are logged and signalled.
Signal(h) ==
    /\ worker[h] \in {"answered", "failed"}
    /\ Goto(h, "signal")
    /\ UNCHANGED <<calls, waits, result, ctxDone, sent>>

-------------------------------------------------------------------------------
Next ==
    \/ \E g \in Goroutines : Trigger(g) \/ Expire(g) \/ TimedOut(g) \/ Done(g)
    \/ \E h \in Hooks : Build(h) \/ Send(h) \/ Answer(h) \/ Fail(h) \/ Signal(h)

Spec == Init /\ [][Next]_vars

\* Goroutines run, timers fire, and a request ends when its context is done.  The
\* receiver need not answer.
FairSpec ==
    /\ Spec
    /\ \A g \in Goroutines : WF_vars(Expire(g)) /\ WF_vars(TimedOut(g) \/ Done(g))
    /\ \A h \in Hooks : WF_vars(Build(h)) /\ WF_vars(Signal(h)) /\ WF_vars(ctxDone[h] /\ Fail(h))

-------------------------------------------------------------------------------
(* Properties.                                                              *)

\* A call that has returned sends no request any more, so a receiver is never sent
\* an older webhook of a goroutine after a newer one (the timeout of the first racing
\* its slow worker).
NoLateRequest == [][\A h \in Hooks : result[h] # "none" => sent'[h] = sent[h]]_vars

\* triggerHook returns, also when its worker gives up without a word or the receiver
\* never answers.
CallsReturn == \A g \in Goroutines : waits[g] ~> ~waits[g]

\* A worker ends, or it is stuck on done and its caller had timed out.
WorkersEndOrTimedOut ==
    \A h \in Hooks : worker[h] = "build" ~>
        worker[h] = "ended" \/ (worker[h] = "signal" /\ result[h] = "timeout")

\* webhooks.go:216: at its signal a worker has "Successfully terminated".
WorkersTerminate == \A h \in Hooks : worker[h] = "signal" ~> worker[h] = "ended"
===============================================================================
