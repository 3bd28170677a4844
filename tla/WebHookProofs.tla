----------------------------- MODULE WebHookProofs -----------------------------
(***************************************************************************)
(* A webhook call that has returned sends nothing any more, for any number *)
(* of goroutines and of webhooks each triggers, of applications with and   *)
(* without webhooks.                                                       *)
(***************************************************************************)
EXTENDS WebHook, TLAPS

\* A call that returned has cancelled its context, by its timeout or by the deferred
\* cancel of its caller.
ReturnedIsDone == \A h \in Hooks : result[h] # "none" => ctxDone[h]

\* A goroutine that waits has made a call.
WaitsInCall == \A g \in Goroutines : waits[g] => calls[g] # 0

HookInv == TypeOK /\ WaitsInCall /\ ReturnedIsDone

-------------------------------------------------------------------------------
\* The call a goroutine waits in is among its webhooks.
LEMMA CurrentIsHook ==
    ASSUME TypeOK, WaitsInCall, NEW g \in Goroutines, waits[g]
    PROVE  Current(g) \in Hooks
<1>1. calls[g] \in 0 .. MaxHooks /\ calls[g] # 0
  BY DEF TypeOK, WaitsInCall
<1>2. calls[g] \in 1 .. MaxHooks
  BY <1>1, WebHookAssumption, SMT
<1> QED
  BY <1>2 DEF Current, Hooks

\* The call it makes next is among them too.
LEMMA NextIsHook ==
    ASSUME TypeOK, NEW g \in Goroutines, calls[g] < MaxHooks
    PROVE  /\ <<g, calls[g] + 1>> \in Hooks
           /\ calls[g] + 1 \in 0 .. MaxHooks
           /\ calls[g] + 1 # 0
<1>1. calls[g] \in 0 .. MaxHooks
  BY DEF TypeOK
<1>2. calls[g] + 1 \in 1 .. MaxHooks
  BY <1>1, WebHookAssumption, SMT
<1> QED
  BY <1>2, WebHookAssumption, SMT DEF Hooks

\* The initial states satisfy the invariant.
LEMMA InvInit == Init => HookInv
<1> SUFFICES ASSUME Init PROVE HookInv
  OBVIOUS
<1>1. 0 \in 0 .. MaxHooks /\ 0 \in 0 .. 1
  BY WebHookAssumption, SMT
<1> QED
  BY <1>1 DEF Init, HookInv, TypeOK, WaitsInCall, ReturnedIsDone, WorkerPCs

\* Every step of a caller and of a worker keeps the invariant.
LEMMA InvStep == HookInv /\ [Next]_vars => HookInv'
<1> SUFFICES ASSUME HookInv, [Next]_vars PROVE HookInv'
  OBVIOUS
<1> USE DEF HookInv
<1>1. ASSUME NEW g \in Goroutines, Trigger(g) PROVE HookInv'
  <2> DEFINE h == <<g, calls[g] + 1>>
  <2>1. /\ h \in Hooks
        /\ calls[g] + 1 \in 0 .. MaxHooks
        /\ calls[g] + 1 # 0
    BY <1>1, NextIsHook DEF Trigger
  <2> HIDE DEF h
  <2>2. /\ calls' = [calls EXCEPT ![g] = calls[g] + 1]
        /\ sent' = sent
        /\ \/ /\ waits' = [waits EXCEPT ![g] = TRUE]
              /\ worker' = [worker EXCEPT ![h] = "build"]
              /\ UNCHANGED <<result, ctxDone>>
           \/ /\ result' = [result EXCEPT ![h] = "disabled"]
              /\ ctxDone' = [ctxDone EXCEPT ![h] = TRUE]
              /\ UNCHANGED <<waits, worker>>
    BY <1>1 DEF Trigger, Goto, h
  <2>3. TypeOK'
    BY <2>1, <2>2, Zenon DEF TypeOK, WorkerPCs
  <2>4. WaitsInCall'
    BY <2>1, <2>2, Zenon DEF TypeOK, WaitsInCall
  <2>5. ReturnedIsDone'
    BY <2>1, <2>2, Zenon DEF TypeOK, ReturnedIsDone
  <2> QED
    BY <2>3, <2>4, <2>5
<1>2. ASSUME NEW g \in Goroutines, Expire(g) PROVE HookInv'
  BY <1>2, CurrentIsHook, Zenon DEF Expire, TypeOK, WaitsInCall, ReturnedIsDone
<1>3. ASSUME NEW g \in Goroutines, TimedOut(g) PROVE HookInv'
  BY <1>3, CurrentIsHook, Zenon DEF TimedOut, Return, TypeOK, WaitsInCall, ReturnedIsDone
<1>4. ASSUME NEW g \in Goroutines, Done(g) PROVE HookInv'
  BY <1>4, CurrentIsHook, Zenon
     DEF Done, Return, Goto, TypeOK, WaitsInCall, ReturnedIsDone, WorkerPCs
<1>5. ASSUME NEW h \in Hooks, Build(h) PROVE HookInv'
  BY <1>5, Zenon DEF Build, Goto, TypeOK, WaitsInCall, ReturnedIsDone, WorkerPCs
<1>6. ASSUME NEW h \in Hooks, Send(h) PROVE HookInv'
  <2>1. 1 \in 0 .. 1
    BY SMT
  <2> QED
    BY <1>6, <2>1, Zenon DEF Send, TypeOK, WaitsInCall, ReturnedIsDone
<1>7. ASSUME NEW h \in Hooks, Answer(h) PROVE HookInv'
  BY <1>7, Zenon DEF Answer, Goto, TypeOK, WaitsInCall, ReturnedIsDone, WorkerPCs
<1>8. ASSUME NEW h \in Hooks, Fail(h) PROVE HookInv'
  BY <1>8, Zenon DEF Fail, Goto, TypeOK, WaitsInCall, ReturnedIsDone, WorkerPCs
<1>9. ASSUME NEW h \in Hooks, Signal(h) PROVE HookInv'
  BY <1>9, Zenon DEF Signal, Goto, TypeOK, WaitsInCall, ReturnedIsDone, WorkerPCs
<1>10. CASE UNCHANGED vars
  BY <1>10 DEF vars, TypeOK, WaitsInCall, ReturnedIsDone
<1> QED
  BY <1>1, <1>2, <1>3, <1>4, <1>5, <1>6, <1>7, <1>8, <1>9, <1>10 DEF Next

\* Only Send puts a request on the wire, and not one of a call that has returned.
LEMMA NoLateStep ==
    HookInv /\ [Next]_vars => \A h \in Hooks : result[h] # "none" => sent'[h] = sent[h]
<1> SUFFICES ASSUME HookInv, [Next]_vars, NEW h \in Hooks, result[h] # "none"
             PROVE  sent'[h] = sent[h]
  OBVIOUS
<1>1. ctxDone[h]
  BY DEF HookInv, ReturnedIsDone
<1>2. ASSUME NEW k \in Hooks, Send(k) PROVE sent'[h] = sent[h]
  <2>1. k # h
    BY <1>1, <1>2 DEF Send
  <2> QED
    BY <1>2, <2>1, Zenon DEF Send, HookInv, TypeOK
<1>3. CASE UNCHANGED sent
  BY <1>3
<1> QED
  BY <1>2, <1>3 DEF Next, vars, Trigger, Expire, TimedOut, Done, Build, Answer, Fail, Signal

-------------------------------------------------------------------------------
\* The invariant holds in every reachable state.
THEOREM Invariance == Spec => []HookInv
BY InvInit, InvStep, PTL DEF Spec

\* The variables of triggerHook's calls and workers keep their types; no worker sends
\* more than one request.
THEOREM CallsTypeCorrect == Spec => []TypeOK
BY Invariance, PTL DEF HookInv

\* A call that has returned sends no request any more: the worker of a webhook that
\* timed out never sends behind the next webhook of the same goroutine.
THEOREM NothingSentLate == Spec => NoLateRequest
BY Invariance, NoLateStep, PTL DEF Spec, NoLateRequest
===============================================================================
