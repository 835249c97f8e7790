-------------------------------- MODULE CApi --------------------------------
(***************************************************************************)
(* The C ABI (csa_capi.cpp) and how a binding calls it (bindings/python):  *)
(* a function returns a buffer, and its caller asks in a second call       *)
(* whether an empty one is an error. Python lets other threads run between *)
(* the two.                                                                *)
(***************************************************************************)
EXTENDS Naturals

CONSTANT Threads

VARIABLES
  lastError,  \* g_last_error of each thread, "" when clear
  call,       \* what each thread's call did and returned
  heap        \* buffers handed out and not freed

vars == <<lastError, call, heap>>

\* What the library did: it may throw, or have its result and no memory for a copy.
Outcomes == {"ok", "empty", "throws", "no_memory"}
NoCall == [did |-> "nothing", data |-> FALSE, result |-> ""]

Init ==
  /\ lastError = [t \in Threads |-> ""]
  /\ call = [t \in Threads |-> NoCall]
  /\ heap = 0

\* make_buffer and make_int32_buffer: without memory the buffer is empty, and no error.
MakeBuffer(t, data) ==
  /\ lastError' = [lastError EXCEPT ![t] = ""]
  /\ heap' = heap + IF data THEN 1 ELSE 0

\* Faulty variant: the last error is that of any thread.
FailShared(t) ==
  /\ lastError' = [u \in Threads |-> "error"]
  /\ UNCHANGED heap

Fail(t) ==
  /\ lastError' = [lastError EXCEPT ![t] = "error"]
  /\ UNCHANGED heap

\* Any function of the ABI, to where it returns.
Call(t, outcome) ==
  /\ call[t] = NoCall
  /\ IF outcome = "throws" THEN Fail(t) ELSE MakeBuffer(t, outcome = "ok")
  /\ call' = [call EXCEPT ![t] = [did |-> outcome, data |-> outcome = "ok", result |-> ""]]

\* The functions the bridge calls, which find at least one pose.
CompressPose(t, outcome) == outcome # "empty" /\ Call(t, outcome)
DecompressPose(t, outcome) == outcome # "empty" /\ Call(t, outcome)

\* _check_and_extract
Extract(t) ==
  /\ call[t].did # "nothing" /\ call[t].result = ""
  /\ call' = [call EXCEPT ![t].result = IF call[t].data THEN "bytes"
                                        ELSE IF lastError[t] # "" THEN "CsaError"
                                        ELSE "no bytes"]
  /\ heap' = heap - IF call[t].data THEN 1 ELSE 0
  /\ UNCHANGED lastError

Return(t) ==
  /\ call[t].result # ""
  /\ call' = [call EXCEPT ![t] = NoCall]
  /\ UNCHANGED <<lastError, heap>>

\* A caller is told of an error if its own call had one, whatever other threads call
\* in between, and a buffer that was handed out is the one of a call not yet extracted.
CallerSeesOwnError ==
  /\ \A t \in Threads : call[t].result # "" =>
       (call[t].result = "CsaError" <=> call[t].did = "throws")
  /\ heap = 0 <=> \A t \in Threads : call[t].data => call[t].result # ""
=============================================================================
