----------------------------- MODULE Fallbacks -----------------------------
(***************************************************************************)
(* handleRequest and handleStreamRequest of core/bifrost.go: the primary   *)
(* provider is tried, then the configured fallbacks in order, each with    *)
(* the retry loop of KeyRotation on one shared context; and the stream     *)
(* that the caller then reads.                                             *)
(*                                                                         *)
(* Abstractions.  What tryRequest does before and after the worker (queue, *)
(* plugin hooks) is the set of answers it may give: the queue is           *)
(* ProviderQueue's subject.  A plugin may short-circuit, recover from an   *)
(* error or replace an answer.  The verdict of an answer is what           *)
(* shouldTryFallbacks and shouldContinueWithFallbacks look at: "stop" is   *)
(* an error of type RequestCancelled or with AllowFallbacks false.  When   *)
(* the caller's context ends while the worker is busy, the rest of the     *)
(* worker's loop is not followed.                                          *)
(***************************************************************************)
EXTENDS KeyRotation

CONSTANT NumFallbacks  \* length of the fallback list of the request

ASSUME FallbacksAssumption == NumFallbacks \in Nat

VARIABLES
    sealedReq,  \* the caller's request still holds what sealed says of this try's copy
    answers,    \* verdicts of the tries, with the fallback index of each
    skipped,    \* fallbacks without a provider config
    returned,   \* position in answers of what the caller gets, 0 before
    stream,     \* the provider's stream the caller reads
    reported    \* the terminal post-hooks of that stream have run

fallbackVars == <<sealedReq, answers, skipped, returned, stream, reported>>
vars == <<rotationVars, fallbackVars>>

Verdicts == {"ok", "error", "stop"}

Init ==
    /\ pc = "try"
    /\ streaming \in BOOLEAN /\ hasFilter \in BOOLEAN /\ session \in BOOLEAN
    /\ direct \in NamedKeys \cup {NoKey} /\ pinned \in NamedKeys \cup {NoKey}
    /\ fallbackIndex = 0
    /\ sealed \in BOOLEAN /\ sealedReq = sealed
    /\ trail = <<>> /\ selected = NoKey
    /\ connClosed = FALSE /\ streamEnd = FALSE
    /\ FreshLocals
    /\ answers = <<>> /\ skipped = {} /\ returned = 0
    /\ stream = "none" /\ reported = FALSE

\* tryRequest or tryStreamRequest returns verdict v.
Answer(v) ==
    /\ pc' = "answered"
    /\ answers' = Append(answers, [index |-> fallbackIndex, verdict |-> v])

\* The try ends before a worker sees it: no queue, a full or closing queue, a
\* short-circuit of a plugin, the end of the caller's context.
AnswerEarly(v) ==
    /\ pc = "try"
    /\ Answer(v)
    /\ UNCHANGED <<request, keyring, flags, loopVars, sealed, trail, selected, outcome,
                   sealedReq, skipped, returned, stream, reported>>

\* The message is in the queue and a worker takes it.
Enqueue ==
    /\ pc = "try"
    /\ pc' = "pool"
    /\ UNCHANGED <<request, keyring, flags, loopVars, sealed, trail, selected, outcome, fallbackVars>>

\* A step of the worker.  Stripping the primary's request changes the caller's
\* own one, unless a plugin has put a copy in its place.
WorkerStep ==
    /\ RotationNext
    /\ \/ UNCHANGED sealedReq
       \/ sealed # sealed' /\ fallbackIndex = 0 /\ sealedReq' = FALSE
    /\ UNCHANGED <<answers, skipped, returned, stream, reported>>

\* The caller's context ends first (newBifrostCtxDoneError forbids fallbacks).
CallerLeaves ==
    /\ pc \in {"pool", "loop", "call", "drain"}
    /\ Answer("stop")
    /\ UNCHANGED <<request, keyring, flags, loopVars, sealed, trail, selected, outcome,
                   sealedReq, skipped, returned, stream, reported>>

\* A stream goes to the caller as it is; its post-hooks run per chunk.  The provider
\* has no goroutine left behind an empty one.
AnswerStream ==
    /\ pc = "done"
    /\ streaming /\ outcome = "ok"
    /\ Answer("ok")
    /\ stream' \in {"open", "none"}
    /\ UNCHANGED <<request, keyring, flags, loopVars, sealed, trail, selected, outcome,
                   sealedReq, skipped, returned, reported>>

\* RunPostLLMHooks on a response or an error: plugins may turn it into any verdict.
\* On a stream's error it is marked as the final chunk.
AnswerAfterHooks(v) ==
    /\ pc = "done"
    /\ ~(streaming /\ outcome = "ok")
    /\ Answer(v)
    /\ streamEnd' = (streamEnd \/ streaming)
    /\ UNCHANGED <<request, keyring, connClosed, loopVars, sealed, trail, selected, outcome,
                   sealedReq, skipped, returned, stream, reported>>

-----------------------------------------------------------------------------
LastVerdict == answers[Len(answers)].verdict

Return(a) ==
    /\ pc' = "returned" /\ returned' = a
    /\ UNCHANGED <<request, keyring, flags, loopVars, sealed, trail, selected, outcome,
                   sealedReq, answers, skipped, stream, reported>>

\* Mutants: an error that forbids fallbacks is not returned; the last error is
\* returned for the primary's; the trail of the failed try is kept.
ReturnAnswer_OkOnly == pc = "answered" /\ LastVerdict = "ok" /\ Return(Len(answers))

ReturnPrimary_Last ==
    /\ pc = "answered"
    /\ LastVerdict = "error"
    /\ fallbackIndex = NumFallbacks
    /\ Return(Len(answers))

\* shouldTryFallbacks on the primary's answer and, for a fallback's,
\* shouldContinueWithFallbacks.
ReturnAnswer ==
    /\ pc = "answered"
    /\ LastVerdict \in {"ok", "stop"}
    /\ Return(Len(answers))

\* All fallbacks failed, or there are none: the primary error.
ReturnPrimary ==
    /\ pc = "answered"
    /\ LastVerdict = "error"
    /\ fallbackIndex = NumFallbacks
    /\ Return(1)

\* The next fallback with keptTrail on its context.  prepareFallbackRequest skips a
\* provider that has no config.
PrepareFallback(skip, keptTrail) ==
    /\ pc = "answered"
    /\ LastVerdict = "error"
    /\ fallbackIndex' = fallbackIndex + 1
    /\ pinned' = NoKey /\ trail' = keptTrail
    /\ streamEnd' = FALSE /\ connClosed' = FALSE
    /\ IF skip THEN skipped' = skipped \cup {fallbackIndex + 1} /\ pc' = "answered" /\ sealed' = sealed
               ELSE skipped' = skipped /\ pc' = "try" /\ sealed' = sealedReq
    /\ DropLocals
    /\ UNCHANGED <<streaming, hasFilter, direct, session, selected,
                   sealedReq, answers, returned, stream, reported>>

NextFallback_KeepsTrail(skip) == fallbackIndex < NumFallbacks /\ PrepareFallback(skip, trail)

\* clearCtxForFallback has removed the trail of the failed try.
NextFallback(skip) == fallbackIndex < NumFallbacks /\ PrepareFallback(skip, <<>>)

-----------------------------------------------------------------------------
(* The stream in the caller's hands *)

\* The final chunk: the indicator is set and the post-hooks see the end.
StreamEnds ==
    /\ stream = "open"
    /\ stream' = "ended" /\ streamEnd' = TRUE /\ reported' = TRUE
    /\ UNCHANGED <<pc, request, keyring, connClosed, loopVars, sealed, trail, selected, outcome,
                   sealedReq, answers, skipped, returned>>

\* The caller disconnects: HandleStreamCancellation reports it, unless the
\* indicator says the end was handled.
StreamCancelled ==
    /\ stream = "open"
    /\ stream' = "cut" /\ streamEnd' = TRUE
    /\ reported' = ~streamEnd
    /\ UNCHANGED <<pc, request, keyring, connClosed, loopVars, sealed, trail, selected, outcome,
                   sealedReq, answers, skipped, returned>>

-----------------------------------------------------------------------------
Try == Enqueue \/ AnswerStream \/ \E v \in Verdicts : AnswerEarly(v) \/ AnswerAfterHooks(v)

Orchestrate == ReturnAnswer \/ ReturnPrimary \/ \E skip \in BOOLEAN : NextFallback(skip)

Next == Try \/ WorkerStep \/ CallerLeaves \/ Orchestrate \/ StreamEnds \/ StreamCancelled

Spec == Init /\ [][Next]_vars

\* Goroutines that can run do run, and a provider call returns: every HTTP client
\* has a timeout.
FairSpec == Spec /\ WF_vars(Try \/ WorkerStep \/ Orchestrate)

-----------------------------------------------------------------------------
(* Properties *)

TypeOK ==
    /\ RotationTypeOK
    /\ fallbackIndex <= NumFallbacks
    /\ sealedReq \in BOOLEAN
    /\ answers \in Seq([index : 0..NumFallbacks, verdict : Verdicts])
    /\ skipped \in SUBSET (1..NumFallbacks)
    /\ returned \in Nat
    /\ stream \in {"none", "open", "ended", "cut"} /\ reported \in BOOLEAN

(* The caller gets the right answer: the first success or the first error  *)
(* that forbids going on, and nothing is tried after it; otherwise every   *)
(* configured fallback was tried, in order and once, and the answer is the *)
(* primary's error.                                                        *)
RightAnswer ==
    LET decisive == {a \in 1..Len(answers) : answers[a].verdict # "error"}
        tried == {answers[a].index : a \in 1..Len(answers)}
    IN  /\ decisive \subseteq {Len(answers)}
        /\ \A a, b \in 1..Len(answers) : a < b => answers[a].index < answers[b].index
        /\ pc = "returned" =>
             IF decisive # {} THEN returned \in decisive
             ELSE returned = 1 /\ tried = (0..NumFallbacks) \ skipped

(* The trail that a caller or a plugin reads once the request returned     *)
(* belongs to the last try, never to an earlier one: a trail left behind   *)
(* would blame a key of another provider.                                  *)
TrailOfLastTry ==
    pc = "returned" /\ trail # <<>> =>
        /\ answers[Len(answers)].index = fallbackIndex
        /\ mode # "none"
        /\ \A i \in 1..Len(trail) : trail[i].key \in pool

\* What the answers hold while the chain goes on.
Pending == pc \notin {"answered", "returned"}

(* The inductive invariant behind RightAnswer: the answers and the skipped *)
(* fallbacks account for every place of the chain that handleRequest has   *)
(* passed, in order, and only the last answer can have ended it.           *)
ChainInv ==
    LET n == Len(answers)
    IN  /\ \A a \in 1..n : a < n \/ Pending => answers[a].verdict = "error"
        /\ \A a, b \in 1..n : a < b => answers[a].index < answers[b].index
        /\ \A a \in 1..n : /\ answers[a].index \in (0..fallbackIndex) \ skipped
                           /\ Pending => answers[a].index # fallbackIndex
        /\ \A i \in (0..fallbackIndex) \ skipped :
              (Pending /\ i = fallbackIndex) \/ \E a \in 1..n : answers[a].index = i
        /\ skipped \subseteq 1..fallbackIndex
        /\ Pending => fallbackIndex \notin skipped
        /\ ~Pending => n > 0
        /\ pc = "returned" =>
              IF answers[n].verdict = "error" THEN returned = 1 /\ fallbackIndex = NumFallbacks
              ELSE returned = n

(* Every request returns to its caller.                                    *)
RequestReturns == <>(pc = "returned")
=============================================================================
