------------------------------ MODULE GetCall -------------------------------
(***************************************************************************)
(* Client.Get (client/client.go): the primary phase on a goroutine of its  *)
(* own that outlives the wait for it, the decision whether anything else   *)
(* may be tried, the unverified walk over the gateways, and Close landing  *)
(* anywhere in between.                                                    *)
(*                                                                         *)
(* All calls write one output, the worst case and, with outputs named      *)
(* after their cid, the usual one. Acquiring a node is Lifecycle.tla's     *)
(* business and moving onto the output Replace.tla's; of them this module  *)
(* keeps the outcomes, and that publishing is a check of the context       *)
(* followed by a rename.                                                   *)
(***************************************************************************)
EXTENDS Naturals

CONSTANTS
    Calls,             \* calls of Get
    NoCall,
    GatewayCount       \* length of client.gateways

ASSUME NoCallIsNoCall == NoCall \notin Calls
ASSUME GatewayCountIsNatural == GatewayCount \in Nat

VARIABLES
    allowUnverified,  \* client.allowUnverified, whatever New was given
    closed,     \* client.closed, set with client.retired
    ctx,        \* the caller's context: live, or how it ended
    primary,    \* the context of the primary phase
    attempt,    \* the context of the gateway attempt under way
    at,         \* where each Get is
    worker,     \* where the goroutine getPrimary started is
    chan,       \* its result channel, which holds one
    err,        \* the failure of the primary phase
    next,       \* the gateway whose turn it is
    result,     \* what Get returned
    disk,       \* whose content is at the output, and how it was fetched
    late        \* auxiliary: attempts a call began after Close

client     == <<closed, allowUnverified>>
ctxVars    == <<ctx, primary, attempt>>
callerVars == <<at, err, next, result>>
workerVars == <<worker, chan>>
vars == <<client, ctxVars, callerVars, workerVars, disk, late>>

Errors == {"failed", "tooBig", "closed", "timeout", "canceled"}
Ended == {"deadline", "cancelled"}

\* What the output holds: the caller's own content, or a download's.
Contents == [of : Calls \cup {NoCall}, how : {"previous", "verified", "unverified"}]

Content(c, how) == [of |-> c, how |-> how]

TypeOK ==
    /\ allowUnverified \in BOOLEAN
    /\ closed \in BOOLEAN
    /\ ctx \in [Calls -> {"live"} \cup Ended]
    /\ primary \in [Calls -> {"live"} \cup Ended]
    /\ attempt \in [Calls -> {"none", "live", "done"}]
    /\ at \in [Calls -> {"idle", "awaiting", "deciding", "rechecking", "looping",
                         "beginning", "asking", "fetched", "placing",
                         "attempted", "returned"}]
    /\ worker \in [Calls -> {"none", "acquiring", "downloading", "staged",
                             "publishing", "published", "sent"}]
    /\ chan \in [Calls -> {"empty", "ok"} \cup Errors]
    /\ err \in [Calls -> {"none"} \cup Errors]
    /\ next \in [Calls -> 1..(GatewayCount + 1)]
    /\ result \in [Calls -> {"none", "ok", "joined"} \cup Errors]
    /\ disk \in Contents
    /\ late \in [Calls -> 0..GatewayCount]

Init ==
    /\ allowUnverified \in BOOLEAN
    /\ closed = FALSE
    /\ ctx = [c \in Calls |-> "live"]
    /\ primary = [c \in Calls |-> "live"]
    /\ attempt = [c \in Calls |-> "none"]
    /\ at = [c \in Calls |-> "idle"]
    /\ worker = [c \in Calls |-> "none"]
    /\ chan = [c \in Calls |-> "empty"]
    /\ err = [c \in Calls |-> "none"]
    /\ next = [c \in Calls |-> 1]
    /\ result = [c \in Calls |-> "none"]
    /\ disk = Content(NoCall, "previous")
    /\ late = [c \in Calls |-> 0]

-----------------------------------------------------------------------------
fallbackAvailable == allowUnverified /\ GatewayCount > 0

\* Failures no other source would answer differently.
conclusive(e) == e \in {"tooBig", "closed"}

\* contextError: a deadline reads "timeout", anything else is passed on.
contextError(how) == IF how = "deadline" THEN "timeout" ELSE "canceled"

isClosed == closed

Goto(c, where) == at' = [at EXCEPT ![c] = where]

\* Get returns, which cancels the context of the primary phase.
Return(c, r) ==
    /\ Goto(c, "returned")
    /\ result' = [result EXCEPT ![c] = r]
    /\ primary' = [primary EXCEPT ![c] = IF @ = "live" THEN "cancelled" ELSE @]

\* Get goes on.
Proceed(c, where) == Goto(c, where) /\ UNCHANGED <<result, primary>>

-----------------------------------------------------------------------------
\* The contexts.

\* The caller's context ends and what derives from it with it.
ContextEnds(c, how) ==
    /\ ctx[c] = "live"
    /\ at[c] # "returned"
    /\ ctx' = [ctx EXCEPT ![c] = how]
    /\ primary' = [primary EXCEPT ![c] = IF @ = "live" THEN how ELSE @]
    /\ attempt' = [attempt EXCEPT ![c] = IF @ = "live" THEN "done" ELSE @]
    /\ UNCHANGED <<client, callerVars, workerVars, disk, late>>

\* primaryDeadline bounds the primary phase when something could follow it.
PrimaryTimeout(c) ==
    /\ fallbackAvailable
    /\ at[c] # "idle"
    /\ primary[c] = "live"
    /\ primary' = [primary EXCEPT ![c] = "deadline"]
    /\ UNCHANGED <<client, ctx, attempt, callerVars, workerVars, disk, late>>

\* The step budget of an attempt, or the goroutine that cancels it after Close.
AttemptEnds(c) ==
    /\ attempt[c] = "live"
    /\ attempt' = [attempt EXCEPT ![c] = "done"]
    /\ UNCHANGED <<client, ctx, primary, callerVars, workerVars, disk, late>>

\* Close: from here on acquire and the gateway walk refuse. What it does to the
\* node is in Lifecycle.tla; a download on that node fails, or is past the point
\* where it needs one.
Close ==
    /\ ~closed
    /\ closed' = TRUE
    /\ UNCHANGED <<allowUnverified, ctxVars, callerVars, workerVars, disk, late>>

-----------------------------------------------------------------------------
\* The goroutine of the primary phase.

Get(c) ==
    /\ at[c] = "idle"
    /\ Goto(c, "awaiting")
    /\ worker' = [worker EXCEPT ![c] = "acquiring"]
    /\ UNCHANGED <<client, ctxVars, err, next, result, chan, disk, late>>

\* cid.Parse refuses what the caller passed.
InvalidCid(c) ==
    /\ at[c] = "idle"
    /\ Return(c, "failed")
    /\ UNCHANGED <<client, ctx, attempt, err, next, workerVars, disk, late>>

\* The result is sent: the channel has room, so the goroutine never blocks.
Send(c, e) ==
    /\ chan' = [chan EXCEPT ![c] = e]
    /\ worker' = [worker EXCEPT ![c] = "sent"]

Advance(c, to) == worker' = [worker EXCEPT ![c] = to] /\ UNCHANGED chan

Acquired(c) ==
    /\ worker[c] = "acquiring"
    /\ ~closed
    /\ Advance(c, "downloading")
    /\ UNCHANGED <<client, ctxVars, callerVars, disk, late>>

AcquireFails(c) ==
    /\ worker[c] = "acquiring"
    /\ \/ closed /\ Send(c, "closed")
       \/ primary[c] \in Ended /\ Send(c, contextError(primary[c]))
       \/ Send(c, "failed")
    /\ UNCHANGED <<client, ctxVars, callerVars, disk, late>>

\* The fetch of the blocks ends: everything staged, too big, or failed.
Fetched(c) ==
    /\ worker[c] = "downloading"
    /\ \/ Advance(c, "staged")
       \/ Send(c, "tooBig")
       \/ Send(c, "failed")
       \/ primary[c] \in Ended /\ Send(c, "canceled")
    /\ UNCHANGED <<client, ctxVars, callerVars, disk, late>>

\* Wrong variant: a download past its deadline is dropped without an error.
PublishCheckSilent(c) ==
    /\ worker[c] = "staged"
    /\ IF primary[c] \in Ended
         THEN Send(c, "ok")
         ELSE Advance(c, "publishing")
    /\ UNCHANGED <<client, ctxVars, callerVars, disk, late>>

\* Wrong variant: replace does not look at the context.
PublishUnchecked(c) ==
    /\ worker[c] = "staged"
    /\ Advance(c, "publishing")
    /\ UNCHANGED <<client, ctxVars, callerVars, disk, late>>

\* replace looks at the context ...
PublishCheck(c) ==
    /\ worker[c] = "staged"
    /\ IF primary[c] \in Ended
         THEN Send(c, contextError(primary[c]))
         ELSE Advance(c, "publishing")
    /\ UNCHANGED <<client, ctxVars, callerVars, disk, late>>

\* ... and renames, or the path is taken and it fails.
Publish(c) ==
    /\ worker[c] = "publishing"
    /\ \/ disk' = Content(c, "verified") /\ Advance(c, "published")
       \/ Send(c, "failed") /\ UNCHANGED disk
    /\ UNCHANGED <<client, ctxVars, callerVars, late>>

\* Staging is released and the success sent.
Report(c) ==
    /\ worker[c] = "published"
    /\ Send(c, "ok")
    /\ UNCHANGED <<client, ctxVars, callerVars, disk, late>>

-----------------------------------------------------------------------------
\* Get, once it waits.

PrimaryFailed(c, e) ==
    /\ err' = [err EXCEPT ![c] = e]
    /\ Proceed(c, "deciding")

\* Wrong variant: the wait is for the result alone.
AwaitResultOnly(c) ==
    /\ at[c] = "awaiting"
    /\ chan[c] # "empty"
    /\ IF chan[c] = "ok"
         THEN Return(c, "ok") /\ UNCHANGED err
         ELSE PrimaryFailed(c, chan[c])
    /\ UNCHANGED <<client, ctx, attempt, next, workerVars, disk, late>>

\* awaitDownload: a result, preferred to the deadline it may have come on, or
\* the deadline.
awaitDownload(c) ==
    /\ at[c] = "awaiting"
    /\ \/ /\ chan[c] = "ok"
          /\ Return(c, "ok")
          /\ UNCHANGED err
       \/ /\ chan[c] \in Errors
          /\ conclusive(chan[c]) \/ primary[c] = "live"
          /\ PrimaryFailed(c, chan[c])
       \/ /\ chan[c] # "ok" /\ ~conclusive(chan[c])
          /\ primary[c] \in Ended
          /\ PrimaryFailed(c, contextError(primary[c]))
    /\ UNCHANGED <<client, ctx, attempt, next, workerVars, disk, late>>

\* Wrong variant: a size limit does not end the retry chain.
DecideIgnoresSize(c) ==
    /\ at[c] = "deciding"
    /\ IF err[c] = "closed" \/ ctx[c] \in Ended \/ ~fallbackAvailable
         THEN Return(c, IF err[c] = "closed" \/ ctx[c] = "live"
                          THEN err[c] ELSE contextError(ctx[c]))
         ELSE Proceed(c, "rechecking")
    /\ UNCHANGED <<client, ctx, attempt, err, next, workerVars, disk, late>>

\* Whether anything else may be tried.
Decide(c) ==
    /\ at[c] = "deciding"
    /\ IF conclusive(err[c]) \/ ctx[c] \in Ended \/ ~fallbackAvailable
         THEN Return(c, IF conclusive(err[c]) \/ ctx[c] = "live"
                          THEN err[c] ELSE contextError(ctx[c]))
         ELSE Proceed(c, "rechecking")
    /\ UNCHANGED <<client, ctx, attempt, err, next, workerVars, disk, late>>

\* isClosed once more, after the time the primary phase took.
Recheck(c) ==
    /\ at[c] = "rechecking"
    /\ IF isClosed THEN Return(c, "closed") ELSE Proceed(c, "looping")
    /\ UNCHANGED <<client, ctx, attempt, err, next, workerVars, disk, late>>

-----------------------------------------------------------------------------
\* fetchFromGateways.

NextGateway(c) == next' = [next EXCEPT ![c] = @ + 1]

\* The head of the loop: closed, past the last gateway, or this one's host is
\* cooling down and skipped, which any host may be.
Loop(c) ==
    /\ at[c] = "looping"
    /\ \/ /\ next[c] > GatewayCount
          /\ Return(c, "joined")
          /\ UNCHANGED next
       \/ /\ next[c] <= GatewayCount
          /\ isClosed
          /\ Return(c, "closed")
          /\ UNCHANGED next
       \/ /\ next[c] <= GatewayCount
          /\ ~isClosed
          /\ \/ Proceed(c, "beginning") /\ UNCHANGED next
             \/ Proceed(c, "looping") /\ NextGateway(c)
    /\ UNCHANGED <<client, ctx, attempt, err, workerVars, disk, late>>

\* The context of the attempt, born done when the caller's is.
Begin(c) ==
    /\ at[c] = "beginning"
    /\ attempt' = [attempt EXCEPT ![c] = IF ctx[c] = "live" THEN "live" ELSE "done"]
    /\ late' = [late EXCEPT ![c] = IF closed THEN @ + 1 ELSE @]
    /\ Proceed(c, "asking")
    /\ UNCHANGED <<client, ctx, err, next, workerVars, disk>>

\* What follows a failed attempt: the end of the walk, or the next gateway. An
\* error that is not the last word is joined to the primary phase's.
AttemptFails(c, e) ==
    /\ attempt' = [attempt EXCEPT ![c] = "none"]
    /\ IF isClosed \/ e = "tooBig" \/ ctx[c] \in Ended
         THEN /\ Return(c, IF isClosed THEN "closed"
                           ELSE IF e = "tooBig" THEN e ELSE "joined")
              /\ UNCHANGED next
         ELSE Proceed(c, "looping") /\ NextGateway(c)

\* fetchFromGateway up to its staged archive. It fails by itself, or must once
\* its context is done.
Ask(c) ==
    /\ at[c] = "asking"
    /\ \/ /\ \E e \in {"failed", "tooBig"} : AttemptFails(c, e)
       \/ /\ attempt[c] = "live"
          /\ Proceed(c, "fetched")
          /\ UNCHANGED <<attempt, next>>
    /\ UNCHANGED <<client, ctx, err, workerVars, disk, late>>

\* replace again, under the attempt's context.
PlaceCheck(c) ==
    /\ at[c] = "fetched"
    /\ \/ attempt[c] = "done" /\ AttemptFails(c, "failed")
       \/ attempt[c] = "live" /\ Proceed(c, "placing") /\ UNCHANGED <<attempt, next>>
    /\ UNCHANGED <<client, ctx, err, workerVars, disk, late>>

Place(c) ==
    /\ at[c] = "placing"
    /\ \/ /\ disk' = Content(c, "unverified")
          /\ attempt' = [attempt EXCEPT ![c] = "none"]
          /\ Return(c, "ok")
          /\ UNCHANGED next
       \/ AttemptFails(c, "failed") /\ UNCHANGED disk
    /\ UNCHANGED <<client, ctx, err, workerVars, late>>

-----------------------------------------------------------------------------
getPrimary(c) ==
    \/ Acquired(c)
    \/ AcquireFails(c)
    \/ Fetched(c)
    \/ PublishCheck(c)
    \/ Publish(c)
    \/ Report(c)

fetchFromGateways(c) ==
    Loop(c) \/ Begin(c) \/ Ask(c) \/ PlaceCheck(c) \/ Place(c)

Next ==
    \/ \E c \in Calls :
        \/ Get(c)
        \/ InvalidCid(c)
        \/ getPrimary(c)
        \/ awaitDownload(c)
        \/ Decide(c)
        \/ Recheck(c)
        \/ fetchFromGateways(c)
        \/ \E how \in Ended : ContextEnds(c, how)
        \/ PrimaryTimeout(c)
        \/ AttemptEnds(c)
    \/ Close

Spec == Init /\ [][Next]_vars

\* The goroutine of the caller runs, timers fire, and an HTTP attempt whose
\* context is done ends. The primary goroutine is owed nothing: it may hang in
\* code that does not honour its context.
Fairness ==
    \A c \in Calls :
        /\ WF_vars(awaitDownload(c))
        /\ WF_vars(Decide(c))
        /\ WF_vars(Recheck(c))
        /\ WF_vars(Loop(c))
        /\ WF_vars(Begin(c))
        /\ WF_vars(attempt[c] = "done" /\ Ask(c))
        /\ WF_vars(PlaceCheck(c))
        /\ WF_vars(Place(c))
        /\ WF_vars(PrimaryTimeout(c))
        /\ WF_vars(AttemptEnds(c))

FairSpec == Spec /\ Fairness

-----------------------------------------------------------------------------
\* Properties.

\* Get succeeds only if its content went to the output: with one call the output
\* holds that content, verified unless the primary phase had failed.
SuccessIsPublished ==
    \A c \in Calls : result[c] = "ok" /\ Calls = {c} =>
        /\ disk.of = c
        /\ err[c] = "none" => disk = Content(c, "verified")

\* Unverified content is a last resort: it appears only with the caller's consent
\* and after a primary failure that another source could answer differently.
UnverifiedIsLastResort ==
    \A c \in Calls : disk = Content(c, "unverified") =>
        /\ fallbackAvailable
        /\ err[c] \notin {"none", "tooBig", "closed"}

\* "A Close landing mid-run should cost at most the attempt already in flight":
\* at most one attempt of a call begins after Close, the one past its check.
CloseStopsTheWalk == \A c \in Calls : late[c] <= 1

\* Failures that let other sources be tried.
Open == {"failed", "timeout", "canceled"}

\* At the gateways, and under way with one of them.
Attempting == {"beginning", "asking", "fetched", "placing"}
Walking == {"rechecking", "looping"} \cup Attempting

\* The walk is reached with consent and after a failure that is not conclusive, and
\* does not run past the last gateway.
WalkIsLastResort ==
    \A c \in Calls :
        /\ at[c] \in Walking => fallbackAvailable /\ err[c] \in Open
        /\ at[c] \in Attempting => next[c] <= GatewayCount
        /\ at[c] \in {"idle", "awaiting"} => err[c] = "none"
        /\ at[c] = "deciding" => err[c] # "none"
        /\ at[c] # "returned" => result[c] = "none"

\* Unverified content comes from a call that has returned with it.
UnverifiedIsReturned ==
    \A c \in Calls : disk = Content(c, "unverified") =>
        at[c] = "returned" /\ fallbackAvailable /\ err[c] \in Open

\* An attempt that began after Close is the last one.
LateIsLast ==
    \A c \in Calls :
        /\ late[c] \in 0..1
        /\ late[c] = 1 => closed /\ at[c] \in {"asking", "fetched", "placing", "returned"}

\* The context of the primary phase is over once Get has returned.
ReturnedIsCancelled == \A c \in Calls : at[c] = "returned" => primary[c] \in Ended

\* What the goroutine has published stays while the call can still take it for its
\* success.
PublishedStays ==
    \A c \in Calls : Calls = {c} =>
        /\ at[c] = "idle" => worker[c] = "none"
        /\ chan[c] # "empty" => worker[c] = "sent"
        /\ at[c] = "awaiting" /\ (worker[c] = "published" \/ chan[c] = "ok")
              => disk = Content(c, "verified")
        /\ result[c] = "ok" /\ err[c] = "none"
              => disk = Content(c, "verified") /\ worker[c] = "sent"
        /\ result[c] = "ok" => disk.of = c

\* What a caller may rely on whenever it looks: a success is on the output, and a
\* closed client is not walking its gateways. With what it takes to be inductive.
GetInv ==
    /\ TypeOK
    /\ SuccessIsPublished
    /\ CloseStopsTheWalk
    /\ WalkIsLastResort
    /\ UnverifiedIsReturned
    /\ LateIsLast
    /\ ReturnedIsCancelled
    /\ PublishedStays

\* A Get that has returned, for whatever reason, leaves nothing behind that begins
\* to publish: its goroutine may be anywhere, but only one already past replace's
\* look at the context still moves its content over what the caller has (Get gives
\* up on a running goroutine only with its context done, and replace refuses then).
NothingBeginsToPublish ==
    [][\A c \in Calls : at[c] = "returned" /\ worker[c] # "publishing"
                           => worker'[c] # "publishing"]_vars

\* Get returns although the primary phase hangs: with a fallback configured even
\* when the caller set no deadline, and without one when the caller's context ends.
GetReturns ==
    \A c \in Calls :
        (at[c] = "awaiting" /\ (fallbackAvailable \/ ctx[c] \in Ended)) ~> (at[c] = "returned")

-----------------------------------------------------------------------------
\* What comments and tests say and the code does not keep.

\* "A download abandoned at its deadline is reported as failed, so it must not
\* publish afterwards over whatever the caller kept."
FailureIsFinal ==
    [][\A c \in Calls :
        result[c] \notin {"none", "ok"} /\ disk' # disk => disk'.of # c]_vars

\* "Content already written and verified is worth more than the deadline it
\* arrived on": a call does not replace its verified content by unverified.
VerifiedIsKept ==
    [][\A c \in Calls : disk = Content(c, "verified") => disk' # Content(c, "unverified")]_vars

\* "Downloads still running are cancelled": once Close has retired the client
\* nothing is published any more.
NothingPublishedOnceClosed == [][closed => disk' = disk]_vars
=============================================================================
