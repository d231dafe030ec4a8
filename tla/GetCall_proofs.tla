--------------------------- MODULE GetCall_proofs ---------------------------
(***************************************************************************)
(* Proofs about GetCall for any number of calls and gateways: what a       *)
(* success means, when unverified content may appear, that Close ends the  *)
(* walk over the gateways and that a Get that has returned begins nothing. *)
(*                                                                         *)
(* GetInv is inductive. One lemma per conjunct shows that every step keeps *)
(* it, with one case per action; the conjuncts CloseStopsTheWalk and       *)
(* SuccessIsPublished follow from LateIsLast and PublishedStays.           *)
(***************************************************************************)
EXTENDS GetCall, TLAPS

\* What New and a Get that has not begun leave satisfies the invariant.
LEMMA InitEstablishesGetInv == Init => GetInv
<1>. SUFFICES ASSUME Init PROVE GetInv
    OBVIOUS
<1>. USE GatewayCountIsNatural DEF Init
<1>1. disk \in Contents /\ \A c \in Calls : ~ (disk = Content(c, "unverified"))
    BY DEF Contents, Content
<1>2. next \in [Calls -> 1..(GatewayCount + 1)] /\ late \in [Calls -> 0..GatewayCount]
    OBVIOUS
<1>3. TypeOK
    BY <1>1, <1>2 DEF TypeOK, Ended, Errors
<1>4. WalkIsLastResort
    BY DEF WalkIsLastResort, Walking, Attempting
<1>5. UnverifiedIsReturned
    BY <1>1 DEF UnverifiedIsReturned
<1>6. LateIsLast /\ CloseStopsTheWalk
    BY DEF LateIsLast, CloseStopsTheWalk
<1>7. ReturnedIsCancelled
    BY DEF ReturnedIsCancelled
<1>8. PublishedStays
    BY DEF PublishedStays
<1>9. SuccessIsPublished
    BY DEF SuccessIsPublished
<1>. QED
    BY <1>3, <1>4, <1>5, <1>6, <1>7, <1>8, <1>9 DEF GetInv

\* The step of the type invariant: the walk stays within the gateways and a call
\* begins at most one attempt after Close, so next and late keep their ranges.
LEMMA TypeOKStep == GetInv /\ [Next]_vars => TypeOK'
<1>. SUFFICES ASSUME GetInv, [Next]_vars PROVE TypeOK'
    OBVIOUS
<1>. USE NoCallIsNoCall, GatewayCountIsNatural
     DEF GetInv, TypeOK, Contents, WalkIsLastResort, LateIsLast, Attempting, vars,
         client, ctxVars, callerVars, workerVars,
         Errors, Ended, Content, Goto, Return, Proceed, contextError, conclusive, isClosed,
         fallbackAvailable, Send, Advance, NextGateway, AttemptFails, PrimaryFailed
<1>1. CASE \E c \in Calls : Get(c)
    BY <1>1 DEF Get
<1>2. CASE \E c \in Calls : InvalidCid(c)
    BY <1>2 DEF InvalidCid
<1>3. CASE \E c \in Calls : Acquired(c)
    BY <1>3 DEF Acquired
<1>4. CASE \E c \in Calls : AcquireFails(c)
    BY <1>4 DEF AcquireFails
<1>5. CASE \E c \in Calls : Fetched(c)
    BY <1>5 DEF Fetched
<1>6. CASE \E c \in Calls : PublishCheck(c)
    BY <1>6 DEF PublishCheck
<1>7. CASE \E c \in Calls : Publish(c)
    BY <1>7 DEF Publish
<1>8. CASE \E c \in Calls : Report(c)
    BY <1>8 DEF Report
<1>9. CASE \E c \in Calls : awaitDownload(c)
    BY <1>9 DEF awaitDownload
<1>10. CASE \E c \in Calls : Decide(c)
    BY <1>10 DEF Decide
<1>11. CASE \E c \in Calls : Recheck(c)
    BY <1>11 DEF Recheck
<1>12. CASE \E c \in Calls : Loop(c)
    BY <1>12 DEF Loop
<1>13. ASSUME NEW c \in Calls, Begin(c) PROVE TypeOK'
    <2>1. next[c] \in 1..GatewayCount
        BY <1>13 DEF Begin
    <2>2. late[c] = 0 /\ GatewayCount > 0
        BY <1>13, <2>1 DEF Begin
    <2>3. late' \in [Calls -> 0..GatewayCount]
        BY <1>13, <2>2 DEF Begin
    <2>4. attempt' \in [Calls -> {"none", "live", "done"}]
        BY <1>13 DEF Begin
    <2>. QED BY <1>13, <2>3, <2>4 DEF Begin
<1>14. ASSUME NEW c \in Calls, Ask(c) PROVE TypeOK'
    <2>1. next[c] \in 1..GatewayCount
        BY <1>14 DEF Ask
    <2>2. (next[c] + 1) \in 1..(GatewayCount + 1)
        BY <2>1
    <2>3. next' \in [Calls -> 1..(GatewayCount + 1)]
        BY <1>14, <2>2 DEF Ask
    <2>4. attempt' \in [Calls -> {"none", "live", "done"}]
        BY <1>14 DEF Ask
    <2>5. at' \in [Calls -> {"idle", "awaiting", "deciding", "rechecking", "looping",
                         "beginning", "asking", "fetched", "placing",
                         "attempted", "returned"}]
        BY <1>14 DEF Ask
    <2>6. /\ result' \in [Calls -> {"none", "ok", "joined"} \cup Errors]
          /\ primary' \in [Calls -> {"live"} \cup Ended]
        BY <1>14 DEF Ask
    <2>. QED BY <1>14, <2>3, <2>4, <2>5, <2>6 DEF Ask
<1>15. ASSUME NEW c \in Calls, PlaceCheck(c) PROVE TypeOK'
    <2>1. next[c] \in 1..GatewayCount
        BY <1>15 DEF PlaceCheck
    <2>2. (next[c] + 1) \in 1..(GatewayCount + 1)
        BY <2>1
    <2>3. next' \in [Calls -> 1..(GatewayCount + 1)]
        BY <1>15, <2>2 DEF PlaceCheck
    <2>4. attempt' \in [Calls -> {"none", "live", "done"}]
        BY <1>15 DEF PlaceCheck
    <2>5. at' \in [Calls -> {"idle", "awaiting", "deciding", "rechecking", "looping",
                         "beginning", "asking", "fetched", "placing",
                         "attempted", "returned"}]
        BY <1>15 DEF PlaceCheck
    <2>6. /\ result' \in [Calls -> {"none", "ok", "joined"} \cup Errors]
          /\ primary' \in [Calls -> {"live"} \cup Ended]
        BY <1>15 DEF PlaceCheck
    <2>. QED BY <1>15, <2>3, <2>4, <2>5, <2>6 DEF PlaceCheck
<1>16. ASSUME NEW c \in Calls, Place(c) PROVE TypeOK'
    <2>1. next[c] \in 1..GatewayCount
        BY <1>16 DEF Place
    <2>2. (next[c] + 1) \in 1..(GatewayCount + 1)
        BY <2>1
    <2>3. next' \in [Calls -> 1..(GatewayCount + 1)]
        BY <1>16, <2>2 DEF Place
    <2>4. attempt' \in [Calls -> {"none", "live", "done"}]
        BY <1>16 DEF Place
    <2>5. at' \in [Calls -> {"idle", "awaiting", "deciding", "rechecking", "looping",
                         "beginning", "asking", "fetched", "placing",
                         "attempted", "returned"}]
        BY <1>16 DEF Place
    <2>6. /\ result' \in [Calls -> {"none", "ok", "joined"} \cup Errors]
          /\ primary' \in [Calls -> {"live"} \cup Ended]
        BY <1>16 DEF Place
    <2>. QED BY <1>16, <2>3, <2>4, <2>5, <2>6 DEF Place
<1>17. CASE \E c \in Calls, how \in Ended : ContextEnds(c, how)
    BY <1>17 DEF ContextEnds
<1>18. CASE \E c \in Calls : PrimaryTimeout(c)
    BY <1>18 DEF PrimaryTimeout
<1>19. CASE \E c \in Calls : AttemptEnds(c)
    BY <1>19 DEF AttemptEnds
<1>20. CASE Close
    BY <1>20 DEF Close
<1>21. CASE UNCHANGED vars
    BY <1>21
<1>. QED
    BY <1>1, <1>2, <1>3, <1>4, <1>5, <1>6, <1>7, <1>8, <1>9, <1>10, <1>11, <1>12,
       <1>13, <1>14, <1>15, <1>16, <1>17, <1>18, <1>19, <1>20, <1>21 DEF Next,
       getPrimary, fetchFromGateways

\* The step of WalkIsLastResort: consent and the failure are looked at before the
\* walk and neither changes on it.
LEMMA WalkIsLastResortStep == GetInv /\ [Next]_vars => WalkIsLastResort'
<1>. SUFFICES ASSUME GetInv, [Next]_vars PROVE WalkIsLastResort'
    OBVIOUS
<1>. USE NoCallIsNoCall, GatewayCountIsNatural
     DEF GetInv, TypeOK, WalkIsLastResort, Open, Attempting, Walking, vars, client,
         ctxVars, callerVars, workerVars,
         Errors, Ended, Content, Goto, Return, Proceed, contextError, conclusive, isClosed,
         fallbackAvailable, Send, Advance, NextGateway, AttemptFails, PrimaryFailed
<1>1. CASE \E c \in Calls : Get(c)
    BY <1>1 DEF Get
<1>2. CASE \E c \in Calls : InvalidCid(c)
    BY <1>2 DEF InvalidCid
<1>3. CASE \E c \in Calls : Acquired(c)
    BY <1>3 DEF Acquired
<1>4. CASE \E c \in Calls : AcquireFails(c)
    BY <1>4 DEF AcquireFails
<1>5. CASE \E c \in Calls : Fetched(c)
    BY <1>5 DEF Fetched
<1>6. CASE \E c \in Calls : PublishCheck(c)
    BY <1>6 DEF PublishCheck
<1>7. CASE \E c \in Calls : Publish(c)
    BY <1>7 DEF Publish
<1>8. CASE \E c \in Calls : Report(c)
    BY <1>8 DEF Report
<1>9. CASE \E c \in Calls : awaitDownload(c)
    BY <1>9 DEF awaitDownload
<1>10. CASE \E c \in Calls : Decide(c)
    BY <1>10 DEF Decide
<1>11. CASE \E c \in Calls : Recheck(c)
    BY <1>11 DEF Recheck
<1>12. CASE \E c \in Calls : Loop(c)
    BY <1>12 DEF Loop
<1>13. CASE \E c \in Calls : Begin(c)
    BY <1>13 DEF Begin
<1>14. CASE \E c \in Calls : Ask(c)
    BY <1>14 DEF Ask
<1>15. CASE \E c \in Calls : PlaceCheck(c)
    BY <1>15 DEF PlaceCheck
<1>16. CASE \E c \in Calls : Place(c)
    BY <1>16 DEF Place
<1>17. CASE \E c \in Calls, how \in Ended : ContextEnds(c, how)
    BY <1>17 DEF ContextEnds
<1>18. CASE \E c \in Calls : PrimaryTimeout(c)
    BY <1>18 DEF PrimaryTimeout
<1>19. CASE \E c \in Calls : AttemptEnds(c)
    BY <1>19 DEF AttemptEnds
<1>20. CASE Close
    BY <1>20 DEF Close
<1>21. CASE UNCHANGED vars
    BY <1>21
<1>. QED
    BY <1>1, <1>2, <1>3, <1>4, <1>5, <1>6, <1>7, <1>8, <1>9, <1>10, <1>11, <1>12,
       <1>13, <1>14, <1>15, <1>16, <1>17, <1>18, <1>19, <1>20, <1>21 DEF Next,
       getPrimary, fetchFromGateways

\* The step of UnverifiedIsReturned: only Place writes unverified content, and
\* returns with it.
LEMMA UnverifiedIsReturnedStep == GetInv /\ [Next]_vars => UnverifiedIsReturned'
<1>. SUFFICES ASSUME GetInv, [Next]_vars PROVE UnverifiedIsReturned'
    OBVIOUS
<1>. USE NoCallIsNoCall, GatewayCountIsNatural
     DEF GetInv, TypeOK, WalkIsLastResort, UnverifiedIsReturned, Open, Attempting,
         Walking, vars, client, ctxVars, callerVars, workerVars,
         Errors, Ended, Content, Goto, Return, Proceed, contextError, conclusive, isClosed,
         fallbackAvailable, Send, Advance, NextGateway, AttemptFails, PrimaryFailed
<1>1. CASE \E c \in Calls : Get(c)
    BY <1>1 DEF Get
<1>2. CASE \E c \in Calls : InvalidCid(c)
    BY <1>2 DEF InvalidCid
<1>3. CASE \E c \in Calls : Acquired(c)
    BY <1>3 DEF Acquired
<1>4. CASE \E c \in Calls : AcquireFails(c)
    BY <1>4 DEF AcquireFails
<1>5. CASE \E c \in Calls : Fetched(c)
    BY <1>5 DEF Fetched
<1>6. CASE \E c \in Calls : PublishCheck(c)
    BY <1>6 DEF PublishCheck
<1>7. CASE \E c \in Calls : Publish(c)
    BY <1>7 DEF Publish
<1>8. CASE \E c \in Calls : Report(c)
    BY <1>8 DEF Report
<1>9. CASE \E c \in Calls : awaitDownload(c)
    BY <1>9 DEF awaitDownload
<1>10. CASE \E c \in Calls : Decide(c)
    BY <1>10 DEF Decide
<1>11. CASE \E c \in Calls : Recheck(c)
    BY <1>11 DEF Recheck
<1>12. CASE \E c \in Calls : Loop(c)
    BY <1>12 DEF Loop
<1>13. CASE \E c \in Calls : Begin(c)
    BY <1>13 DEF Begin
<1>14. CASE \E c \in Calls : Ask(c)
    BY <1>14 DEF Ask
<1>15. CASE \E c \in Calls : PlaceCheck(c)
    BY <1>15 DEF PlaceCheck
<1>16. CASE \E c \in Calls : Place(c)
    BY <1>16 DEF Place
<1>17. CASE \E c \in Calls, how \in Ended : ContextEnds(c, how)
    BY <1>17 DEF ContextEnds
<1>18. CASE \E c \in Calls : PrimaryTimeout(c)
    BY <1>18 DEF PrimaryTimeout
<1>19. CASE \E c \in Calls : AttemptEnds(c)
    BY <1>19 DEF AttemptEnds
<1>20. CASE Close
    BY <1>20 DEF Close
<1>21. CASE UNCHANGED vars
    BY <1>21
<1>. QED
    BY <1>1, <1>2, <1>3, <1>4, <1>5, <1>6, <1>7, <1>8, <1>9, <1>10, <1>11, <1>12,
       <1>13, <1>14, <1>15, <1>16, <1>17, <1>18, <1>19, <1>20, <1>21 DEF Next,
       getPrimary, fetchFromGateways

\* The step of LateIsLast: what begins after Close fails into a return.
LEMMA LateIsLastStep == GetInv /\ [Next]_vars => LateIsLast'
<1>. SUFFICES ASSUME GetInv, [Next]_vars PROVE LateIsLast'
    OBVIOUS
<1>. USE NoCallIsNoCall, GatewayCountIsNatural
     DEF GetInv, TypeOK, LateIsLast, vars, client, ctxVars, callerVars, workerVars,
         Errors, Ended, Content, Goto, Return, Proceed, contextError, conclusive, isClosed,
         fallbackAvailable, Send, Advance, NextGateway, AttemptFails, PrimaryFailed
<1>1. CASE \E c \in Calls : Get(c)
    BY <1>1 DEF Get
<1>2. CASE \E c \in Calls : InvalidCid(c)
    BY <1>2 DEF InvalidCid
<1>3. CASE \E c \in Calls : Acquired(c)
    BY <1>3 DEF Acquired
<1>4. CASE \E c \in Calls : AcquireFails(c)
    BY <1>4 DEF AcquireFails
<1>5. CASE \E c \in Calls : Fetched(c)
    BY <1>5 DEF Fetched
<1>6. CASE \E c \in Calls : PublishCheck(c)
    BY <1>6 DEF PublishCheck
<1>7. CASE \E c \in Calls : Publish(c)
    BY <1>7 DEF Publish
<1>8. CASE \E c \in Calls : Report(c)
    BY <1>8 DEF Report
<1>9. CASE \E c \in Calls : awaitDownload(c)
    BY <1>9 DEF awaitDownload
<1>10. CASE \E c \in Calls : Decide(c)
    BY <1>10 DEF Decide
<1>11. CASE \E c \in Calls : Recheck(c)
    BY <1>11 DEF Recheck
<1>12. CASE \E c \in Calls : Loop(c)
    BY <1>12 DEF Loop
<1>13. CASE \E c \in Calls : Begin(c)
    BY <1>13 DEF Begin
<1>14. CASE \E c \in Calls : Ask(c)
    BY <1>14 DEF Ask
<1>15. CASE \E c \in Calls : PlaceCheck(c)
    BY <1>15 DEF PlaceCheck
<1>16. CASE \E c \in Calls : Place(c)
    BY <1>16 DEF Place
<1>17. CASE \E c \in Calls, how \in Ended : ContextEnds(c, how)
    BY <1>17 DEF ContextEnds
<1>18. CASE \E c \in Calls : PrimaryTimeout(c)
    BY <1>18 DEF PrimaryTimeout
<1>19. CASE \E c \in Calls : AttemptEnds(c)
    BY <1>19 DEF AttemptEnds
<1>20. CASE Close
    BY <1>20 DEF Close
<1>21. CASE UNCHANGED vars
    BY <1>21
<1>. QED
    BY <1>1, <1>2, <1>3, <1>4, <1>5, <1>6, <1>7, <1>8, <1>9, <1>10, <1>11, <1>12,
       <1>13, <1>14, <1>15, <1>16, <1>17, <1>18, <1>19, <1>20, <1>21 DEF Next,
       getPrimary, fetchFromGateways

\* The step of ReturnedIsCancelled: every return goes through Return.
LEMMA ReturnedIsCancelledStep == GetInv /\ [Next]_vars => ReturnedIsCancelled'
<1>. SUFFICES ASSUME GetInv, [Next]_vars PROVE ReturnedIsCancelled'
    OBVIOUS
<1>. USE NoCallIsNoCall, GatewayCountIsNatural
     DEF GetInv, TypeOK, ReturnedIsCancelled, vars, client, ctxVars, callerVars,
         workerVars,
         Errors, Ended, Content, Goto, Return, Proceed, contextError, conclusive, isClosed,
         fallbackAvailable, Send, Advance, NextGateway, AttemptFails, PrimaryFailed
<1>1. CASE \E c \in Calls : Get(c)
    BY <1>1 DEF Get
<1>2. CASE \E c \in Calls : InvalidCid(c)
    BY <1>2 DEF InvalidCid
<1>3. CASE \E c \in Calls : Acquired(c)
    BY <1>3 DEF Acquired
<1>4. CASE \E c \in Calls : AcquireFails(c)
    BY <1>4 DEF AcquireFails
<1>5. CASE \E c \in Calls : Fetched(c)
    BY <1>5 DEF Fetched
<1>6. CASE \E c \in Calls : PublishCheck(c)
    BY <1>6 DEF PublishCheck
<1>7. CASE \E c \in Calls : Publish(c)
    BY <1>7 DEF Publish
<1>8. CASE \E c \in Calls : Report(c)
    BY <1>8 DEF Report
<1>9. CASE \E c \in Calls : awaitDownload(c)
    BY <1>9 DEF awaitDownload
<1>10. CASE \E c \in Calls : Decide(c)
    BY <1>10 DEF Decide
<1>11. CASE \E c \in Calls : Recheck(c)
    BY <1>11 DEF Recheck
<1>12. CASE \E c \in Calls : Loop(c)
    BY <1>12 DEF Loop
<1>13. CASE \E c \in Calls : Begin(c)
    BY <1>13 DEF Begin
<1>14. CASE \E c \in Calls : Ask(c)
    BY <1>14 DEF Ask
<1>15. CASE \E c \in Calls : PlaceCheck(c)
    BY <1>15 DEF PlaceCheck
<1>16. CASE \E c \in Calls : Place(c)
    BY <1>16 DEF Place
<1>17. CASE \E c \in Calls, how \in Ended : ContextEnds(c, how)
    BY <1>17 DEF ContextEnds
<1>18. CASE \E c \in Calls : PrimaryTimeout(c)
    BY <1>18 DEF PrimaryTimeout
<1>19. CASE \E c \in Calls : AttemptEnds(c)
    BY <1>19 DEF AttemptEnds
<1>20. CASE Close
    BY <1>20 DEF Close
<1>21. CASE UNCHANGED vars
    BY <1>21
<1>. QED
    BY <1>1, <1>2, <1>3, <1>4, <1>5, <1>6, <1>7, <1>8, <1>9, <1>10, <1>11, <1>12,
       <1>13, <1>14, <1>15, <1>16, <1>17, <1>18, <1>19, <1>20, <1>21 DEF Next,
       getPrimary, fetchFromGateways

\* The step of PublishedStays: with one call nobody else writes the output, and
\* the call itself only once it has given the goroutine up.
LEMMA PublishedStaysStep == GetInv /\ [Next]_vars => PublishedStays'
<1>. SUFFICES ASSUME GetInv, [Next]_vars PROVE PublishedStays'
    OBVIOUS
<1>. USE NoCallIsNoCall, GatewayCountIsNatural
     DEF GetInv, TypeOK, WalkIsLastResort, PublishedStays, Attempting, Walking, vars,
         client, ctxVars, callerVars, workerVars,
         Errors, Ended, Content, Goto, Return, Proceed, contextError, conclusive, isClosed,
         fallbackAvailable, Send, Advance, NextGateway, AttemptFails, PrimaryFailed
<1>1. CASE \E c \in Calls : Get(c)
    BY <1>1 DEF Get
<1>2. CASE \E c \in Calls : InvalidCid(c)
    BY <1>2 DEF InvalidCid
<1>3. CASE \E c \in Calls : Acquired(c)
    BY <1>3 DEF Acquired
<1>4. CASE \E c \in Calls : AcquireFails(c)
    BY <1>4 DEF AcquireFails
<1>5. CASE \E c \in Calls : Fetched(c)
    BY <1>5 DEF Fetched
<1>6. CASE \E c \in Calls : PublishCheck(c)
    BY <1>6 DEF PublishCheck
<1>7. CASE \E c \in Calls : Publish(c)
    BY <1>7 DEF Publish
<1>8. CASE \E c \in Calls : Report(c)
    BY <1>8 DEF Report
<1>9. CASE \E c \in Calls : awaitDownload(c)
    BY <1>9 DEF awaitDownload
<1>10. CASE \E c \in Calls : Decide(c)
    BY <1>10 DEF Decide
<1>11. CASE \E c \in Calls : Recheck(c)
    BY <1>11 DEF Recheck
<1>12. CASE \E c \in Calls : Loop(c)
    BY <1>12 DEF Loop
<1>13. CASE \E c \in Calls : Begin(c)
    BY <1>13 DEF Begin
<1>14. CASE \E c \in Calls : Ask(c)
    BY <1>14 DEF Ask
<1>15. CASE \E c \in Calls : PlaceCheck(c)
    BY <1>15 DEF PlaceCheck
<1>16. ASSUME NEW c \in Calls, Place(c) PROVE PublishedStays'
    <2>1. CASE AttemptFails(c, "failed") /\ UNCHANGED disk
        BY <1>16, <2>1 DEF Place
    <2>2. CASE disk' = Content(c, "unverified") /\ Return(c, "ok")
        <3>1. err[c] \in Open /\ err' = err /\ UNCHANGED workerVars
            BY <1>16 DEF Place, Open
        <3>2. Calls = {c} => \A d \in Calls : d = c
            OBVIOUS
        <3>. QED BY <1>16, <2>2, <3>1, <3>2 DEF Place, Open
    <2>. QED BY <1>16, <2>1, <2>2 DEF Place
<1>17. CASE \E c \in Calls, how \in Ended : ContextEnds(c, how)
    BY <1>17 DEF ContextEnds
<1>18. CASE \E c \in Calls : PrimaryTimeout(c)
    BY <1>18 DEF PrimaryTimeout
<1>19. CASE \E c \in Calls : AttemptEnds(c)
    BY <1>19 DEF AttemptEnds
<1>20. CASE Close
    BY <1>20 DEF Close
<1>21. CASE UNCHANGED vars
    BY <1>21
<1>. QED
    BY <1>1, <1>2, <1>3, <1>4, <1>5, <1>6, <1>7, <1>8, <1>9, <1>10, <1>11, <1>12,
       <1>13, <1>14, <1>15, <1>16, <1>17, <1>18, <1>19, <1>20, <1>21 DEF Next,
       getPrimary, fetchFromGateways

\* The two conjuncts of GetInv that follow from the others.
LEMMA ConsequencesStep == GetInv /\ [Next]_vars => (CloseStopsTheWalk /\ SuccessIsPublished)'
<1>. SUFFICES ASSUME GetInv, [Next]_vars PROVE (CloseStopsTheWalk /\ SuccessIsPublished)'
    OBVIOUS
<1>1. CloseStopsTheWalk'
    BY LateIsLastStep DEF LateIsLast, CloseStopsTheWalk
<1>2. SuccessIsPublished'
    BY PublishedStaysStep DEF PublishedStays, SuccessIsPublished
<1>. QED BY <1>1, <1>2

\* A step keeps the invariant, conjunct by conjunct.
LEMMA GetInvStep == GetInv /\ [Next]_vars => GetInv'
BY TypeOKStep, WalkIsLastResortStep, UnverifiedIsReturnedStep, LateIsLastStep,
   ReturnedIsCancelledStep, PublishedStaysStep, ConsequencesStep DEF GetInv

-----------------------------------------------------------------------------
\* What a caller of Get may rely on holds whenever it looks, however many gateways
\* there are and whatever ends its contexts: a success is on the output, a closed
\* client begins at most the attempt already past its check.
THEOREM GetInvariance == Spec => []GetInv
<1>1. Init => GetInv
    BY InitEstablishesGetInv
<1>2. GetInv /\ [Next]_vars => GetInv'
    BY GetInvStep
<1>. QED BY <1>1, <1>2, PTL DEF Spec

\* Unverified content is only ever published with the caller's consent and after a
\* failure of the primary phase that another source could answer differently.
THEOREM UnverifiedOnlyAtLast == Spec => []UnverifiedIsLastResort
<1>1. GetInv => UnverifiedIsLastResort
    BY DEF GetInv, UnverifiedIsReturned, UnverifiedIsLastResort, Open
<1>. QED BY <1>1, GetInvariance, PTL

\* After Get has returned its goroutine begins no publication: replace refuses a
\* context that is over, and Get leaves none that is not.
THEOREM ReturnedBeginsNothing == Spec => NothingBeginsToPublish
<1>. DEFINE Begins(c) == at[c] = "returned" /\ worker[c] # "publishing" => worker'[c] # "publishing"
<1>1. ASSUME GetInv, [Next]_vars, NEW c \in Calls, at[c] = "returned", worker[c] # "publishing",
             worker'[c] = "publishing"
      PROVE  FALSE
    <2>1. worker \in [Calls -> {"none", "acquiring", "downloading", "staged",
                                "publishing", "published", "sent"}]
        BY <1>1 DEF GetInv, TypeOK
    <2>2. primary[c] \in Ended
        BY <1>1 DEF GetInv, ReturnedIsCancelled
    <2>3. \A d \in Calls : Get(d) => d # c
        BY <1>1 DEF Get
    <2>4. \A d \in Calls : PublishCheck(d) => worker'[c] # "publishing"
        BY <1>1, <2>1, <2>2 DEF PublishCheck, Send, Advance
    <2>. QED
        BY <1>1, <2>1, <2>3, <2>4
        DEF Next, getPrimary, fetchFromGateways, vars, workerVars, Send, Advance,
            Get, InvalidCid, Acquired, AcquireFails, Fetched, Publish, Report, awaitDownload,
            Decide, Recheck, Loop, Begin, Ask, PlaceCheck, Place, ContextEnds,
            PrimaryTimeout, AttemptEnds, Close
<1>2. GetInv /\ [Next]_vars => [\A c \in Calls : Begins(c)]_vars
    BY <1>1
<1>. QED BY <1>2, GetInvariance, PTL DEF Spec, NothingBeginsToPublish
=============================================================================
