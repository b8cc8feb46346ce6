---------------------------- MODULE AdaptorsProofs ----------------------------
(***************************************************************************)
(* Proofs about spawn_future, split with ensure_started, and merge_each,   *)
(* as MCAdaptors puts them side by side: each has its inductive invariant, *)
(* FutureInv, SharedInv and MergeInv, that its own steps keep and the      *)
(* steps of the others leave alone.  What FanIn contributes is proved in   *)
(* FanInProofs.                                                            *)
(*                                                                         *)
(* The theorems about spawn_future assume that the stop callback does not  *)
(* complete the operation on the canceller's own stack (InlineOn): where   *)
(* it does, the properties do not hold (MCSpawnFutureInline).              *)
(***************************************************************************)
EXTENDS MCAdaptors, FiniteSetTheorems, SequenceTheorems, TLAPS

-----------------------------------------------------------------------------
(* spawn_future: the word that the operation, the consumer and the stop      *)
(* callback exchange decides which of them goes on with the state.           *)

FutureTypes ==
  /\ word \in {"null", "self", "tag", "receiver"}
  /\ futureAlive \in BOOLEAN /\ assoc \in BOOLEAN
  /\ futureResult \in Future!Results \union {"none"}
  /\ ppc \in {"idle", "running", "exchange", "deliver", "destroy", "release", "left", "cleaned"}
  /\ pthread \in {"producer", "consumer"} /\ runner \in {"consumer", "canceller"}
  /\ cpc \in {"spawn", "holding", "failed", "abandonStopping", "abandonExchange",
              "constructing", "negotiate", "consume", "giveUp", "destroy", "release", "done"}
  /\ tpc \in {"idle", "stop", "stopping", "cas", "exchange", "giveUp", "return", "returned"}
  /\ cb \in {"none", "registered", "running", "ran", "gone"}

\* The stop callback exists between the start of the future and its completion,
\* __do_try_cancel() runs inside it, and if that is on the consumer's thread, then in
\* the constructor of the callback.
Dropping == {"spawn", "holding", "failed", "abandonStopping", "abandonExchange"}

FutureCallback ==
  /\ cpc \in Dropping => cb = "none"
  /\ cb = "none" => tpc = "idle"
  /\ cb = "registered" => tpc = "idle" /\ ~futureStop
  /\ cb = "running" => tpc \notin {"idle", "returned"}
  /\ cb = "ran" => tpc = "returned"
  /\ cb = "gone" => tpc \in {"idle", "return", "returned"}
  /\ cb = "running" /\ runner = "consumer" => cpc = "constructing"
  /\ tpc # "idle" => futureStop

\* What the word says of the three parties: nobody has spoken, the consumer waits for
\* the operation, the canceller wants to answer for it.
FutureWord ==
  /\ word = "null" =>
       /\ ppc \in {"idle", "running", "exchange", "cleaned"}
       /\ cpc \in Dropping \union {"constructing", "done"}
       /\ tpc \in {"idle", "stop", "stopping", "cas"} /\ cb # "gone"
       /\ (cpc = "spawn" <=> ppc = "idle") /\ (cpc = "done" <=> ppc = "cleaned")
       /\ cpc = "done" => cb = "none"
       /\ cpc = "constructing" => cb # "none"
  /\ word = "receiver" =>
       /\ ppc \in {"running", "exchange"} /\ cpc = "done"
       /\ tpc \in {"idle", "stop", "stopping", "cas", "exchange"}
       /\ cb \in {"registered", "running"}
  /\ word = "tag" =>
       /\ ppc \in {"running", "exchange"} /\ cpc \in {"constructing", "negotiate"}
       /\ tpc \in {"return", "returned"} /\ cb \in {"running", "ran"}

\* The state has been closed: the operation left it to the consumer, or delivers its
\* result, or the others have left it to the operation.
FutureLeft ==
  ppc = "left" =>
    /\ word = "self" /\ cpc \notin {"spawn", "giveUp"} /\ tpc \notin {"exchange", "giveUp"}
    /\ cpc \in {"constructing", "negotiate", "consume"} => cb \notin {"none", "gone"}
    /\ cpc \notin {"constructing", "negotiate", "consume"} => cb \in {"none", "gone"}
    /\ cpc = "negotiate" => tpc \in {"return", "returned"}

\* The operation completes the receiver that waits for it.
FutureDelivers ==
  ppc = "deliver" => word = "self" /\ cpc = "done" /\ tpc # "giveUp" /\ cb \notin {"none", "gone"}

\* Nobody waits for the operation any more: the canceller or the destructor of the future
\* has given the state up, and the operation destroys it.
FutureGivenUp ==
  word = "self" /\ ppc \notin {"left", "deliver"} =>
    /\ ppc # "idle"
    /\ \/ cpc = "giveUp" /\ tpc \in {"return", "returned"} /\ cb \in {"running", "ran"}
       \/ cpc = "done" /\ (cb \in {"gone", "none"} \/ tpc = "giveUp")

\* The state lives until its operation has ended and its consumer has gone.
FutureLives ==
  /\ futureAlive <=> \/ ppc \in {"running", "exchange", "deliver", "destroy"}
                     \/ ppc = "left" /\ cpc \notin {"release", "done"}
  /\ ppc = "running" => assoc
  /\ assoc => futureAlive \/ "release" \in {ppc, cpc}

\* The result is stored once, and told once unless it is given up.
FutureResults ==
  futureResult = "none" <=> ppc \in {"idle", "running"} \/ (word = "null" /\ ppc = "cleaned")

\* The receiver is told once: the result, stopped if it asked for that, or error if
\* the future could not be constructed.
FutureTold ==
  /\ cpc \in {"spawn", "holding"} => futureSignals = <<>>
  /\ cb \in {"registered", "running", "ran"} => futureSignals = <<>>
  /\ cb = "none" => futureSignals \in {<<>>, <<"error">>}
  /\ cb = "gone" =>
       \/ futureResult # "none" /\ futureSignals = <<futureResult>>
       \/ futureSignals = <<"stopped">> /\ futureStop /\ ppc # "left" /\ word = "self"

FutureInv ==
  /\ FutureTypes /\ FutureCallback /\ FutureWord /\ FutureLeft /\ FutureDelivers
  /\ FutureGivenUp /\ FutureLives /\ FutureResults /\ FutureTold

LEMMA AppendToNone == \A x : Append(<<>>, x) = <<x>>
OBVIOUS

USE DEF Future!state, Future!pvars, Future!cancel

LEMMA FutureTypesKept ==
  ASSUME InlineOn \subseteq {"consumer"}, FutureInv, [Future!Next]_Future!vars
  PROVE  FutureTypes'
<1> USE DEF FutureInv, Dropping
<1>1. CASE Future!Spawn
  BY <1>1 DEF Future!Spawn, FutureTypes
<1>2. CASE Future!SpawnRefused
  BY <1>2 DEF Future!SpawnRefused, Future!Results, FutureTypes
<1>3. CASE Future!SpawnThrows
  BY <1>3 DEF Future!SpawnThrows, FutureTypes
<1>4. CASE Future!OpCompletes
  BY <1>4 DEF Future!OpCompletes, FutureTypes, FutureWord, FutureGivenUp, FutureLives
<1>5. CASE Future!OpExchange
  BY <1>5 DEF Future!OpExchange, FutureTypes
<1>6. CASE Future!OpDeliver
  BY <1>6 DEF Future!OpDeliver, Future!CompleteReceiver, FutureTypes
<1>7. CASE Future!OpDestroy
  BY <1>7 DEF Future!OpDestroy, FutureTypes, FutureWord, FutureGivenUp
<1>8. CASE Future!OpRelease
  BY <1>8 DEF Future!OpRelease, FutureTypes, FutureWord, FutureLives, FutureResults
<1>9. CASE Future!AbandonStop
  BY <1>9 DEF Future!AbandonStop, FutureTypes
<1>10. CASE Future!AbandonStopped
  BY <1>10 DEF Future!AbandonStopped, FutureTypes
<1>11. CASE Future!AbandonExchange
  BY <1>11 DEF Future!AbandonExchange, FutureTypes
<1>12. CASE Future!Start
  BY <1>12 DEF Future!Start, FutureTypes
<1>13. CASE Future!StartThrows
  BY <1>13 DEF Future!StartThrows, FutureTypes
<1>14. CASE Future!ConsumeCas
  BY <1>14 DEF Future!ConsumeCas, FutureTypes
<1>15. CASE Future!ConsumeNegotiate
  BY <1>15 DEF Future!ConsumeNegotiate, FutureTypes
<1>16. CASE Future!Consume
  BY <1>16 DEF Future!Consume, Future!CompleteReceiver, FutureTypes
<1>17. CASE Future!ConsumeGiveUp
  BY <1>17 DEF Future!ConsumeGiveUp, Future!CompleteReceiver, FutureTypes
<1>18. CASE Future!ConsumerDestroy
  BY <1>18 DEF Future!ConsumerDestroy, FutureTypes, FutureWord, FutureResults
<1>19. CASE Future!ConsumerRelease
  BY <1>19 DEF Future!ConsumerRelease, FutureTypes, FutureWord, FutureResults
<1>20. CASE Future!RequestStop
  BY <1>20 DEF Future!RequestStop, FutureTypes
<1>21. CASE Future!CancelStop
  BY <1>21 DEF Future!CancelStop, FutureTypes
<1>22. CASE Future!CancelStopped
  BY <1>22 DEF Future!CancelStopped, FutureTypes
<1>23. CASE Future!CancelCas
  BY <1>23 DEF Future!CancelCas, FutureTypes
<1>24. CASE Future!CancelExchange
  BY <1>24 DEF Future!CancelExchange, FutureTypes
<1>25. CASE Future!CancelGiveUp
  BY <1>25 DEF Future!CancelGiveUp, Future!CompleteReceiver, FutureTypes
<1>26. CASE Future!CancelReturn
  BY <1>26 DEF Future!CancelReturn, FutureTypes
<1>27. CASE UNCHANGED Future!vars
  BY <1>27 DEF Future!vars, FutureTypes
<1> QED
  BY <1>1, <1>2, <1>3, <1>4, <1>5, <1>6, <1>7, <1>8, <1>9, <1>10, <1>11, <1>12, <1>13, <1>14,
     <1>15, <1>16, <1>17, <1>18, <1>19, <1>20, <1>21, <1>22, <1>23, <1>24, <1>25, <1>26, <1>27
     DEF Future!Next, Future!Operation, Future!Consumer, Future!Canceller, Future!Rest

LEMMA FutureCallbackKept ==
  ASSUME InlineOn \subseteq {"consumer"}, FutureInv, [Future!Next]_Future!vars
  PROVE  FutureCallback'
<1> USE DEF FutureInv, Dropping
<1>1. CASE Future!Spawn
  BY <1>1 DEF Future!Spawn, FutureCallback
<1>2. CASE Future!SpawnRefused
  BY <1>2 DEF Future!SpawnRefused, FutureCallback
<1>3. CASE Future!SpawnThrows
  BY <1>3 DEF Future!SpawnThrows, FutureCallback
<1>4. CASE Future!OpCompletes
  BY <1>4 DEF Future!OpCompletes, FutureCallback
<1>5. CASE Future!OpExchange
  BY <1>5 DEF Future!OpExchange, FutureCallback
<1>6. CASE Future!OpDeliver
  BY <1>6 DEF Future!OpDeliver, Future!CompleteReceiver, Future!CallbackLets, FutureTypes,
     FutureCallback, FutureDelivers
<1>7. CASE Future!OpDestroy
  BY <1>7 DEF Future!OpDestroy, FutureCallback
<1>8. CASE Future!OpRelease
  BY <1>8 DEF Future!OpRelease, FutureCallback
<1>9. CASE Future!AbandonStop
  BY <1>9 DEF Future!AbandonStop, FutureCallback
<1>10. CASE Future!AbandonStopped
  BY <1>10 DEF Future!AbandonStopped, FutureCallback
<1>11. CASE Future!AbandonExchange
  BY <1>11 DEF Future!AbandonExchange, FutureCallback
<1>12. CASE Future!Start
  BY <1>12 DEF Future!Start, FutureCallback
<1>13. CASE Future!StartThrows
  BY <1>13 DEF Future!StartThrows, FutureCallback
<1>14. CASE Future!ConsumeCas
  BY <1>14 DEF Future!ConsumeCas, Future!CallbackLets, FutureCallback
<1>15. CASE Future!ConsumeNegotiate
  BY <1>15 DEF Future!ConsumeNegotiate, FutureCallback
<1>16. CASE Future!Consume
  BY <1>16
     DEF Future!Consume, Future!CompleteReceiver, Future!CallbackLets, FutureTypes,
     FutureCallback
<1>17. CASE Future!ConsumeGiveUp
  BY <1>17 DEF Future!ConsumeGiveUp, Future!CompleteReceiver, FutureTypes, FutureCallback,
     FutureWord, FutureLeft, FutureDelivers, FutureGivenUp
<1>18. CASE Future!ConsumerDestroy
  BY <1>18 DEF Future!ConsumerDestroy, FutureCallback
<1>19. CASE Future!ConsumerRelease
  BY <1>19 DEF Future!ConsumerRelease, FutureCallback
<1>20. CASE Future!RequestStop
  BY <1>20 DEF Future!RequestStop, FutureCallback
<1>21. CASE Future!CancelStop
  BY <1>21 DEF Future!CancelStop, FutureCallback
<1>22. CASE Future!CancelStopped
  BY <1>22 DEF Future!CancelStopped, FutureCallback
<1>23. CASE Future!CancelCas
  BY <1>23 DEF Future!CancelCas, FutureCallback
<1>24. CASE Future!CancelExchange
  BY <1>24 DEF Future!CancelExchange, FutureCallback
<1>25. CASE Future!CancelGiveUp
  BY <1>25 DEF Future!CancelGiveUp, Future!CompleteReceiver, FutureCallback
<1>26. CASE Future!CancelReturn
  BY <1>26 DEF Future!CancelReturn, FutureCallback
<1>27. CASE UNCHANGED Future!vars
  BY <1>27 DEF Future!vars, FutureCallback
<1> QED
  BY <1>1, <1>2, <1>3, <1>4, <1>5, <1>6, <1>7, <1>8, <1>9, <1>10, <1>11, <1>12, <1>13, <1>14,
     <1>15, <1>16, <1>17, <1>18, <1>19, <1>20, <1>21, <1>22, <1>23, <1>24, <1>25, <1>26, <1>27
     DEF Future!Next, Future!Operation, Future!Consumer, Future!Canceller, Future!Rest

LEMMA FutureWordKept ==
  ASSUME InlineOn \subseteq {"consumer"}, FutureInv, [Future!Next]_Future!vars
  PROVE  FutureWord'
<1> USE DEF FutureInv, Dropping
<1>1. CASE Future!Spawn
  BY <1>1 DEF Future!Spawn, FutureWord
<1>2. CASE Future!SpawnRefused
  BY <1>2 DEF Future!SpawnRefused, FutureWord
<1>3. CASE Future!SpawnThrows
  BY <1>3 DEF Future!SpawnThrows, FutureCallback, FutureWord
<1>4. CASE Future!OpCompletes
  BY <1>4 DEF Future!OpCompletes, FutureWord
<1>5. CASE Future!OpExchange
  BY <1>5 DEF Future!OpExchange, FutureWord
<1>6. CASE Future!OpDeliver
  BY <1>6 DEF Future!OpDeliver, FutureWord
<1>7. CASE Future!OpDestroy
  BY <1>7 DEF Future!OpDestroy, FutureWord
<1>8. CASE Future!OpRelease
  BY <1>8 DEF Future!OpRelease, FutureWord
<1>9. CASE Future!AbandonStop
  BY <1>9 DEF Future!AbandonStop, FutureWord
<1>10. CASE Future!AbandonStopped
  BY <1>10 DEF Future!AbandonStopped, FutureWord
<1>11. CASE Future!AbandonExchange
  BY <1>11 DEF Future!AbandonExchange, FutureWord
<1>12. CASE Future!Start
  BY <1>12 DEF Future!Start, FutureWord
<1>13. CASE Future!StartThrows
  BY <1>13 DEF Future!StartThrows, FutureWord
<1>14. CASE Future!ConsumeCas
  BY <1>14 DEF Future!ConsumeCas, FutureTypes, FutureCallback, FutureWord
<1>15. CASE Future!ConsumeNegotiate
  BY <1>15 DEF Future!ConsumeNegotiate, FutureWord
<1>16. CASE Future!Consume
  BY <1>16 DEF Future!Consume, FutureWord
<1>17. CASE Future!ConsumeGiveUp
  BY <1>17 DEF Future!ConsumeGiveUp, FutureWord
<1>18. CASE Future!ConsumerDestroy
  BY <1>18 DEF Future!ConsumerDestroy, FutureWord
<1>19. CASE Future!ConsumerRelease
  BY <1>19 DEF Future!ConsumerRelease, FutureWord
<1>20. CASE Future!RequestStop
  BY <1>20 DEF Future!RequestStop, FutureWord
<1>21. CASE Future!CancelStop
  BY <1>21 DEF Future!CancelStop, FutureWord
<1>22. CASE Future!CancelStopped
  BY <1>22 DEF Future!CancelStopped, FutureWord
<1>23. CASE Future!CancelCas
  BY <1>23 DEF Future!CancelCas, FutureTypes, FutureCallback, FutureWord
<1>24. CASE Future!CancelExchange
  BY <1>24 DEF Future!CancelExchange, FutureWord
<1>25. CASE Future!CancelGiveUp
  BY <1>25 DEF Future!CancelGiveUp, FutureWord
<1>26. CASE Future!CancelReturn
  BY <1>26 DEF Future!CancelReturn, FutureWord
<1>27. CASE UNCHANGED Future!vars
  BY <1>27 DEF Future!vars, FutureWord
<1> QED
  BY <1>1, <1>2, <1>3, <1>4, <1>5, <1>6, <1>7, <1>8, <1>9, <1>10, <1>11, <1>12, <1>13, <1>14,
     <1>15, <1>16, <1>17, <1>18, <1>19, <1>20, <1>21, <1>22, <1>23, <1>24, <1>25, <1>26, <1>27
     DEF Future!Next, Future!Operation, Future!Consumer, Future!Canceller, Future!Rest

LEMMA FutureLeftKept ==
  ASSUME InlineOn \subseteq {"consumer"}, FutureInv, [Future!Next]_Future!vars
  PROVE  FutureLeft'
<1> USE DEF FutureInv, Dropping
<1>1. CASE Future!Spawn
  BY <1>1 DEF Future!Spawn, FutureLeft
<1>2. CASE Future!SpawnRefused
  BY <1>2 DEF Future!SpawnRefused, FutureLeft
<1>3. CASE Future!SpawnThrows
  BY <1>3 DEF Future!SpawnThrows, FutureLeft
<1>4. CASE Future!OpCompletes
  BY <1>4 DEF Future!OpCompletes, FutureLeft
<1>5. CASE Future!OpExchange
  BY <1>5 DEF Future!OpExchange, FutureTypes, FutureCallback, FutureWord, FutureLeft
<1>6. CASE Future!OpDeliver
  BY <1>6 DEF Future!OpDeliver, FutureLeft
<1>7. CASE Future!OpDestroy
  BY <1>7 DEF Future!OpDestroy, FutureLeft
<1>8. CASE Future!OpRelease
  BY <1>8 DEF Future!OpRelease, FutureLeft
<1>9. CASE Future!AbandonStop
  BY <1>9 DEF Future!AbandonStop, FutureLeft
<1>10. CASE Future!AbandonStopped
  BY <1>10 DEF Future!AbandonStopped, FutureLeft
<1>11. CASE Future!AbandonExchange
  BY <1>11 DEF Future!AbandonExchange, FutureLeft
<1>12. CASE Future!Start
  BY <1>12 DEF Future!Start, FutureLeft
<1>13. CASE Future!StartThrows
  BY <1>13 DEF Future!StartThrows, FutureLeft
<1>14. CASE Future!ConsumeCas
  BY <1>14 DEF Future!ConsumeCas, FutureLeft
<1>15. CASE Future!ConsumeNegotiate
  BY <1>15 DEF Future!ConsumeNegotiate, FutureLeft
<1>16. CASE Future!Consume
  BY <1>16 DEF Future!Consume, Future!CompleteReceiver, FutureLeft
<1>17. CASE Future!ConsumeGiveUp
  BY <1>17 DEF Future!ConsumeGiveUp, FutureLeft
<1>18. CASE Future!ConsumerDestroy
  BY <1>18 DEF Future!ConsumerDestroy, FutureLeft
<1>19. CASE Future!ConsumerRelease
  BY <1>19 DEF Future!ConsumerRelease, FutureLeft
<1>20. CASE Future!RequestStop
  BY <1>20 DEF Future!RequestStop, FutureCallback, FutureLeft
<1>21. CASE Future!CancelStop
  BY <1>21 DEF Future!CancelStop, FutureLeft
<1>22. CASE Future!CancelStopped
  BY <1>22 DEF Future!CancelStopped, FutureLeft
<1>23. CASE Future!CancelCas
  BY <1>23 DEF Future!CancelCas, FutureLeft
<1>24. CASE Future!CancelExchange
  BY <1>24 DEF Future!CancelExchange, FutureLeft
<1>25. CASE Future!CancelGiveUp
  BY <1>25 DEF Future!CancelGiveUp, FutureLeft
<1>26. CASE Future!CancelReturn
  BY <1>26 DEF Future!CancelReturn, FutureLeft
<1>27. CASE UNCHANGED Future!vars
  BY <1>27 DEF Future!vars, FutureLeft
<1> QED
  BY <1>1, <1>2, <1>3, <1>4, <1>5, <1>6, <1>7, <1>8, <1>9, <1>10, <1>11, <1>12, <1>13, <1>14,
     <1>15, <1>16, <1>17, <1>18, <1>19, <1>20, <1>21, <1>22, <1>23, <1>24, <1>25, <1>26, <1>27
     DEF Future!Next, Future!Operation, Future!Consumer, Future!Canceller, Future!Rest

LEMMA FutureDeliversKept ==
  ASSUME InlineOn \subseteq {"consumer"}, FutureInv, [Future!Next]_Future!vars
  PROVE  FutureDelivers'
<1> USE DEF FutureInv, Dropping
<1>1. CASE Future!Spawn
  BY <1>1 DEF Future!Spawn, FutureDelivers
<1>2. CASE Future!SpawnRefused
  BY <1>2 DEF Future!SpawnRefused, FutureDelivers
<1>3. CASE Future!SpawnThrows
  BY <1>3 DEF Future!SpawnThrows, FutureDelivers
<1>4. CASE Future!OpCompletes
  BY <1>4 DEF Future!OpCompletes, FutureDelivers
<1>5. CASE Future!OpExchange
  BY <1>5 DEF Future!OpExchange, FutureTypes, FutureWord, FutureDelivers
<1>6. CASE Future!OpDeliver
  BY <1>6 DEF Future!OpDeliver, FutureDelivers
<1>7. CASE Future!OpDestroy
  BY <1>7 DEF Future!OpDestroy, FutureDelivers
<1>8. CASE Future!OpRelease
  BY <1>8 DEF Future!OpRelease, FutureDelivers
<1>9. CASE Future!AbandonStop
  BY <1>9 DEF Future!AbandonStop, FutureDelivers
<1>10. CASE Future!AbandonStopped
  BY <1>10 DEF Future!AbandonStopped, FutureDelivers
<1>11. CASE Future!AbandonExchange
  BY <1>11 DEF Future!AbandonExchange, FutureDelivers
<1>12. CASE Future!Start
  BY <1>12 DEF Future!Start, FutureDelivers
<1>13. CASE Future!StartThrows
  BY <1>13 DEF Future!StartThrows, FutureDelivers
<1>14. CASE Future!ConsumeCas
  BY <1>14 DEF Future!ConsumeCas, FutureDelivers
<1>15. CASE Future!ConsumeNegotiate
  BY <1>15 DEF Future!ConsumeNegotiate, FutureDelivers
<1>16. CASE Future!Consume
  BY <1>16 DEF Future!Consume, FutureDelivers
<1>17. CASE Future!ConsumeGiveUp
  BY <1>17 DEF Future!ConsumeGiveUp, FutureDelivers
<1>18. CASE Future!ConsumerDestroy
  BY <1>18 DEF Future!ConsumerDestroy, FutureDelivers
<1>19. CASE Future!ConsumerRelease
  BY <1>19 DEF Future!ConsumerRelease, FutureDelivers
<1>20. CASE Future!RequestStop
  BY <1>20 DEF Future!RequestStop, FutureDelivers
<1>21. CASE Future!CancelStop
  BY <1>21 DEF Future!CancelStop, FutureDelivers
<1>22. CASE Future!CancelStopped
  BY <1>22 DEF Future!CancelStopped, FutureDelivers
<1>23. CASE Future!CancelCas
  BY <1>23 DEF Future!CancelCas, FutureDelivers
<1>24. CASE Future!CancelExchange
  BY <1>24 DEF Future!CancelExchange, FutureDelivers
<1>25. CASE Future!CancelGiveUp
  BY <1>25 DEF Future!CancelGiveUp, FutureDelivers
<1>26. CASE Future!CancelReturn
  BY <1>26 DEF Future!CancelReturn, FutureDelivers
<1>27. CASE UNCHANGED Future!vars
  BY <1>27 DEF Future!vars, FutureDelivers
<1> QED
  BY <1>1, <1>2, <1>3, <1>4, <1>5, <1>6, <1>7, <1>8, <1>9, <1>10, <1>11, <1>12, <1>13, <1>14,
     <1>15, <1>16, <1>17, <1>18, <1>19, <1>20, <1>21, <1>22, <1>23, <1>24, <1>25, <1>26, <1>27
     DEF Future!Next, Future!Operation, Future!Consumer, Future!Canceller, Future!Rest

LEMMA FutureGivenUpKept ==
  ASSUME InlineOn \subseteq {"consumer"}, FutureInv, [Future!Next]_Future!vars
  PROVE  FutureGivenUp'
<1> USE DEF FutureInv, Dropping
<1>1. CASE Future!Spawn
  BY <1>1 DEF Future!Spawn, FutureLeft, FutureDelivers, FutureGivenUp
<1>2. CASE Future!SpawnRefused
  BY <1>2 DEF Future!SpawnRefused, FutureLeft, FutureDelivers, FutureGivenUp
<1>3. CASE Future!SpawnThrows
  BY <1>3 DEF Future!SpawnThrows, FutureLeft, FutureDelivers, FutureGivenUp
<1>4. CASE Future!OpCompletes
  BY <1>4 DEF Future!OpCompletes, FutureGivenUp
<1>5. CASE Future!OpExchange
  BY <1>5 DEF Future!OpExchange, FutureTypes, FutureGivenUp
<1>6. CASE Future!OpDeliver
  BY <1>6 DEF Future!OpDeliver, Future!CompleteReceiver, FutureDelivers, FutureGivenUp
<1>7. CASE Future!OpDestroy
  BY <1>7 DEF Future!OpDestroy, FutureGivenUp
<1>8. CASE Future!OpRelease
  BY <1>8 DEF Future!OpRelease, FutureGivenUp
<1>9. CASE Future!AbandonStop
  BY <1>9 DEF Future!AbandonStop, FutureGivenUp
<1>10. CASE Future!AbandonStopped
  BY <1>10 DEF Future!AbandonStopped, FutureGivenUp
<1>11. CASE Future!AbandonExchange
  BY <1>11 DEF Future!AbandonExchange, FutureTypes, FutureCallback, FutureWord, FutureGivenUp
<1>12. CASE Future!Start
  BY <1>12 DEF Future!Start, FutureGivenUp
<1>13. CASE Future!StartThrows
  BY <1>13 DEF Future!StartThrows, FutureGivenUp
<1>14. CASE Future!ConsumeCas
  BY <1>14 DEF Future!ConsumeCas, FutureGivenUp
<1>15. CASE Future!ConsumeNegotiate
  BY <1>15 DEF Future!ConsumeNegotiate, FutureTypes, FutureWord, FutureGivenUp
<1>16. CASE Future!Consume
  BY <1>16 DEF Future!Consume, FutureGivenUp
<1>17. CASE Future!ConsumeGiveUp
  BY <1>17 DEF Future!ConsumeGiveUp, Future!CompleteReceiver, FutureGivenUp
<1>18. CASE Future!ConsumerDestroy
  BY <1>18 DEF Future!ConsumerDestroy, FutureGivenUp
<1>19. CASE Future!ConsumerRelease
  BY <1>19 DEF Future!ConsumerRelease, FutureGivenUp
<1>20. CASE Future!RequestStop
  BY <1>20 DEF Future!RequestStop, FutureCallback, FutureGivenUp
<1>21. CASE Future!CancelStop
  BY <1>21 DEF Future!CancelStop, FutureGivenUp
<1>22. CASE Future!CancelStopped
  BY <1>22 DEF Future!CancelStopped, FutureGivenUp
<1>23. CASE Future!CancelCas
  BY <1>23 DEF Future!CancelCas, FutureGivenUp
<1>24. CASE Future!CancelExchange
  BY <1>24 DEF Future!CancelExchange, FutureTypes, FutureWord, FutureGivenUp
<1>25. CASE Future!CancelGiveUp
  BY <1>25 DEF Future!CancelGiveUp, Future!CompleteReceiver, FutureGivenUp
<1>26. CASE Future!CancelReturn
  BY <1>26 DEF Future!CancelReturn, FutureGivenUp
<1>27. CASE UNCHANGED Future!vars
  BY <1>27 DEF Future!vars, FutureGivenUp
<1> QED
  BY <1>1, <1>2, <1>3, <1>4, <1>5, <1>6, <1>7, <1>8, <1>9, <1>10, <1>11, <1>12, <1>13, <1>14,
     <1>15, <1>16, <1>17, <1>18, <1>19, <1>20, <1>21, <1>22, <1>23, <1>24, <1>25, <1>26, <1>27
     DEF Future!Next, Future!Operation, Future!Consumer, Future!Canceller, Future!Rest

LEMMA FutureLivesKept ==
  ASSUME InlineOn \subseteq {"consumer"}, FutureInv, [Future!Next]_Future!vars
  PROVE  FutureLives'
<1> USE DEF FutureInv, Dropping
<1>1. CASE Future!Spawn
  BY <1>1 DEF Future!Spawn, FutureLives
<1>2. CASE Future!SpawnRefused
  BY <1>2 DEF Future!SpawnRefused, FutureLives
<1>3. CASE Future!SpawnThrows
  BY <1>3 DEF Future!SpawnThrows, FutureTypes, FutureWord, FutureLeft, FutureDelivers,
     FutureGivenUp, FutureLives
<1>4. CASE Future!OpCompletes
  BY <1>4 DEF Future!OpCompletes, FutureLives
<1>5. CASE Future!OpExchange
  BY <1>5 DEF Future!OpExchange, FutureTypes, FutureWord, FutureLives
<1>6. CASE Future!OpDeliver
  BY <1>6 DEF Future!OpDeliver, FutureLives
<1>7. CASE Future!OpDestroy
  BY <1>7 DEF Future!OpDestroy, FutureLives
<1>8. CASE Future!OpRelease
  BY <1>8 DEF Future!OpRelease, FutureLives
<1>9. CASE Future!AbandonStop
  BY <1>9 DEF Future!AbandonStop, FutureLives
<1>10. CASE Future!AbandonStopped
  BY <1>10 DEF Future!AbandonStopped, FutureLives
<1>11. CASE Future!AbandonExchange
  BY <1>11 DEF Future!AbandonExchange, FutureLeft, FutureLives
<1>12. CASE Future!Start
  BY <1>12 DEF Future!Start, FutureLives
<1>13. CASE Future!StartThrows
  BY <1>13 DEF Future!StartThrows, FutureLives
<1>14. CASE Future!ConsumeCas
  BY <1>14 DEF Future!ConsumeCas, FutureLeft, FutureLives
<1>15. CASE Future!ConsumeNegotiate
  BY <1>15 DEF Future!ConsumeNegotiate, FutureLives
<1>16. CASE Future!Consume
  BY <1>16 DEF Future!Consume, FutureLives
<1>17. CASE Future!ConsumeGiveUp
  BY <1>17 DEF Future!ConsumeGiveUp, FutureLeft, FutureLives
<1>18. CASE Future!ConsumerDestroy
  BY <1>18
     DEF Future!ConsumerDestroy, FutureTypes, FutureWord, FutureDelivers, FutureGivenUp,
     FutureLives
<1>19. CASE Future!ConsumerRelease
  BY <1>19 DEF Future!ConsumerRelease, FutureTypes, FutureWord, FutureGivenUp, FutureLives
<1>20. CASE Future!RequestStop
  BY <1>20 DEF Future!RequestStop, FutureLives
<1>21. CASE Future!CancelStop
  BY <1>21 DEF Future!CancelStop, FutureLives
<1>22. CASE Future!CancelStopped
  BY <1>22 DEF Future!CancelStopped, FutureLives
<1>23. CASE Future!CancelCas
  BY <1>23 DEF Future!CancelCas, FutureLives
<1>24. CASE Future!CancelExchange
  BY <1>24 DEF Future!CancelExchange, FutureLives
<1>25. CASE Future!CancelGiveUp
  BY <1>25 DEF Future!CancelGiveUp, FutureLives
<1>26. CASE Future!CancelReturn
  BY <1>26 DEF Future!CancelReturn, FutureLives
<1>27. CASE UNCHANGED Future!vars
  BY <1>27 DEF Future!vars, FutureLives
<1> QED
  BY <1>1, <1>2, <1>3, <1>4, <1>5, <1>6, <1>7, <1>8, <1>9, <1>10, <1>11, <1>12, <1>13, <1>14,
     <1>15, <1>16, <1>17, <1>18, <1>19, <1>20, <1>21, <1>22, <1>23, <1>24, <1>25, <1>26, <1>27
     DEF Future!Next, Future!Operation, Future!Consumer, Future!Canceller, Future!Rest

LEMMA FutureResultsKept ==
  ASSUME InlineOn \subseteq {"consumer"}, FutureInv, [Future!Next]_Future!vars
  PROVE  FutureResults'
<1> USE DEF FutureInv, Dropping
<1>1. CASE Future!Spawn
  BY <1>1 DEF Future!Spawn, FutureTypes, FutureWord, FutureLeft, FutureDelivers, FutureGivenUp,
     FutureResults
<1>2. CASE Future!SpawnRefused
  BY <1>2 DEF Future!SpawnRefused, FutureResults
<1>3. CASE Future!SpawnThrows
  BY <1>3 DEF Future!SpawnThrows, FutureTypes, FutureWord, FutureGivenUp, FutureResults
<1>4. CASE Future!OpCompletes
  BY <1>4 DEF Future!OpCompletes, Future!Results, FutureResults
<1>5. CASE Future!OpExchange
  BY <1>5 DEF Future!OpExchange, FutureTypes, FutureResults
<1>6. CASE Future!OpDeliver
  BY <1>6 DEF Future!OpDeliver, FutureResults
<1>7. CASE Future!OpDestroy
  BY <1>7 DEF Future!OpDestroy, FutureResults
<1>8. CASE Future!OpRelease
  BY <1>8 DEF Future!OpRelease, FutureWord, FutureResults
<1>9. CASE Future!AbandonStop
  BY <1>9 DEF Future!AbandonStop, FutureResults
<1>10. CASE Future!AbandonStopped
  BY <1>10 DEF Future!AbandonStopped, FutureResults
<1>11. CASE Future!AbandonExchange
  BY <1>11 DEF Future!AbandonExchange, FutureWord, FutureResults
<1>12. CASE Future!Start
  BY <1>12 DEF Future!Start, FutureResults
<1>13. CASE Future!StartThrows
  BY <1>13 DEF Future!StartThrows, FutureResults
<1>14. CASE Future!ConsumeCas
  BY <1>14 DEF Future!ConsumeCas, FutureWord, FutureResults
<1>15. CASE Future!ConsumeNegotiate
  BY <1>15 DEF Future!ConsumeNegotiate, FutureWord, FutureResults
<1>16. CASE Future!Consume
  BY <1>16 DEF Future!Consume, FutureResults
<1>17. CASE Future!ConsumeGiveUp
  BY <1>17 DEF Future!ConsumeGiveUp, FutureResults
<1>18. CASE Future!ConsumerDestroy
  BY <1>18 DEF Future!ConsumerDestroy, FutureResults
<1>19. CASE Future!ConsumerRelease
  BY <1>19 DEF Future!ConsumerRelease, FutureResults
<1>20. CASE Future!RequestStop
  BY <1>20 DEF Future!RequestStop, FutureResults
<1>21. CASE Future!CancelStop
  BY <1>21 DEF Future!CancelStop, FutureResults
<1>22. CASE Future!CancelStopped
  BY <1>22 DEF Future!CancelStopped, FutureResults
<1>23. CASE Future!CancelCas
  BY <1>23 DEF Future!CancelCas, FutureCallback, FutureWord, FutureResults
<1>24. CASE Future!CancelExchange
  BY <1>24 DEF Future!CancelExchange, FutureWord, FutureResults
<1>25. CASE Future!CancelGiveUp
  BY <1>25 DEF Future!CancelGiveUp, FutureResults
<1>26. CASE Future!CancelReturn
  BY <1>26 DEF Future!CancelReturn, FutureResults
<1>27. CASE UNCHANGED Future!vars
  BY <1>27 DEF Future!vars, FutureResults
<1> QED
  BY <1>1, <1>2, <1>3, <1>4, <1>5, <1>6, <1>7, <1>8, <1>9, <1>10, <1>11, <1>12, <1>13, <1>14,
     <1>15, <1>16, <1>17, <1>18, <1>19, <1>20, <1>21, <1>22, <1>23, <1>24, <1>25, <1>26, <1>27
     DEF Future!Next, Future!Operation, Future!Consumer, Future!Canceller, Future!Rest

LEMMA FutureToldKept ==
  ASSUME InlineOn \subseteq {"consumer"}, FutureInv, [Future!Next]_Future!vars
  PROVE  FutureTold'
<1> USE DEF FutureInv, Dropping
<1>1. CASE Future!Spawn
  BY <1>1 DEF Future!Spawn, FutureTold
<1>2. CASE Future!SpawnRefused
  BY <1>2 DEF Future!SpawnRefused, FutureTold
<1>3. CASE Future!SpawnThrows
  BY <1>3 DEF Future!SpawnThrows, FutureTold
<1>4. CASE Future!OpCompletes
  BY <1>4 DEF Future!OpCompletes, FutureResults, FutureTold
<1>5. CASE Future!OpExchange
  BY <1>5 DEF Future!OpExchange, FutureTold
<1>6. CASE Future!OpDeliver
  <2>1. futureSignals = <<>>
    BY <1>6 DEF Future!OpDeliver, FutureTypes, FutureDelivers, FutureTold
  <2> QED
    BY <1>6, <2>1, AppendToNone
       DEF Future!OpDeliver, Future!CompleteReceiver, FutureDelivers, FutureResults, FutureTold
<1>7. CASE Future!OpDestroy
  BY <1>7 DEF Future!OpDestroy, FutureTold
<1>8. CASE Future!OpRelease
  BY <1>8 DEF Future!OpRelease, FutureTold
<1>9. CASE Future!AbandonStop
  BY <1>9 DEF Future!AbandonStop, FutureTold
<1>10. CASE Future!AbandonStopped
  BY <1>10 DEF Future!AbandonStopped, FutureTold
<1>11. CASE Future!AbandonExchange
  BY <1>11 DEF Future!AbandonExchange, FutureTold
<1>12. CASE Future!Start
  BY <1>12 DEF Future!Start, FutureTold
<1>13. CASE Future!StartThrows
  <2>1. futureSignals = <<>>
    BY <1>13 DEF Future!StartThrows, FutureTold
  <2> QED
    BY <1>13, <2>1, AppendToNone DEF Future!StartThrows, FutureCallback, FutureTold
<1>14. CASE Future!ConsumeCas
  BY <1>14 DEF Future!ConsumeCas, FutureTold
<1>15. CASE Future!ConsumeNegotiate
  BY <1>15 DEF Future!ConsumeNegotiate, FutureTold
<1>16. CASE Future!Consume
  <2>1. futureSignals = <<>>
    BY <1>16 DEF Future!Consume, FutureTypes, FutureWord, FutureLeft, FutureDelivers,
       FutureGivenUp, FutureTold
  <2> QED
    BY <1>16, <2>1, AppendToNone DEF Future!Consume, Future!CompleteReceiver, FutureTypes,
       FutureWord, FutureGivenUp, FutureResults, FutureTold
<1>17. CASE Future!ConsumeGiveUp
  <2>1. futureSignals = <<>>
    BY <1>17 DEF Future!ConsumeGiveUp, FutureTypes, FutureWord, FutureLeft, FutureDelivers,
       FutureGivenUp, FutureTold
  <2> QED
    BY <1>17, <2>1, AppendToNone DEF Future!ConsumeGiveUp, Future!CompleteReceiver,
       FutureTypes, FutureCallback, FutureWord, FutureLeft, FutureDelivers, FutureGivenUp,
       FutureTold
<1>18. CASE Future!ConsumerDestroy
  BY <1>18 DEF Future!ConsumerDestroy, FutureTold
<1>19. CASE Future!ConsumerRelease
  BY <1>19 DEF Future!ConsumerRelease, FutureTold
<1>20. CASE Future!RequestStop
  BY <1>20 DEF Future!RequestStop, FutureTold
<1>21. CASE Future!CancelStop
  BY <1>21 DEF Future!CancelStop, FutureTold
<1>22. CASE Future!CancelStopped
  BY <1>22 DEF Future!CancelStopped, FutureTold
<1>23. CASE Future!CancelCas
  BY <1>23 DEF Future!CancelCas, FutureTold
<1>24. CASE Future!CancelExchange
  BY <1>24 DEF Future!CancelExchange, FutureTold
<1>25. CASE Future!CancelGiveUp
  <2>1. futureSignals = <<>>
    BY <1>25 DEF Future!CancelGiveUp, FutureTypes, FutureCallback, FutureTold
  <2> QED
    BY <1>25, <2>1, AppendToNone DEF Future!CancelGiveUp, Future!CompleteReceiver, FutureTypes,
       FutureCallback, FutureWord, FutureLeft, FutureTold
<1>26. CASE Future!CancelReturn
  BY <1>26 DEF Future!CancelReturn, FutureTold
<1>27. CASE UNCHANGED Future!vars
  BY <1>27 DEF Future!vars, FutureTold
<1> QED
  BY <1>1, <1>2, <1>3, <1>4, <1>5, <1>6, <1>7, <1>8, <1>9, <1>10, <1>11, <1>12, <1>13, <1>14,
     <1>15, <1>16, <1>17, <1>18, <1>19, <1>20, <1>21, <1>22, <1>23, <1>24, <1>25, <1>26, <1>27
     DEF Future!Next, Future!Operation, Future!Consumer, Future!Canceller, Future!Rest

LEMMA FutureStarts ==
  ASSUME Future!Init
  PROVE  FutureInv
BY DEF Future!Init, FutureInv, FutureTypes, FutureCallback, FutureWord, FutureLeft,
   FutureDelivers, FutureGivenUp, FutureLives, FutureResults, FutureTold, Dropping

LEMMA FutureStep ==
  ASSUME InlineOn \subseteq {"consumer"}, FutureInv, [Future!Next]_Future!vars
  PROVE  FutureInv'
BY FutureTypesKept, FutureCallbackKept, FutureWordKept, FutureLeftKept, FutureDeliversKept,
   FutureGivenUpKept, FutureLivesKept, FutureResultsKept, FutureToldKept DEF FutureInv

LEMMA FutureSafe ==
  ASSUME FutureInv
  PROVE  Future!OutlivesUse /\ Future!AssertsHold /\ Future!SignalHasReason
<1> USE DEF FutureInv, Dropping
<1>1. Future!OutlivesUse
  BY DEF Future!OutlivesUse, Future!CancelKeepsState, FutureTypes, FutureCallback, FutureWord,
     FutureLeft,
   FutureDelivers, FutureGivenUp, FutureLives
<1>2. Future!AssertsHold
  BY DEF Future!AssertsHold, FutureTypes, FutureCallback, FutureWord, FutureLeft,
   FutureDelivers, FutureGivenUp, FutureResults
<1>3. futureSignals = <<>> \/ \E s \in {futureResult, "stopped", "error"} :
         /\ futureSignals = <<s>>
         /\ \/ s = futureResult
            \/ s = "stopped" /\ futureStop /\ ppc # "left"
            \/ s = "error" /\ cb = "none"
  BY DEF FutureTold, FutureTypes
<1>4. Future!SignalHasReason
  <2>1. CASE futureSignals = <<>>
    BY <2>1 DEF Future!SignalHasReason
  <2>2. CASE futureSignals # <<>>
    <3>1. PICK s \in {futureResult, "stopped", "error"} :
         /\ futureSignals = <<s>>
         /\ \/ s = futureResult
            \/ s = "stopped" /\ futureStop /\ ppc # "left"
            \/ s = "error" /\ cb = "none"
      BY <1>3, <2>2
    <3>2. Len(futureSignals) = 1 /\ DOMAIN futureSignals = 1 .. 1 /\ futureSignals[1] = s
      BY <3>1
    <3>3. ASSUME NEW i \in DOMAIN futureSignals PROVE i = 1
      BY <3>2
    <3> QED
      BY <3>1, <3>2, <3>3 DEF Future!SignalHasReason
  <2> QED
    BY <2>1, <2>2
<1> QED
  BY <1>1, <1>2, <1>4

HIDE DEF Future!state, Future!pvars, Future!cancel

-----------------------------------------------------------------------------
(* split and ensure_started: the reference count, the list of the waiting    *)
(* operations, and the stop callback of each.                                *)

SharedOpSteps ==
  {"none", "connected", "check", "tryStart", "setRef", "startOp", "starting", "add",
   "waiting", "notify", "reset", "leaving", "told", "destroying", "gone"}
SharedSenderSteps == {"tryStart", "setRef", "startOp", "starting", "held", "moved", "dropped"}
SharedDetaching  == {"count", "stopping", "drop"}

SharedTypes ==
  /\ refs \subseteq Shared!Holders \cup {Shared!Self} /\ temps \subseteq Shared!Holders
  /\ flag \in BOOLEAN /\ sharedAsked \in BOOLEAN /\ over \in BOOLEAN
  /\ results \in {"stopped", "value"}
  /\ waiters \in Seq(Ops) /\ todo \in Seq(Ops) /\ item \in Ops \cup {Shared!Self}
  /\ opc \in {"idle", "running", "swap", "advance", "notify", "done"}
  /\ spc \in [Shared!Holders -> SharedOpSteps \cup SharedSenderSteps]
  /\ spc[Shared!Sender] \in SharedSenderSteps /\ \A o \in Ops : spc[o] \in SharedOpSteps
  /\ dpc \in [Shared!Holders -> {"no", "load", "count", "stopping", "drop", "release", "done"}]
  /\ onStop \in [Ops -> {"none", "registered", "remove", "detach", "ran", "gone"}]
  /\ ext \in [Ops -> BOOLEAN]
  /\ told \in [Ops -> {<<>>, <<"value">>, <<"stopped">>}]

\* Who holds a reference: an operation from its connection, the sender until it is moved,
\* each of them until its __detach() has released it.
SharedReferences ==
  /\ \A o \in Ops : o \in refs <=> spc[o] # "none" /\ dpc[o] # "done"
  /\ Shared!Sender \in refs <=> spc[Shared!Sender] # "moved" /\ dpc[Shared!Sender] # "done"
  /\ \A h \in Shared!Holders : h \in temps <=> dpc[h] \in {"count", "stopping", "drop"}

\* Who detaches is on its way out.
SharedDetaches ==
  /\ dpc[Shared!Sender] # "no" => spc[Shared!Sender] = "dropped"
  /\ \A o \in Ops : dpc[o] # "no" =>
       \/ spc[o] \in {"leaving", "told", "destroying", "gone"}
       \/ spc[o] = "waiting" /\ onStop[o] = "detach"
  /\ \A o \in Ops : spc[o] \in {"told", "gone"} => dpc[o] \in {"no", "done"}

\* The list and its copy.
SharedDistinct(s) == \A i, j \in 1 .. Len(s) : s[i] = s[j] => i = j
SharedListed(o) ==
  \/ \E i \in 1 .. Len(waiters) : waiters[i] = o
  \/ \E i \in 1 .. Len(todo) : todo[i] = o
  \/ opc = "notify" /\ item = o

SharedLists ==
  /\ over <=> opc \in {"advance", "notify", "done"}
  /\ IF over THEN waiters = <<>> ELSE todo = <<>>
  /\ SharedDistinct(waiters) /\ SharedDistinct(todo)
  /\ opc = "notify" => item \in Ops /\ \A i \in 1 .. Len(todo) : todo[i] # item
  /\ \A o \in Ops : SharedListed(o) => spc[o] = "waiting" /\ onStop[o] # "detach"
  /\ \A o \in Ops : spc[o] = "notify" => over

\* The stop callback is at work only for an operation that is under way.
SharedCallbacks ==
  /\ \A o \in Ops : onStop[o] \in {"remove", "detach"} => ext[o]
  /\ \A o \in Ops : spc[o] \in {"none", "connected"} => onStop[o] = "none"
  /\ \A o \in Ops : spc[o] \in {"leaving", "told", "destroying", "gone"} =>
       onStop[o] \in {"none", "ran", "gone"}
  /\ \A o \in Ops : onStop[o] = "detach" => spc[o] = "waiting"
  /\ \A o \in Ops : spc[o] \in {"reset", "leaving"} => ext[o]

\* The shared operation is started once, and the state keeps itself while it runs.
SharedStartsOnce ==
  /\ \A h \in Shared!Holders : spc[h] \in {"setRef", "startOp"} => flag /\ opc = "idle"
  /\ \A h, k \in Shared!Holders :
       spc[h] \in {"setRef", "startOp"} /\ spc[k] \in {"setRef", "startOp"} => h = k
  /\ ~flag => opc = "idle"
  /\ \A h \in Shared!Holders : spc[h] = "startOp" => Shared!Self \in refs
  /\ opc \in {"running", "swap", "advance", "notify"} => Shared!Self \in refs
  /\ \A h \in Shared!Holders : dpc[h] = "count" => Shared!Self \in refs \/ opc = "done"

\* All consumers have gone, but for one that is on its last steps.
SharedAllGone == \A h \in refs \ {Shared!Self} : dpc[h] \in {"stopping", "drop", "release"}

\* The shared operation is asked to stop, and sends stopped, when they have.
SharedAsked ==
  /\ sharedAsked /\ opc \in {"idle", "running"} => SharedAllGone
  /\ results = "stopped" /\ opc # "idle" /\ opc # "running" => SharedAllGone

\* Who has been told.
SharedTold ==
  /\ \A o \in Ops : spc[o] \notin {"told", "destroying", "gone"} => told[o] = <<>>
  /\ \A o \in Ops : told[o] = <<"stopped">> => ext[o]

SharedInv ==
  /\ SharedTypes /\ SharedReferences /\ SharedDetaches /\ SharedLists
  /\ SharedCallbacks /\ SharedStartsOnce /\ SharedAsked /\ SharedTold

USE DEF Shared!count, Shared!start, Shared!list, Shared!shop

LEMMA SharedNames == ASSUME Shared!ProperOps
  PROVE  /\ Shared!Sender \notin Ops /\ Shared!Sender \in Shared!Holders
         /\ Shared!Self \notin Shared!Holders
         /\ Shared!Holders = Ops \cup {Shared!Sender} /\ Ops \subseteq Shared!Holders
BY DEF Shared!ProperOps, Shared!Holders, Shared!Sender, Shared!Self

\* The instance brings its own copies of these operators.
LEMMA SharedSizes ==
  \A S : /\ Shared!Cardinality(S) = Cardinality(S)
         /\ Shared!IsFiniteSet(S) = IsFiniteSet(S)
BY DEF Shared!Cardinality, Shared!IsFiniteSet, Cardinality, IsFiniteSet

\* What is taken out of a list, pushed to its front or taken from it leaves the list one
\* without repetitions.
LEMMA SharedRemovedIs ==
  ASSUME NEW s \in Seq(Ops), NEW i \in 1 .. Len(s), SharedDistinct(s)
  PROVE  /\ Shared!RemoveAt(s, i) \in Seq(Ops) /\ SharedDistinct(Shared!RemoveAt(s, i))
         /\ \A j \in 1 .. Len(Shared!RemoveAt(s, i)) :
              /\ Shared!RemoveAt(s, i)[j] # s[i]
              /\ \E k \in 1 .. Len(s) : Shared!RemoveAt(s, i)[j] = s[k]
<1> DEFINE r == Shared!RemoveAt(s, i)
           a == SubSeq(s, 1, i - 1)
           b == SubSeq(s, i + 1, Len(s))
<1>a. a \in Seq(Ops) /\ Len(a) = i - 1 /\ \A j \in 1 .. (i - 1) : a[j] = s[j]
  <2>1. 1 \in Int /\ i - 1 \in Int /\ \A j \in 1 .. (i - 1) : s[j] \in Ops
    OBVIOUS
  <2> QED
    BY <2>1, SubSeqProperties
<1>b. b \in Seq(Ops) /\ Len(b) = Len(s) - i /\ \A j \in 1 .. (Len(s) - i) : b[j] = s[i + j]
  <2>1. i + 1 \in Int /\ Len(s) \in Int /\ \A j \in (i + 1) .. Len(s) : s[j] \in Ops
    OBVIOUS
  <2> QED
    BY <2>1, SubSeqProperties
<1>c. r = a \o b
  BY DEF Shared!RemoveAt
<1> HIDE DEF a, b, r
<1>1. r \in Seq(Ops) /\ Len(r) = Len(s) - 1
  BY <1>a, <1>b, <1>c, ConcatProperties
<1>2. \A j \in 1 .. Len(r) : r[j] = IF j < i THEN s[j] ELSE s[j + 1]
  <2> SUFFICES ASSUME NEW j \in 1 .. Len(r) PROVE r[j] = IF j < i THEN s[j] ELSE s[j + 1]
    OBVIOUS
  <2>1. r[j] = IF j <= Len(a) THEN a[j] ELSE b[j - Len(a)]
    BY <1>1, <1>a, <1>b, <1>c, ConcatProperties
  <2>2. CASE j < i
    BY <2>1, <2>2, <1>a
  <2>3. CASE j >= i
    <3>1. j - Len(a) = j - i + 1 /\ j - i + 1 \in 1 .. (Len(s) - i) /\ ~(j <= Len(a))
      BY <2>3, <1>a, <1>1
    <3>2. i + (j - i + 1) = j + 1
      BY <2>3
    <3>3. b[j - i + 1] = s[j + 1]
      BY <3>1, <3>2, <1>b
    <3> QED
      BY <2>1, <2>3, <3>1, <3>3
  <2> QED
    BY <2>2, <2>3, <1>1
<1> HIDE DEF r
<1>3. \A j \in 1 .. Len(r) : (IF j < i THEN j ELSE j + 1) \in 1 .. Len(s)
                              /\ (IF j < i THEN j ELSE j + 1) # i
  BY <1>1
<1>4. SharedDistinct(r)
  BY <1>1, <1>2, <1>3 DEF SharedDistinct
<1>5. \A j \in 1 .. Len(r) : r[j] # s[i] /\ \E k \in 1 .. Len(s) : r[j] = s[k]
  BY <1>1, <1>2, <1>3 DEF SharedDistinct
<1> QED
  BY <1>1, <1>4, <1>5 DEF r

LEMMA SharedPushedIs ==
  ASSUME NEW s \in Seq(Ops), NEW o \in Ops, SharedDistinct(s), \A i \in 1 .. Len(s) : s[i] # o
  PROVE  /\ <<o>> \o s \in Seq(Ops) /\ SharedDistinct(<<o>> \o s)
         /\ \A j \in 1 .. Len(<<o>> \o s) :
              (<<o>> \o s)[j] = o \/ \E k \in 1 .. Len(s) : (<<o>> \o s)[j] = s[k]
<1> DEFINE r == <<o>> \o s
<1>1. r \in Seq(Ops) /\ Len(r) = Len(s) + 1 /\ r[1] = o
  OBVIOUS
<1>2. \A j \in 2 .. Len(r) : r[j] = s[j - 1] /\ j - 1 \in 1 .. Len(s)
  BY <1>1
<1> HIDE DEF r
<1>3. \A j \in 1 .. Len(r) : j = 1 \/ j \in 2 .. Len(r)
  BY <1>1
<1>4. \A j \in 1 .. Len(r) : r[j] = o \/ \E k \in 1 .. Len(s) : r[j] = s[k]
  BY <1>1, <1>2, <1>3
<1>5. SharedDistinct(r)
  <2> SUFFICES ASSUME NEW i \in 1 .. Len(r), NEW j \in 1 .. Len(r), r[i] = r[j] PROVE i = j
    BY DEF SharedDistinct
  <2>1. CASE i = 1 \/ j = 1
    BY <1>1, <1>2, <1>3, <2>1
  <2>2. CASE i # 1 /\ j # 1
    <3>1. i - 1 = j - 1
      BY <1>2, <1>3, <2>2 DEF SharedDistinct
    <3> QED
      BY <3>1
  <2> QED
    BY <2>1, <2>2
<1> QED
  BY <1>1, <1>4, <1>5 DEF r

LEMMA SharedTakenIs ==
  ASSUME NEW s \in Seq(Ops), s # <<>>, SharedDistinct(s)
  PROVE  /\ Head(s) \in Ops /\ Tail(s) \in Seq(Ops) /\ SharedDistinct(Tail(s))
         /\ \E k \in 1 .. Len(s) : Head(s) = s[k]
         /\ \A j \in 1 .. Len(Tail(s)) :
              Tail(s)[j] # Head(s) /\ \E k \in 1 .. Len(s) : Tail(s)[j] = s[k]
<1>1. /\ Tail(s) \in Seq(Ops) /\ Len(Tail(s)) = Len(s) - 1 /\ Len(s) \in Nat \ {0}
      /\ Head(s) = s[1] /\ s[1] \in Ops
      /\ \A j \in 1 .. (Len(s) - 1) : Tail(s)[j] = s[j + 1]
  OBVIOUS
<1> DEFINE r == Tail(s)
<1> HIDE DEF r
<1>2. \A j \in 1 .. (Len(s) - 1) : j + 1 \in 1 .. Len(s) /\ j + 1 # 1 /\ 1 \in 1 .. Len(s)
  BY <1>1
<1> QED
  BY <1>1, <1>2 DEF SharedDistinct

\* Three references are those of the holder, of the state and in hand.
LEMMA SharedThreeAreUs ==
  ASSUME Shared!ProperOps, SharedTypes, SharedReferences, SharedDetaches,
         NEW h \in temps, Shared!Self \in refs, Shared!LastConsumer
  PROVE  refs = {h, Shared!Self}
<1>1. h \in refs /\ h # Shared!Self
  <2>1. h \in Shared!Holders /\ dpc[h] # "done" /\ dpc[h] # "no"
    BY DEF SharedReferences, SharedTypes
  <2> QED
    BY <2>1, SharedNames DEF SharedReferences, SharedDetaches
<1>2. IsFiniteSet(refs) /\ IsFiniteSet(temps)
  <2>1. IsFiniteSet(Shared!Holders)
    BY FS_AddElement, SharedSizes DEF Shared!ProperOps, Shared!Holders
  <2>2. IsFiniteSet(Shared!Holders \cup {Shared!Self})
    BY <2>1, FS_AddElement
  <2> QED
    BY <2>1, <2>2, FS_Subset DEF SharedTypes
<1>3. Cardinality(refs) \in Nat /\ Cardinality(temps) \in Nat
  BY <1>2, FS_CardinalityType
<1>4. Cardinality(temps) >= 1
  BY <1>2, <1>3, FS_EmptySet
<1> SUFFICES ASSUME NEW x \in refs, x # h, x # Shared!Self PROVE FALSE
  BY <1>1
<1>5. Cardinality(refs \ {h}) = Cardinality(refs) - 1 /\ IsFiniteSet(refs \ {h})
  BY <1>1, <1>2, FS_RemoveElement
<1>6. /\ Cardinality((refs \ {h}) \ {Shared!Self}) = Cardinality(refs) - 2
      /\ IsFiniteSet((refs \ {h}) \ {Shared!Self})
  <2>1. Shared!Self \in refs \ {h}
    BY <1>1
  <2>2. /\ Cardinality((refs \ {h}) \ {Shared!Self}) = Cardinality(refs \ {h}) - 1
        /\ IsFiniteSet((refs \ {h}) \ {Shared!Self})
    BY <2>1, <1>5, FS_RemoveElement
  <2> QED
    BY <2>2, <1>5, <1>3
<1>7. Cardinality((refs \ {h}) \ {Shared!Self}) >= 1
  <2>1. x \in (refs \ {h}) \ {Shared!Self}
    OBVIOUS
  <2> QED
    BY <2>1, <1>6, FS_EmptySet, FS_CardinalityType
<1> QED
  BY <1>3, <1>4, <1>6, <1>7, SharedSizes DEF Shared!LastConsumer

\* What the steps do that put an operation on the list, take it off, and complete it from
\* the copy of the list.
SharedPushing(o) ==
  /\ spc[o] = "add" /\ onStop[o] # "detach" /\ o \in Shared!Holders
  /\ waiters' \in Seq(Ops) /\ SharedDistinct(waiters')
  /\ \A j \in 1 .. Len(waiters') :
       waiters'[j] = o \/ \E k \in 1 .. Len(waiters) : waiters'[j] = waiters[k]
  /\ spc' = [spc EXCEPT ![o] = "waiting"]
  /\ UNCHANGED <<tag, Shared!count, Shared!start, over, Shared!shop, dpc, onStop, ext,
                told>>

SharedTakingOff(o) ==
  /\ spc[o] = "waiting" /\ dpc[o] = "no" /\ o \in refs /\ ~over
  /\ onStop[o] = "remove" /\ o \in Shared!Holders
  /\ waiters' \in Seq(Ops) /\ SharedDistinct(waiters')
  /\ \A j \in 1 .. Len(waiters') :
       waiters'[j] # o /\ \E k \in 1 .. Len(waiters) : waiters'[j] = waiters[k]
  /\ dpc' = [dpc EXCEPT ![o] = "load"]
  /\ UNCHANGED <<tag, Shared!count, Shared!start, over, Shared!shop, spc, ext, told>>

SharedNotifying ==
  /\ opc = "notify" /\ item \in Ops /\ item \in Shared!Holders
  /\ spc[item] = "waiting" /\ onStop[item] \notin {"remove", "detach"}
  /\ dpc[item] = "no" /\ told[item] = <<>>
  /\ Shared!Self \in refs /\ results \in {"stopped", "value"}
  /\ opc' = "advance" /\ spc' = [spc EXCEPT ![item] = "told"]
  /\ told' = [told EXCEPT ![item] = <<results>>]
  /\ onStop' = [onStop EXCEPT ![item] = "gone"]
  /\ UNCHANGED <<tag, Shared!count, Shared!start, Shared!list, results, sharedOn, todo,
                item, dpc, ext>>

LEMMA SharedPushes ==
  ASSUME Shared!ProperOps, SharedInv, NEW o \in Ops, Shared!AddWaiter(o), ~over, ~ext[o]
  PROVE  SharedPushing(o)
<1>1. /\ waiters' = <<o>> \o waiters /\ spc' = [spc EXCEPT ![o] = "waiting"] /\ spc[o] = "add"
      /\ UNCHANGED <<tag, Shared!count, Shared!start, over, Shared!shop, dpc, onStop, ext,
                    told>>
  BY DEF Shared!AddWaiter, Shared!Goto
<1>2. \A i \in 1 .. Len(waiters) : waiters[i] # o
  BY <1>1 DEF SharedInv, SharedLists, SharedListed
<1>3. waiters \in Seq(Ops) /\ SharedDistinct(waiters)
  BY DEF SharedInv, SharedTypes, SharedLists
<1>4. /\ waiters' \in Seq(Ops) /\ SharedDistinct(waiters')
      /\ \A j \in 1 .. Len(waiters') :
           waiters'[j] = o \/ \E k \in 1 .. Len(waiters) : waiters'[j] = waiters[k]
  BY ONLY <1>3, <1>1, <1>2, SharedPushedIs, o \in Ops
<1>5. onStop[o] # "detach" /\ o \in Shared!Holders
  BY <1>1, SharedNames DEF SharedInv, SharedCallbacks
<1> QED
  BY <1>1, <1>4, <1>5 DEF SharedPushing

LEMMA SharedTakenOff ==
  ASSUME Shared!ProperOps, SharedInv, NEW o \in Ops, Shared!CallbackRemove(o),
         NEW i \in 1 .. Len(waiters), waiters[i] = o, waiters' = Shared!RemoveAt(waiters, i),
         Shared!DetachGoto(o, "load")
  PROVE  SharedTakingOff(o)
<1>1. spc[o] = "waiting" /\ dpc[o] = "no" /\ o \in refs /\ ~over
  BY DEF SharedInv, SharedLists, SharedListed, SharedDetaches, SharedReferences
<1>2. waiters \in Seq(Ops) /\ SharedDistinct(waiters)
  BY DEF SharedInv, SharedTypes, SharedLists
<1>3. /\ waiters' \in Seq(Ops) /\ SharedDistinct(waiters')
      /\ \A j \in 1 .. Len(waiters') :
           waiters'[j] # o /\ \E k \in 1 .. Len(waiters) : waiters'[j] = waiters[k]
  BY <1>2, SharedRemovedIs
<1>4. /\ onStop[o] = "remove" /\ o \in Shared!Holders
      /\ UNCHANGED <<tag, Shared!count, Shared!start, over, Shared!shop, spc, ext, told>>
  BY SharedNames DEF Shared!CallbackRemove
<1>5. dpc' = [dpc EXCEPT ![o] = "load"]
  BY DEF Shared!DetachGoto
<1> QED
  BY <1>1, <1>3, <1>4, <1>5 DEF SharedTakingOff

LEMMA SharedNotified ==
  ASSUME Shared!ProperOps, SharedInv, Shared!NotifyWaiter
  PROVE  SharedNotifying
<1> USE DEF SharedInv
<1>1. /\ opc = "notify" /\ item \in Ops /\ spc[item] = "waiting" /\ onStop[item] # "detach"
      /\ dpc[item] = "no" /\ told[item] = <<>> /\ Shared!Self \in refs
      /\ results \in {"stopped", "value"}
  BY DEF Shared!NotifyWaiter, SharedLists, SharedListed, SharedDetaches, SharedTold,
     SharedStartsOnce, SharedTypes
<1>2. /\ opc' = "advance" /\ spc' = [spc EXCEPT ![item] = "told"]
      /\ told' = [told EXCEPT ![item] = <<results>>]
      /\ onStop' = [onStop EXCEPT ![item] = "gone"]
      /\ onStop[item] \notin {"remove", "detach"}
      /\ UNCHANGED <<tag, Shared!count, Shared!start, Shared!list, results, sharedOn, todo,
                    item, dpc, ext>>
  BY <1>1, AppendToNone
     DEF Shared!NotifyWaiter, Shared!Notify, Shared!Reset, Shared!Goto, Shared!Tell
<1>3. item \in Shared!Holders
  BY <1>1, SharedNames
<1> QED
  BY <1>1, <1>2, <1>3 DEF SharedNotifying

LEMMA SharedTypesKept ==
  ASSUME Shared!ProperOps, SharedInv, [Shared!Next]_Shared!vars
  PROVE  SharedTypes'
<1> USE DEF SharedInv, Shared!ProperOps
<1>1. CASE Shared!DropSender
  BY <1>1 DEF Shared!DropSender, SharedTypes, SharedSenderSteps, Shared!Holders, Shared!Goto,
     Shared!DetachGoto
<1>2. CASE Shared!OpCompletes
  BY <1>2 DEF Shared!OpCompletes, SharedTypes
<1>3. CASE Shared!Swap
  BY <1>3 DEF Shared!Swap, SharedTypes
<1>4. CASE Shared!Advance
  <2>1. /\ Head(todo) \in Ops /\ Tail(todo) \in Seq(Ops) /\ SharedDistinct(Tail(todo))
        /\ \E k \in 1 .. Len(todo) : Head(todo) = todo[k]
        /\ \A j \in 1 .. Len(Tail(todo)) :
              Tail(todo)[j] # Head(todo) /\ \E k \in 1 .. Len(todo) : Tail(todo)[j] = todo[k]
    BY <1>4, SharedTakenIs DEF Shared!Advance, SharedLists, SharedTypes
  <2>2. /\ item' = Head(todo) /\ todo' = Tail(todo) /\ opc = "advance" /\ opc' = "notify"
        /\ UNCHANGED <<tag, Shared!count, Shared!start, Shared!list, results, sharedOn, spc,
                       dpc, onStop, ext, told>>
    BY <1>4 DEF Shared!Advance
  <2> QED
    BY <2>1, <2>2 DEF SharedTypes
<1>5. CASE Shared!NotifyWaiter
  <2>1. SharedNotifying
    BY <1>5, SharedNotified
  <2> QED
    BY <2>1 DEF SharedNotifying, SharedTypes, SharedOpSteps
<1>6. CASE Shared!SetCompleted
  BY <1>6 DEF Shared!SetCompleted, SharedTypes
<1>7. ASSUME NEW h \in Shared!Holders, Shared!DetachLoad(h) PROVE SharedTypes'
  BY <1>7 DEF Shared!DetachLoad, SharedTypes, Shared!DetachGoto
<1>8. ASSUME NEW h \in Shared!Holders, Shared!DetachCount(h) PROVE SharedTypes'
  BY <1>8 DEF Shared!DetachCount, SharedTypes, Shared!DetachGoto
<1>9. ASSUME NEW h \in Shared!Holders, Shared!DetachStopped(h) PROVE SharedTypes'
  BY <1>9 DEF Shared!DetachStopped, SharedTypes, Shared!DetachGoto
<1>10. ASSUME NEW h \in Shared!Holders, Shared!DetachDrop(h) PROVE SharedTypes'
  BY <1>10 DEF Shared!DetachDrop, SharedTypes, Shared!DetachGoto
<1>11. ASSUME NEW h \in Shared!Holders, Shared!DetachRelease(h) PROVE SharedTypes'
  BY <1>11 DEF Shared!DetachRelease, SharedTypes, Shared!DetachGoto
<1>12. ASSUME NEW h \in Shared!Holders, Shared!TestAndSet(h) PROVE SharedTypes'
  BY <1>12 DEF Shared!TestAndSet, Shared!AfterStart, SharedTypes, SharedOpSteps,
     SharedSenderSteps, Shared!Goto
<1>13. ASSUME NEW h \in Shared!Holders, Shared!SetRef(h) PROVE SharedTypes'
  BY <1>13 DEF Shared!SetRef, SharedTypes, SharedOpSteps, SharedSenderSteps, Shared!Goto
<1>14. ASSUME NEW h \in Shared!Holders, Shared!StartOp(h) PROVE SharedTypes'
  BY <1>14 DEF Shared!StartOp, SharedTypes, SharedOpSteps, SharedSenderSteps, Shared!Goto
<1>15. ASSUME NEW h \in Shared!Holders, Shared!StartReturns(h) PROVE SharedTypes'
  BY <1>15 DEF Shared!StartReturns, Shared!AfterStart, SharedTypes, SharedOpSteps,
     SharedSenderSteps, Shared!Goto
<1>16. ASSUME NEW o \in Ops, Shared!Connect(o) PROVE SharedTypes'
  BY <1>16
     DEF Shared!Connect, SharedTypes, SharedOpSteps, SharedSenderSteps, Shared!Holders,
     Shared!Goto
<1>17. ASSUME NEW o \in Ops, Shared!Start(o) PROVE SharedTypes'
  BY <1>17 DEF Shared!Start, SharedTypes, SharedOpSteps, Shared!Holders, Shared!Goto
<1>18. ASSUME NEW o \in Ops, Shared!Check(o) PROVE SharedTypes'
  BY <1>18 DEF Shared!Check, SharedTypes, SharedOpSteps, Shared!Holders, Shared!Goto
<1>19. ASSUME NEW o \in Ops, Shared!AddWaiter(o) PROVE SharedTypes'
  <2>1. CASE over
    BY <1>19, <2>1, SharedNames
       DEF Shared!AddWaiter, SharedTypes, SharedOpSteps, Shared!Holders, Shared!Goto
  <2>3. CASE ~over /\ ext[o]
    <3>1. spc' = [spc EXCEPT ![o] = "reset"] /\ spc[o] = "add" /\ UNCHANGED waiters
          /\ UNCHANGED <<tag, Shared!count, Shared!start, over, Shared!shop, dpc, onStop, ext,
                         told>>
      BY <1>19, <2>3 DEF Shared!AddWaiter, Shared!Goto
    <3> QED
      BY <3>1, <2>3, SharedNames DEF SharedTypes, SharedOpSteps
  <2>2. CASE ~over /\ ~ext[o]
    <3>1. SharedPushing(o)
      BY <1>19, <2>2, SharedPushes
    <3> QED
      BY <2>2, <3>1, SharedNames DEF SharedPushing, SharedTypes, SharedOpSteps
  <2> QED
    BY <2>1, <2>2, <2>3
<1>20. ASSUME NEW o \in Ops, Shared!GiveUp(o) PROVE SharedTypes'
  BY <1>20 DEF Shared!GiveUp, Shared!Reset, SharedTypes, SharedOpSteps, Shared!Holders,
     Shared!Goto, Shared!DetachGoto
<1>21. ASSUME NEW o \in Ops, Shared!GaveUp(o) PROVE SharedTypes'
  <2>1. told[o] = <<>>
    BY <1>21 DEF Shared!GaveUp, SharedTold
  <2>2. told' = [told EXCEPT ![o] = <<"stopped">>]
    BY <1>21, <2>1 DEF Shared!GaveUp, Shared!Tell
  <2> QED
    BY <1>21, <2>1, <2>2, SharedNames DEF Shared!GaveUp, SharedTypes, SharedOpSteps, Shared!Goto
<1>22. ASSUME NEW o \in Ops, Shared!NotifySelf(o) PROVE SharedTypes'
  <2>1. told[o] = <<>>
    BY <1>22 DEF Shared!NotifySelf, SharedTold
  <2>2. told' = [told EXCEPT ![o] = <<results>>]
    BY <1>22, <2>1 DEF Shared!NotifySelf, Shared!Tell, Shared!Notify
  <2> QED
    BY <1>22, <2>1, <2>2, SharedNames
       DEF Shared!NotifySelf, Shared!Notify, Shared!Reset, SharedTypes, SharedOpSteps,
       Shared!Goto
<1>23. ASSUME NEW o \in Ops, Shared!Destroy(o) PROVE SharedTypes'
  BY <1>23, SharedNames DEF Shared!Destroy, SharedTypes, SharedOpSteps, SharedSenderSteps,
     Shared!Holders, Shared!Goto, Shared!DetachGoto
<1>24. ASSUME NEW o \in Ops, Shared!Destroyed(o) PROVE SharedTypes'
  BY <1>24 DEF Shared!Destroyed, SharedTypes, SharedOpSteps, Shared!Holders, Shared!Goto
<1>25. ASSUME NEW o \in Ops, Shared!Stop(o) PROVE SharedTypes'
  BY <1>25 DEF Shared!Stop, SharedTypes
<1>26. ASSUME NEW o \in Ops, Shared!CallbackBegins(o) PROVE SharedTypes'
  BY <1>26 DEF Shared!CallbackBegins, SharedTypes
<1>27. ASSUME NEW o \in Ops, Shared!CallbackRemove(o) PROVE SharedTypes'
  <2>1. CASE /\ ~Shared!Contains(waiters, o) /\ onStop' = [onStop EXCEPT ![o] = "ran"]
            /\ UNCHANGED <<waiters, dpc>>
    BY <1>27, <2>1 DEF Shared!CallbackRemove, SharedTypes
  <2>2. ASSUME NEW i \in 1 .. Len(waiters), waiters[i] = o, waiters' = Shared!RemoveAt(waiters,
               i),
               onStop' = [onStop EXCEPT ![o] = "detach"], Shared!DetachGoto(o, "load")
        PROVE  SharedTypes'
    <3>1. SharedTakingOff(o)
      BY <1>27, <2>2, SharedTakenOff
    <3> QED
      BY <2>2, <3>1, SharedNames DEF SharedTakingOff, SharedTypes
  <2> QED
    BY <1>27, <2>1, <2>2 DEF Shared!CallbackRemove
<1>28. ASSUME NEW o \in Ops, Shared!CallbackTells(o) PROVE SharedTypes'
  <2>1. told[o] = <<>>
    BY <1>28 DEF Shared!CallbackTells, SharedTold, SharedCallbacks
  <2>2. told' = [told EXCEPT ![o] = <<"stopped">>]
    BY <1>28, <2>1 DEF Shared!CallbackTells, Shared!Tell
  <2> QED
    BY <1>28, <2>1, <2>2, SharedNames
       DEF Shared!CallbackTells, SharedTypes, SharedOpSteps, Shared!Goto
<1>29. CASE UNCHANGED Shared!vars
  BY <1>29 DEF Shared!vars, SharedTypes
<1> QED
  BY <1>1, <1>2, <1>3, <1>4, <1>5, <1>6, <1>7, <1>8, <1>9, <1>10, <1>11, <1>12, <1>13, <1>14,
     <1>15, <1>16, <1>17, <1>18, <1>19, <1>20, <1>21, <1>22, <1>23, <1>24, <1>25, <1>26, <1>27,
     <1>28, <1>29 DEF Shared!Next, Shared!Notifying, Shared!Finished, Shared!Starting,
     Shared!Detaching, Shared!Going, Shared!Calling

LEMMA SharedReferencesKept ==
  ASSUME Shared!ProperOps, SharedInv, [Shared!Next]_Shared!vars
  PROVE  SharedReferences'
<1> USE DEF SharedInv, Shared!ProperOps
<1>1. CASE Shared!DropSender
  BY <1>1
     DEF Shared!DropSender, SharedReferences, SharedDetaches, Shared!Goto, Shared!DetachGoto
<1>2. CASE Shared!OpCompletes
  BY <1>2 DEF Shared!OpCompletes, SharedReferences
<1>3. CASE Shared!Swap
  BY <1>3 DEF Shared!Swap, SharedReferences
<1>4. CASE Shared!Advance
  BY <1>4 DEF Shared!Advance, SharedReferences
<1>5. CASE Shared!NotifyWaiter
  <2>1. SharedNotifying
    BY <1>5, SharedNotified
  <2> QED
    BY <2>1 DEF SharedNotifying, SharedReferences
<1>6. CASE Shared!SetCompleted
  BY <1>6, SharedNames DEF Shared!SetCompleted, SharedReferences
<1>7. ASSUME NEW h \in Shared!Holders, Shared!DetachLoad(h) PROVE SharedReferences'
  BY <1>7
     DEF Shared!DetachLoad, SharedReferences, SharedTypes, Shared!Holders, Shared!DetachGoto
<1>8. ASSUME NEW h \in Shared!Holders, Shared!DetachCount(h) PROVE SharedReferences'
  BY <1>8 DEF Shared!DetachCount, SharedReferences, Shared!DetachGoto
<1>9. ASSUME NEW h \in Shared!Holders, Shared!DetachStopped(h) PROVE SharedReferences'
  BY <1>9 DEF Shared!DetachStopped, SharedReferences, Shared!DetachGoto
<1>10. ASSUME NEW h \in Shared!Holders, Shared!DetachDrop(h) PROVE SharedReferences'
  BY <1>10 DEF Shared!DetachDrop, SharedReferences, SharedTypes, Shared!DetachGoto
<1>11. ASSUME NEW h \in Shared!Holders, Shared!DetachRelease(h) PROVE SharedReferences'
  BY <1>11 DEF Shared!DetachRelease, SharedReferences, SharedTypes, Shared!DetachGoto
<1>12. ASSUME NEW h \in Shared!Holders, Shared!TestAndSet(h) PROVE SharedReferences'
  BY <1>12 DEF Shared!TestAndSet, Shared!AfterStart, SharedReferences, Shared!Goto
<1>13. ASSUME NEW h \in Shared!Holders, Shared!SetRef(h) PROVE SharedReferences'
  BY <1>13, SharedNames DEF Shared!SetRef, SharedReferences, Shared!Goto
<1>14. ASSUME NEW h \in Shared!Holders, Shared!StartOp(h) PROVE SharedReferences'
  BY <1>14 DEF Shared!StartOp, SharedReferences, Shared!Goto
<1>15. ASSUME NEW h \in Shared!Holders, Shared!StartReturns(h) PROVE SharedReferences'
  BY <1>15 DEF Shared!StartReturns, Shared!AfterStart, SharedReferences, Shared!Goto
<1>16. ASSUME NEW o \in Ops, Shared!Connect(o) PROVE SharedReferences'
  BY <1>16
     DEF Shared!Connect, SharedReferences, SharedDetaches, SharedTypes, Shared!Holders,
     Shared!Goto
<1>17. ASSUME NEW o \in Ops, Shared!Start(o) PROVE SharedReferences'
  BY <1>17 DEF Shared!Start, SharedReferences, Shared!Goto
<1>18. ASSUME NEW o \in Ops, Shared!Check(o) PROVE SharedReferences'
  BY <1>18 DEF Shared!Check, SharedReferences, Shared!Goto
<1>19. ASSUME NEW o \in Ops, Shared!AddWaiter(o) PROVE SharedReferences'
  BY <1>19 DEF Shared!AddWaiter, SharedReferences, SharedTypes, Shared!Holders, Shared!Goto
<1>20. ASSUME NEW o \in Ops, Shared!GiveUp(o) PROVE SharedReferences'
  BY <1>20 DEF Shared!GiveUp, SharedReferences, SharedDetaches, Shared!Goto, Shared!DetachGoto
<1>21. ASSUME NEW o \in Ops, Shared!GaveUp(o) PROVE SharedReferences'
  BY <1>21 DEF Shared!GaveUp, SharedReferences, Shared!Goto
<1>22. ASSUME NEW o \in Ops, Shared!NotifySelf(o) PROVE SharedReferences'
  BY <1>22 DEF Shared!NotifySelf, Shared!Notify, SharedReferences, Shared!Goto
<1>23. ASSUME NEW o \in Ops, Shared!Destroy(o) PROVE SharedReferences'
  BY <1>23, SharedNames DEF Shared!Destroy, SharedReferences, SharedDetaches, SharedTypes,
     Shared!Goto, Shared!DetachGoto
<1>24. ASSUME NEW o \in Ops, Shared!Destroyed(o) PROVE SharedReferences'
  BY <1>24 DEF Shared!Destroyed, SharedReferences, Shared!Goto
<1>25. ASSUME NEW o \in Ops, Shared!Stop(o) PROVE SharedReferences'
  BY <1>25 DEF Shared!Stop, SharedReferences
<1>26. ASSUME NEW o \in Ops, Shared!CallbackBegins(o) PROVE SharedReferences'
  BY <1>26 DEF Shared!CallbackBegins, SharedReferences
<1>27. ASSUME NEW o \in Ops, Shared!CallbackRemove(o) PROVE SharedReferences'
  <2>1. CASE /\ ~Shared!Contains(waiters, o) /\ onStop' = [onStop EXCEPT ![o] = "ran"]
            /\ UNCHANGED <<waiters, dpc>>
    BY <1>27, <2>1 DEF Shared!CallbackRemove, SharedReferences
  <2>2. ASSUME NEW i \in 1 .. Len(waiters), waiters[i] = o, waiters' = Shared!RemoveAt(waiters,
               i),
               onStop' = [onStop EXCEPT ![o] = "detach"], Shared!DetachGoto(o, "load")
        PROVE  SharedReferences'
    <3>1. SharedTakingOff(o)
      BY <1>27, <2>2, SharedTakenOff
    <3> QED
      BY <2>2, <3>1, SharedNames DEF SharedTakingOff, SharedReferences
  <2> QED
    BY <1>27, <2>1, <2>2 DEF Shared!CallbackRemove
<1>28. ASSUME NEW o \in Ops, Shared!CallbackTells(o) PROVE SharedReferences'
  BY <1>28 DEF Shared!CallbackTells, SharedReferences, Shared!Goto
<1>29. CASE UNCHANGED Shared!vars
  BY <1>29 DEF Shared!vars, SharedReferences
<1> QED
  BY <1>1, <1>2, <1>3, <1>4, <1>5, <1>6, <1>7, <1>8, <1>9, <1>10, <1>11, <1>12, <1>13, <1>14,
     <1>15, <1>16, <1>17, <1>18, <1>19, <1>20, <1>21, <1>22, <1>23, <1>24, <1>25, <1>26, <1>27,
     <1>28, <1>29 DEF Shared!Next, Shared!Notifying, Shared!Finished, Shared!Starting,
     Shared!Detaching, Shared!Going, Shared!Calling

LEMMA SharedDetachesKept ==
  ASSUME Shared!ProperOps, SharedInv, [Shared!Next]_Shared!vars
  PROVE  SharedDetaches'
<1> USE DEF SharedInv, Shared!ProperOps
<1>1. CASE Shared!DropSender
  BY <1>1 DEF Shared!DropSender, SharedDetaches, SharedTypes, Shared!Goto, Shared!DetachGoto
<1>2. CASE Shared!OpCompletes
  BY <1>2 DEF Shared!OpCompletes, SharedDetaches
<1>3. CASE Shared!Swap
  BY <1>3 DEF Shared!Swap, SharedDetaches
<1>4. CASE Shared!Advance
  BY <1>4 DEF Shared!Advance, SharedDetaches
<1>5. CASE Shared!NotifyWaiter
  <2>1. SharedNotifying
    BY <1>5, SharedNotified
  <2> QED
    BY <2>1 DEF SharedNotifying, SharedDetaches
<1>6. CASE Shared!SetCompleted
  BY <1>6 DEF Shared!SetCompleted, SharedDetaches
<1>7. ASSUME NEW h \in Shared!Holders, Shared!DetachLoad(h) PROVE SharedDetaches'
  BY <1>7 DEF Shared!DetachLoad, SharedDetaches, SharedTypes, Shared!Holders, Shared!DetachGoto
<1>8. ASSUME NEW h \in Shared!Holders, Shared!DetachCount(h) PROVE SharedDetaches'
  BY <1>8 DEF Shared!DetachCount, SharedDetaches, Shared!DetachGoto
<1>9. ASSUME NEW h \in Shared!Holders, Shared!DetachStopped(h) PROVE SharedDetaches'
  BY <1>9 DEF Shared!DetachStopped, SharedDetaches, Shared!DetachGoto
<1>10. ASSUME NEW h \in Shared!Holders, Shared!DetachDrop(h) PROVE SharedDetaches'
  BY <1>10 DEF Shared!DetachDrop, SharedDetaches, Shared!DetachGoto
<1>11. ASSUME NEW h \in Shared!Holders, Shared!DetachRelease(h) PROVE SharedDetaches'
  BY <1>11 DEF Shared!DetachRelease, SharedDetaches, Shared!DetachGoto
<1>12. ASSUME NEW h \in Shared!Holders, Shared!TestAndSet(h) PROVE SharedDetaches'
  BY <1>12 DEF Shared!TestAndSet, SharedDetaches, Shared!Goto
<1>13. ASSUME NEW h \in Shared!Holders, Shared!SetRef(h) PROVE SharedDetaches'
  BY <1>13 DEF Shared!SetRef, SharedDetaches, Shared!Goto
<1>14. ASSUME NEW h \in Shared!Holders, Shared!StartOp(h) PROVE SharedDetaches'
  BY <1>14 DEF Shared!StartOp, SharedDetaches, Shared!Goto
<1>15. ASSUME NEW h \in Shared!Holders, Shared!StartReturns(h) PROVE SharedDetaches'
  BY <1>15 DEF Shared!StartReturns, SharedDetaches, Shared!Goto
<1>16. ASSUME NEW o \in Ops, Shared!Connect(o) PROVE SharedDetaches'
  BY <1>16 DEF Shared!Connect, SharedDetaches, SharedReferences, SharedCallbacks, SharedTypes,
     Shared!Holders, Shared!Goto
<1>17. ASSUME NEW o \in Ops, Shared!Start(o) PROVE SharedDetaches'
  BY <1>17 DEF Shared!Start, SharedDetaches, Shared!Goto
<1>18. ASSUME NEW o \in Ops, Shared!Check(o) PROVE SharedDetaches'
  BY <1>18 DEF Shared!Check, SharedDetaches, Shared!Goto
<1>19. ASSUME NEW o \in Ops, Shared!AddWaiter(o) PROVE SharedDetaches'
  BY <1>19 DEF Shared!AddWaiter, SharedDetaches, SharedReferences, SharedCallbacks,
     SharedTypes, Shared!Holders, Shared!Goto
<1>20. ASSUME NEW o \in Ops, Shared!GiveUp(o) PROVE SharedDetaches'
  BY <1>20
     DEF Shared!GiveUp, Shared!Reset, SharedDetaches, SharedTypes, Shared!Goto,
     Shared!DetachGoto
<1>21. ASSUME NEW o \in Ops, Shared!GaveUp(o) PROVE SharedDetaches'
  BY <1>21 DEF Shared!GaveUp, SharedDetaches, Shared!Goto
<1>22. ASSUME NEW o \in Ops, Shared!NotifySelf(o) PROVE SharedDetaches'
  BY <1>22 DEF Shared!NotifySelf, Shared!Notify, Shared!Reset, SharedDetaches, Shared!Goto
<1>23. ASSUME NEW o \in Ops, Shared!Destroy(o) PROVE SharedDetaches'
  BY <1>23 DEF Shared!Destroy, SharedDetaches, SharedReferences, SharedCallbacks, SharedTypes,
     Shared!Holders, Shared!Goto, Shared!DetachGoto
<1>24. ASSUME NEW o \in Ops, Shared!Destroyed(o) PROVE SharedDetaches'
  BY <1>24 DEF Shared!Destroyed, SharedDetaches, Shared!Goto
<1>25. ASSUME NEW o \in Ops, Shared!Stop(o) PROVE SharedDetaches'
  BY <1>25 DEF Shared!Stop, SharedDetaches
<1>26. ASSUME NEW o \in Ops, Shared!CallbackBegins(o) PROVE SharedDetaches'
  BY <1>26 DEF Shared!CallbackBegins, SharedDetaches
<1>27. ASSUME NEW o \in Ops, Shared!CallbackRemove(o) PROVE SharedDetaches'
  <2>1. CASE /\ ~Shared!Contains(waiters, o) /\ onStop' = [onStop EXCEPT ![o] = "ran"]
            /\ UNCHANGED <<waiters, dpc>>
    BY <1>27, <2>1 DEF Shared!CallbackRemove, SharedDetaches
  <2>2. ASSUME NEW i \in 1 .. Len(waiters), waiters[i] = o, waiters' = Shared!RemoveAt(waiters,
               i),
               onStop' = [onStop EXCEPT ![o] = "detach"], Shared!DetachGoto(o, "load")
        PROVE  SharedDetaches'
    <3>1. SharedTakingOff(o)
      BY <1>27, <2>2, SharedTakenOff
    <3> QED
      BY <2>2, <3>1, SharedNames DEF SharedTakingOff, SharedDetaches, SharedTypes
  <2> QED
    BY <1>27, <2>1, <2>2 DEF Shared!CallbackRemove
<1>28. ASSUME NEW o \in Ops, Shared!CallbackTells(o) PROVE SharedDetaches'
  BY <1>28 DEF Shared!CallbackTells, SharedDetaches, SharedTypes, Shared!Holders, Shared!Goto
<1>29. CASE UNCHANGED Shared!vars
  BY <1>29 DEF Shared!vars, SharedDetaches
<1> QED
  BY <1>1, <1>2, <1>3, <1>4, <1>5, <1>6, <1>7, <1>8, <1>9, <1>10, <1>11, <1>12, <1>13, <1>14,
     <1>15, <1>16, <1>17, <1>18, <1>19, <1>20, <1>21, <1>22, <1>23, <1>24, <1>25, <1>26, <1>27,
     <1>28, <1>29 DEF Shared!Next, Shared!Notifying, Shared!Finished, Shared!Starting,
     Shared!Detaching, Shared!Going, Shared!Calling

LEMMA SharedListsKept ==
  ASSUME Shared!ProperOps, SharedInv, [Shared!Next]_Shared!vars
  PROVE  SharedLists'
<1> USE DEF SharedInv, Shared!ProperOps
<1>1. CASE Shared!DropSender
  BY <1>1 DEF Shared!DropSender, SharedLists, SharedListed, Shared!Goto
<1>2. CASE Shared!OpCompletes
  BY <1>2 DEF Shared!OpCompletes, SharedLists, SharedListed
<1>3. CASE Shared!Swap
  BY <1>3 DEF Shared!Swap, SharedLists, SharedListed
<1>4. CASE Shared!Advance
  <2>1. /\ Head(todo) \in Ops /\ Tail(todo) \in Seq(Ops) /\ SharedDistinct(Tail(todo))
        /\ \E k \in 1 .. Len(todo) : Head(todo) = todo[k]
        /\ \A j \in 1 .. Len(Tail(todo)) :
              Tail(todo)[j] # Head(todo) /\ \E k \in 1 .. Len(todo) : Tail(todo)[j] = todo[k]
    BY <1>4, SharedTakenIs DEF Shared!Advance, SharedLists, SharedTypes
  <2>2. /\ item' = Head(todo) /\ todo' = Tail(todo) /\ opc = "advance" /\ opc' = "notify"
        /\ UNCHANGED <<tag, Shared!count, Shared!start, Shared!list, results, sharedOn, spc,
                       dpc, onStop, ext, told>>
    BY <1>4 DEF Shared!Advance
  <2> QED
    BY <2>1, <2>2 DEF SharedLists, SharedListed
<1>5. CASE Shared!NotifyWaiter
  <2>1. SharedNotifying
    BY <1>5, SharedNotified
  <2> QED
    BY <2>1 DEF SharedNotifying, SharedLists, SharedListed
<1>6. CASE Shared!SetCompleted
  BY <1>6 DEF Shared!SetCompleted, SharedLists, SharedListed
<1>7. ASSUME NEW h \in Shared!Holders, Shared!DetachLoad(h) PROVE SharedLists'
  BY <1>7 DEF Shared!DetachLoad, SharedLists, SharedListed
<1>8. ASSUME NEW h \in Shared!Holders, Shared!DetachCount(h) PROVE SharedLists'
  BY <1>8 DEF Shared!DetachCount, SharedLists, SharedListed
<1>9. ASSUME NEW h \in Shared!Holders, Shared!DetachStopped(h) PROVE SharedLists'
  BY <1>9 DEF Shared!DetachStopped, SharedLists, SharedListed
<1>10. ASSUME NEW h \in Shared!Holders, Shared!DetachDrop(h) PROVE SharedLists'
  BY <1>10 DEF Shared!DetachDrop, SharedLists, SharedListed
<1>11. ASSUME NEW h \in Shared!Holders, Shared!DetachRelease(h) PROVE SharedLists'
  BY <1>11 DEF Shared!DetachRelease, SharedLists, SharedListed
<1>12. ASSUME NEW h \in Shared!Holders, Shared!TestAndSet(h) PROVE SharedLists'
  BY <1>12 DEF Shared!TestAndSet, Shared!AfterStart, SharedLists, SharedListed, Shared!Goto
<1>13. ASSUME NEW h \in Shared!Holders, Shared!SetRef(h) PROVE SharedLists'
  BY <1>13 DEF Shared!SetRef, SharedLists, SharedListed, Shared!Goto
<1>14. ASSUME NEW h \in Shared!Holders, Shared!StartOp(h) PROVE SharedLists'
  BY <1>14 DEF Shared!StartOp, SharedStartsOnce, SharedLists, SharedListed, Shared!Goto
<1>15. ASSUME NEW h \in Shared!Holders, Shared!StartReturns(h) PROVE SharedLists'
  BY <1>15 DEF Shared!StartReturns, Shared!AfterStart, SharedLists, SharedListed, Shared!Goto
<1>16. ASSUME NEW o \in Ops, Shared!Connect(o) PROVE SharedLists'
  BY <1>16
     DEF Shared!Connect, SharedLists, SharedListed, SharedTypes, Shared!Holders, Shared!Goto
<1>17. ASSUME NEW o \in Ops, Shared!Start(o) PROVE SharedLists'
  BY <1>17 DEF Shared!Start, SharedLists, SharedListed, Shared!Goto
<1>18. ASSUME NEW o \in Ops, Shared!Check(o) PROVE SharedLists'
  BY <1>18 DEF Shared!Check, SharedLists, SharedListed, Shared!Goto
<1>19. ASSUME NEW o \in Ops, Shared!AddWaiter(o) PROVE SharedLists'
  <2>1. CASE over
    BY <1>19, <2>1, SharedNames
       DEF Shared!AddWaiter, SharedLists, SharedListed, SharedTypes, Shared!Goto
  <2>3. CASE ~over /\ ext[o]
    <3>1. spc' = [spc EXCEPT ![o] = "reset"] /\ spc[o] = "add" /\ UNCHANGED waiters
          /\ UNCHANGED <<tag, Shared!count, Shared!start, over, Shared!shop, dpc, onStop, ext,
                         told>>
      BY <1>19, <2>3 DEF Shared!AddWaiter, Shared!Goto
    <3> QED
      BY <3>1, <2>3, SharedNames DEF SharedLists, SharedListed
  <2>2. CASE ~over /\ ~ext[o]
    <3>1. SharedPushing(o)
      BY <1>19, <2>2, SharedPushes
    <3> QED
      BY <2>2, <3>1, SharedNames DEF SharedPushing, SharedLists, SharedListed, SharedTypes
  <2> QED
    BY <2>1, <2>2, <2>3
<1>20. ASSUME NEW o \in Ops, Shared!GiveUp(o) PROVE SharedLists'
  BY <1>20 DEF Shared!GiveUp, Shared!Reset, SharedLists, SharedListed, Shared!Goto
<1>21. ASSUME NEW o \in Ops, Shared!GaveUp(o) PROVE SharedLists'
  BY <1>21 DEF Shared!GaveUp, SharedLists, SharedListed, Shared!Goto
<1>22. ASSUME NEW o \in Ops, Shared!NotifySelf(o) PROVE SharedLists'
  BY <1>22
     DEF Shared!NotifySelf, Shared!Notify, Shared!Reset, SharedLists, SharedListed, Shared!Goto
<1>23. ASSUME NEW o \in Ops, Shared!Destroy(o) PROVE SharedLists'
  BY <1>23
     DEF Shared!Destroy, SharedLists, SharedListed, SharedTypes, Shared!Holders, Shared!Goto
<1>24. ASSUME NEW o \in Ops, Shared!Destroyed(o) PROVE SharedLists'
  BY <1>24 DEF Shared!Destroyed, SharedLists, SharedListed, Shared!Goto
<1>25. ASSUME NEW o \in Ops, Shared!Stop(o) PROVE SharedLists'
  BY <1>25 DEF Shared!Stop, SharedLists, SharedListed
<1>26. ASSUME NEW o \in Ops, Shared!CallbackBegins(o) PROVE SharedLists'
  BY <1>26 DEF Shared!CallbackBegins, SharedLists, SharedListed
<1>27. ASSUME NEW o \in Ops, Shared!CallbackRemove(o) PROVE SharedLists'
  <2>1. CASE /\ ~Shared!Contains(waiters, o) /\ onStop' = [onStop EXCEPT ![o] = "ran"]
            /\ UNCHANGED <<waiters, dpc>>
    BY <1>27, <2>1 DEF Shared!CallbackRemove, SharedLists, SharedListed
  <2>2. ASSUME NEW i \in 1 .. Len(waiters), waiters[i] = o, waiters' = Shared!RemoveAt(waiters,
               i),
               onStop' = [onStop EXCEPT ![o] = "detach"], Shared!DetachGoto(o, "load")
        PROVE  SharedLists'
    <3>1. SharedTakingOff(o)
      BY <1>27, <2>2, SharedTakenOff
    <3> QED
      BY <2>2, <3>1, SharedNames DEF SharedTakingOff, SharedLists, SharedListed, SharedDetaches
  <2> QED
    BY <1>27, <2>1, <2>2 DEF Shared!CallbackRemove
<1>28. ASSUME NEW o \in Ops, Shared!CallbackTells(o) PROVE SharedLists'
  BY <1>28 DEF Shared!CallbackTells, SharedLists, SharedListed, Shared!Goto
<1>29. CASE UNCHANGED Shared!vars
  BY <1>29 DEF Shared!vars, SharedLists, SharedListed
<1> QED
  BY <1>1, <1>2, <1>3, <1>4, <1>5, <1>6, <1>7, <1>8, <1>9, <1>10, <1>11, <1>12, <1>13, <1>14,
     <1>15, <1>16, <1>17, <1>18, <1>19, <1>20, <1>21, <1>22, <1>23, <1>24, <1>25, <1>26, <1>27,
     <1>28, <1>29 DEF Shared!Next, Shared!Notifying, Shared!Finished, Shared!Starting,
     Shared!Detaching, Shared!Going, Shared!Calling

LEMMA SharedCallbacksKept ==
  ASSUME Shared!ProperOps, SharedInv, [Shared!Next]_Shared!vars
  PROVE  SharedCallbacks'
<1> USE DEF SharedInv, Shared!ProperOps
<1>1. CASE Shared!DropSender
  BY <1>1 DEF Shared!DropSender, SharedCallbacks, Shared!Goto
<1>2. CASE Shared!OpCompletes
  BY <1>2 DEF Shared!OpCompletes, SharedCallbacks
<1>3. CASE Shared!Swap
  BY <1>3 DEF Shared!Swap, SharedCallbacks
<1>4. CASE Shared!Advance
  BY <1>4 DEF Shared!Advance, SharedCallbacks
<1>5. CASE Shared!NotifyWaiter
  <2>1. SharedNotifying
    BY <1>5, SharedNotified
  <2> QED
    BY <2>1 DEF SharedNotifying, SharedCallbacks, SharedTypes
<1>6. CASE Shared!SetCompleted
  BY <1>6 DEF Shared!SetCompleted, SharedCallbacks
<1>7. ASSUME NEW h \in Shared!Holders, Shared!DetachLoad(h) PROVE SharedCallbacks'
  BY <1>7 DEF Shared!DetachLoad, SharedCallbacks
<1>8. ASSUME NEW h \in Shared!Holders, Shared!DetachCount(h) PROVE SharedCallbacks'
  BY <1>8 DEF Shared!DetachCount, SharedCallbacks
<1>9. ASSUME NEW h \in Shared!Holders, Shared!DetachStopped(h) PROVE SharedCallbacks'
  BY <1>9 DEF Shared!DetachStopped, SharedCallbacks
<1>10. ASSUME NEW h \in Shared!Holders, Shared!DetachDrop(h) PROVE SharedCallbacks'
  BY <1>10 DEF Shared!DetachDrop, SharedCallbacks
<1>11. ASSUME NEW h \in Shared!Holders, Shared!DetachRelease(h) PROVE SharedCallbacks'
  BY <1>11 DEF Shared!DetachRelease, SharedCallbacks
<1>12. ASSUME NEW h \in Shared!Holders, Shared!TestAndSet(h) PROVE SharedCallbacks'
  BY <1>12 DEF Shared!TestAndSet, Shared!AfterStart, SharedCallbacks, Shared!Goto
<1>13. ASSUME NEW h \in Shared!Holders, Shared!SetRef(h) PROVE SharedCallbacks'
  BY <1>13 DEF Shared!SetRef, SharedCallbacks, Shared!Goto
<1>14. ASSUME NEW h \in Shared!Holders, Shared!StartOp(h) PROVE SharedCallbacks'
  BY <1>14 DEF Shared!StartOp, SharedCallbacks, Shared!Goto
<1>15. ASSUME NEW h \in Shared!Holders, Shared!StartReturns(h) PROVE SharedCallbacks'
  BY <1>15 DEF Shared!StartReturns, Shared!AfterStart, SharedCallbacks, Shared!Goto
<1>16. ASSUME NEW o \in Ops, Shared!Connect(o) PROVE SharedCallbacks'
  BY <1>16 DEF Shared!Connect, SharedCallbacks, SharedTypes, Shared!Holders, Shared!Goto
<1>17. ASSUME NEW o \in Ops, Shared!Start(o) PROVE SharedCallbacks'
  BY <1>17 DEF Shared!Start, SharedCallbacks, SharedTypes, Shared!Holders, Shared!Goto
<1>18. ASSUME NEW o \in Ops, Shared!Check(o) PROVE SharedCallbacks'
  BY <1>18 DEF Shared!Check, SharedCallbacks, Shared!Goto
<1>19. ASSUME NEW o \in Ops, Shared!AddWaiter(o) PROVE SharedCallbacks'
  BY <1>19 DEF Shared!AddWaiter, SharedCallbacks, SharedTypes, Shared!Holders, Shared!Goto
<1>20. ASSUME NEW o \in Ops, Shared!GiveUp(o) PROVE SharedCallbacks'
  BY <1>20 DEF Shared!GiveUp, Shared!Reset, SharedCallbacks, SharedTypes, Shared!Goto
<1>21. ASSUME NEW o \in Ops, Shared!GaveUp(o) PROVE SharedCallbacks'
  BY <1>21 DEF Shared!GaveUp, SharedCallbacks, Shared!Goto
<1>22. ASSUME NEW o \in Ops, Shared!NotifySelf(o) PROVE SharedCallbacks'
  BY <1>22
     DEF Shared!NotifySelf, Shared!Notify, Shared!Reset, SharedCallbacks, SharedTypes,
     Shared!Goto
<1>23. ASSUME NEW o \in Ops, Shared!Destroy(o) PROVE SharedCallbacks'
  BY <1>23 DEF Shared!Destroy, SharedCallbacks, SharedTypes, Shared!Holders, Shared!Goto
<1>24. ASSUME NEW o \in Ops, Shared!Destroyed(o) PROVE SharedCallbacks'
  BY <1>24 DEF Shared!Destroyed, SharedCallbacks, Shared!Goto
<1>25. ASSUME NEW o \in Ops, Shared!Stop(o) PROVE SharedCallbacks'
  BY <1>25 DEF Shared!Stop, SharedCallbacks
<1>26. ASSUME NEW o \in Ops, Shared!CallbackBegins(o) PROVE SharedCallbacks'
  BY <1>26 DEF Shared!CallbackBegins, SharedCallbacks
<1>27. ASSUME NEW o \in Ops, Shared!CallbackRemove(o) PROVE SharedCallbacks'
  <2>1. CASE /\ ~Shared!Contains(waiters, o) /\ onStop' = [onStop EXCEPT ![o] = "ran"]
            /\ UNCHANGED <<waiters, dpc>>
    BY <1>27, <2>1 DEF Shared!CallbackRemove, SharedCallbacks
  <2>2. ASSUME NEW i \in 1 .. Len(waiters), waiters[i] = o, waiters' = Shared!RemoveAt(waiters,
               i),
               onStop' = [onStop EXCEPT ![o] = "detach"], Shared!DetachGoto(o, "load")
        PROVE  SharedCallbacks'
    <3>1. SharedTakingOff(o)
      BY <1>27, <2>2, SharedTakenOff
    <3> QED
      BY <2>2, <3>1, SharedNames DEF SharedTakingOff, SharedCallbacks
  <2> QED
    BY <1>27, <2>1, <2>2 DEF Shared!CallbackRemove
<1>28. ASSUME NEW o \in Ops, Shared!CallbackTells(o) PROVE SharedCallbacks'
  BY <1>28 DEF Shared!CallbackTells, SharedCallbacks, SharedTypes, Shared!Goto
<1>29. CASE UNCHANGED Shared!vars
  BY <1>29 DEF Shared!vars, SharedCallbacks
<1> QED
  BY <1>1, <1>2, <1>3, <1>4, <1>5, <1>6, <1>7, <1>8, <1>9, <1>10, <1>11, <1>12, <1>13, <1>14,
     <1>15, <1>16, <1>17, <1>18, <1>19, <1>20, <1>21, <1>22, <1>23, <1>24, <1>25, <1>26, <1>27,
     <1>28, <1>29 DEF Shared!Next, Shared!Notifying, Shared!Finished, Shared!Starting,
     Shared!Detaching, Shared!Going, Shared!Calling

LEMMA SharedStartsOnceKept ==
  ASSUME Shared!ProperOps, SharedInv, [Shared!Next]_Shared!vars
  PROVE  SharedStartsOnce'
<1> USE DEF SharedInv, Shared!ProperOps
<1>1. CASE Shared!DropSender
  BY <1>1 DEF Shared!DropSender, SharedStartsOnce, Shared!Goto, Shared!DetachGoto
<1>2. CASE Shared!OpCompletes
  BY <1>2 DEF Shared!OpCompletes, SharedStartsOnce
<1>3. CASE Shared!Swap
  BY <1>3 DEF Shared!Swap, SharedStartsOnce
<1>4. CASE Shared!Advance
  BY <1>4 DEF Shared!Advance, SharedStartsOnce
<1>5. CASE Shared!NotifyWaiter
  BY <1>5 DEF Shared!NotifyWaiter, Shared!Notify, SharedStartsOnce, Shared!Goto
<1>6. CASE Shared!SetCompleted
  BY <1>6 DEF Shared!SetCompleted, SharedStartsOnce
<1>7. ASSUME NEW h \in Shared!Holders, Shared!DetachLoad(h) PROVE SharedStartsOnce'
  BY <1>7 DEF Shared!DetachLoad, SharedStartsOnce, SharedTypes, Shared!DetachGoto
<1>8. ASSUME NEW h \in Shared!Holders, Shared!DetachCount(h) PROVE SharedStartsOnce'
  BY <1>8 DEF Shared!DetachCount, SharedStartsOnce
<1>9. ASSUME NEW h \in Shared!Holders, Shared!DetachStopped(h) PROVE SharedStartsOnce'
  BY <1>9 DEF Shared!DetachStopped, SharedStartsOnce, Shared!DetachGoto
<1>10. ASSUME NEW h \in Shared!Holders, Shared!DetachDrop(h) PROVE SharedStartsOnce'
  BY <1>10 DEF Shared!DetachDrop, SharedStartsOnce, Shared!DetachGoto
<1>11. ASSUME NEW h \in Shared!Holders, Shared!DetachRelease(h) PROVE SharedStartsOnce'
  BY <1>11, SharedNames DEF Shared!DetachRelease, SharedStartsOnce, Shared!DetachGoto
<1>12. ASSUME NEW h \in Shared!Holders, Shared!TestAndSet(h) PROVE SharedStartsOnce'
  BY <1>12 DEF Shared!TestAndSet, Shared!AfterStart, SharedStartsOnce, Shared!Goto
<1>13. ASSUME NEW h \in Shared!Holders, Shared!SetRef(h) PROVE SharedStartsOnce'
  BY <1>13 DEF Shared!SetRef, SharedStartsOnce, Shared!Goto
<1>14. ASSUME NEW h \in Shared!Holders, Shared!StartOp(h) PROVE SharedStartsOnce'
  BY <1>14 DEF Shared!StartOp, SharedStartsOnce, SharedTypes, Shared!Goto
<1>15. ASSUME NEW h \in Shared!Holders, Shared!StartReturns(h) PROVE SharedStartsOnce'
  BY <1>15 DEF Shared!StartReturns, Shared!AfterStart, SharedStartsOnce, Shared!Goto
<1>16. ASSUME NEW o \in Ops, Shared!Connect(o) PROVE SharedStartsOnce'
  BY <1>16, SharedNames
     DEF Shared!Connect, SharedStartsOnce, SharedTypes, Shared!Holders, Shared!Goto
<1>17. ASSUME NEW o \in Ops, Shared!Start(o) PROVE SharedStartsOnce'
  BY <1>17 DEF Shared!Start, SharedStartsOnce, Shared!Goto
<1>18. ASSUME NEW o \in Ops, Shared!Check(o) PROVE SharedStartsOnce'
  BY <1>18 DEF Shared!Check, SharedStartsOnce, Shared!Goto
<1>19. ASSUME NEW o \in Ops, Shared!AddWaiter(o) PROVE SharedStartsOnce'
  BY <1>19 DEF Shared!AddWaiter, SharedStartsOnce, SharedTypes, Shared!Goto
<1>20. ASSUME NEW o \in Ops, Shared!GiveUp(o) PROVE SharedStartsOnce'
  BY <1>20 DEF Shared!GiveUp, SharedStartsOnce, Shared!Goto, Shared!DetachGoto
<1>21. ASSUME NEW o \in Ops, Shared!GaveUp(o) PROVE SharedStartsOnce'
  BY <1>21 DEF Shared!GaveUp, SharedStartsOnce, Shared!Goto
<1>22. ASSUME NEW o \in Ops, Shared!NotifySelf(o) PROVE SharedStartsOnce'
  BY <1>22 DEF Shared!NotifySelf, Shared!Notify, SharedStartsOnce, Shared!Goto
<1>23. ASSUME NEW o \in Ops, Shared!Destroy(o) PROVE SharedStartsOnce'
  BY <1>23 DEF Shared!Destroy, SharedStartsOnce, SharedTypes, Shared!Goto, Shared!DetachGoto
<1>24. ASSUME NEW o \in Ops, Shared!Destroyed(o) PROVE SharedStartsOnce'
  BY <1>24 DEF Shared!Destroyed, SharedStartsOnce, Shared!Goto
<1>25. ASSUME NEW o \in Ops, Shared!Stop(o) PROVE SharedStartsOnce'
  BY <1>25 DEF Shared!Stop, SharedStartsOnce
<1>26. ASSUME NEW o \in Ops, Shared!CallbackBegins(o) PROVE SharedStartsOnce'
  BY <1>26 DEF Shared!CallbackBegins, SharedStartsOnce
<1>27. ASSUME NEW o \in Ops, Shared!CallbackRemove(o) PROVE SharedStartsOnce'
  <2>1. CASE /\ ~Shared!Contains(waiters, o) /\ onStop' = [onStop EXCEPT ![o] = "ran"]
            /\ UNCHANGED <<waiters, dpc>>
    BY <1>27, <2>1 DEF Shared!CallbackRemove, SharedStartsOnce
  <2>2. ASSUME NEW i \in 1 .. Len(waiters), waiters[i] = o, waiters' = Shared!RemoveAt(waiters,
               i),
               onStop' = [onStop EXCEPT ![o] = "detach"], Shared!DetachGoto(o, "load")
        PROVE  SharedStartsOnce'
    <3>1. SharedTakingOff(o)
      BY <1>27, <2>2, SharedTakenOff
    <3> QED
      BY <2>2, <3>1, SharedNames DEF SharedTakingOff, SharedStartsOnce
  <2> QED
    BY <1>27, <2>1, <2>2 DEF Shared!CallbackRemove
<1>28. ASSUME NEW o \in Ops, Shared!CallbackTells(o) PROVE SharedStartsOnce'
  BY <1>28 DEF Shared!CallbackTells, SharedStartsOnce, Shared!Goto
<1>29. CASE UNCHANGED Shared!vars
  BY <1>29 DEF Shared!vars, SharedStartsOnce
<1> QED
  BY <1>1, <1>2, <1>3, <1>4, <1>5, <1>6, <1>7, <1>8, <1>9, <1>10, <1>11, <1>12, <1>13, <1>14,
     <1>15, <1>16, <1>17, <1>18, <1>19, <1>20, <1>21, <1>22, <1>23, <1>24, <1>25, <1>26, <1>27,
     <1>28, <1>29 DEF Shared!Next, Shared!Notifying, Shared!Finished, Shared!Starting,
     Shared!Detaching, Shared!Going, Shared!Calling

LEMMA SharedAskedKept ==
  ASSUME Shared!ProperOps, SharedInv, [Shared!Next]_Shared!vars
  PROVE  SharedAsked'
<1> USE DEF SharedInv, Shared!ProperOps
<1>1. CASE Shared!DropSender
  BY <1>1 DEF Shared!DropSender, SharedAsked, SharedAllGone, SharedDetaches, Shared!DetachGoto
<1>2. CASE Shared!OpCompletes
  BY <1>2 DEF Shared!OpCompletes, SharedAsked, SharedAllGone
<1>3. CASE Shared!Swap
  BY <1>3 DEF Shared!Swap, SharedAsked, SharedAllGone
<1>4. CASE Shared!Advance
  BY <1>4 DEF Shared!Advance, SharedAsked, SharedAllGone
<1>5. CASE Shared!NotifyWaiter
  BY <1>5 DEF Shared!NotifyWaiter, SharedAsked, SharedAllGone
<1>6. CASE Shared!SetCompleted
  BY <1>6 DEF Shared!SetCompleted, SharedAsked, SharedAllGone
<1>7. ASSUME NEW h \in Shared!Holders, Shared!DetachLoad(h) PROVE SharedAsked'
  BY <1>7 DEF Shared!DetachLoad, SharedAsked, SharedAllGone, SharedTypes, Shared!DetachGoto
<1>8. ASSUME NEW h \in Shared!Holders, Shared!DetachCount(h) PROVE SharedAsked'
  <2>1. CASE ~Shared!LastConsumer
    BY <1>8, <2>1
       DEF Shared!DetachCount, SharedAsked, SharedAllGone, SharedTypes, Shared!DetachGoto
  <2>2. CASE Shared!LastConsumer /\ opc \in {"idle", "running"}
    <3>1. h \in temps /\ Shared!Self \in refs /\ dpc[h] = "count"
      BY <1>8, <2>2 DEF Shared!DetachCount, SharedReferences, SharedStartsOnce
    <3>2. refs = {h, Shared!Self}
      BY <2>2, <3>1, SharedThreeAreUs
    <3> QED
      BY <1>8, <2>2, <3>2, SharedNames
         DEF Shared!DetachCount, SharedAsked, SharedAllGone, SharedTypes, Shared!DetachGoto
  <2>3. CASE Shared!LastConsumer /\ opc \notin {"idle", "running"}
    BY <1>8, <2>3 DEF Shared!DetachCount, SharedAsked, SharedAllGone, Shared!DetachGoto
  <2> QED
    BY <2>1, <2>2, <2>3
<1>9. ASSUME NEW h \in Shared!Holders, Shared!DetachStopped(h) PROVE SharedAsked'
  BY <1>9 DEF Shared!DetachStopped, SharedAsked, SharedAllGone, Shared!DetachGoto
<1>10. ASSUME NEW h \in Shared!Holders, Shared!DetachDrop(h) PROVE SharedAsked'
  BY <1>10 DEF Shared!DetachDrop, SharedAsked, SharedAllGone, Shared!DetachGoto
<1>11. ASSUME NEW h \in Shared!Holders, Shared!DetachRelease(h) PROVE SharedAsked'
  BY <1>11 DEF Shared!DetachRelease, SharedAsked, SharedAllGone, Shared!DetachGoto
<1>12. ASSUME NEW h \in Shared!Holders, Shared!TestAndSet(h) PROVE SharedAsked'
  BY <1>12 DEF Shared!TestAndSet, SharedAsked, SharedAllGone
<1>13. ASSUME NEW h \in Shared!Holders, Shared!SetRef(h) PROVE SharedAsked'
  BY <1>13 DEF Shared!SetRef, SharedAsked, SharedAllGone
<1>14. ASSUME NEW h \in Shared!Holders, Shared!StartOp(h) PROVE SharedAsked'
  BY <1>14 DEF Shared!StartOp, SharedAsked, SharedAllGone
<1>15. ASSUME NEW h \in Shared!Holders, Shared!StartReturns(h) PROVE SharedAsked'
  BY <1>15 DEF Shared!StartReturns, SharedAsked, SharedAllGone
<1>16. ASSUME NEW o \in Ops, Shared!Connect(o) PROVE SharedAsked'
  BY <1>16, SharedNames
     DEF Shared!Connect, SharedAsked, SharedAllGone, SharedReferences, SharedDetaches
<1>17. ASSUME NEW o \in Ops, Shared!Start(o) PROVE SharedAsked'
  BY <1>17 DEF Shared!Start, SharedAsked, SharedAllGone
<1>18. ASSUME NEW o \in Ops, Shared!Check(o) PROVE SharedAsked'
  BY <1>18 DEF Shared!Check, SharedAsked, SharedAllGone
<1>19. ASSUME NEW o \in Ops, Shared!AddWaiter(o) PROVE SharedAsked'
  BY <1>19 DEF Shared!AddWaiter, SharedAsked, SharedAllGone
<1>20. ASSUME NEW o \in Ops, Shared!GiveUp(o) PROVE SharedAsked'
  BY <1>20 DEF Shared!GiveUp, SharedAsked, SharedAllGone, SharedDetaches, Shared!DetachGoto
<1>21. ASSUME NEW o \in Ops, Shared!GaveUp(o) PROVE SharedAsked'
  BY <1>21 DEF Shared!GaveUp, SharedAsked, SharedAllGone
<1>22. ASSUME NEW o \in Ops, Shared!NotifySelf(o) PROVE SharedAsked'
  BY <1>22 DEF Shared!NotifySelf, SharedAsked, SharedAllGone
<1>23. ASSUME NEW o \in Ops, Shared!Destroy(o) PROVE SharedAsked'
  BY <1>23 DEF Shared!Destroy, SharedAsked, SharedAllGone, SharedDetaches
<1>24. ASSUME NEW o \in Ops, Shared!Destroyed(o) PROVE SharedAsked'
  BY <1>24 DEF Shared!Destroyed, SharedAsked, SharedAllGone
<1>25. ASSUME NEW o \in Ops, Shared!Stop(o) PROVE SharedAsked'
  BY <1>25 DEF Shared!Stop, SharedAsked, SharedAllGone
<1>26. ASSUME NEW o \in Ops, Shared!CallbackBegins(o) PROVE SharedAsked'
  BY <1>26 DEF Shared!CallbackBegins, SharedAsked, SharedAllGone
<1>27. ASSUME NEW o \in Ops, Shared!CallbackRemove(o) PROVE SharedAsked'
  <2>1. CASE /\ ~Shared!Contains(waiters, o) /\ onStop' = [onStop EXCEPT ![o] = "ran"]
            /\ UNCHANGED <<waiters, dpc>>
    BY <1>27, <2>1 DEF Shared!CallbackRemove, SharedAsked, SharedAllGone
  <2>2. ASSUME NEW i \in 1 .. Len(waiters), waiters[i] = o, waiters' = Shared!RemoveAt(waiters,
               i),
               onStop' = [onStop EXCEPT ![o] = "detach"], Shared!DetachGoto(o, "load")
        PROVE  SharedAsked'
    <3>1. SharedTakingOff(o)
      BY <1>27, <2>2, SharedTakenOff
    <3> QED
      BY <2>2, <3>1, SharedNames DEF SharedTakingOff, SharedAsked, SharedAllGone
  <2> QED
    BY <1>27, <2>1, <2>2 DEF Shared!CallbackRemove
<1>28. ASSUME NEW o \in Ops, Shared!CallbackTells(o) PROVE SharedAsked'
  BY <1>28 DEF Shared!CallbackTells, SharedAsked, SharedAllGone
<1>29. CASE UNCHANGED Shared!vars
  BY <1>29 DEF Shared!vars, SharedAsked, SharedAllGone
<1> QED
  BY <1>1, <1>2, <1>3, <1>4, <1>5, <1>6, <1>7, <1>8, <1>9, <1>10, <1>11, <1>12, <1>13, <1>14,
     <1>15, <1>16, <1>17, <1>18, <1>19, <1>20, <1>21, <1>22, <1>23, <1>24, <1>25, <1>26, <1>27,
     <1>28, <1>29 DEF Shared!Next, Shared!Notifying, Shared!Finished, Shared!Starting,
     Shared!Detaching, Shared!Going, Shared!Calling

LEMMA SharedToldKept ==
  ASSUME Shared!ProperOps, SharedInv, [Shared!Next]_Shared!vars
  PROVE  SharedTold'
<1> USE DEF SharedInv, Shared!ProperOps
<1>1. CASE Shared!DropSender
  BY <1>1 DEF Shared!DropSender, SharedTold, Shared!Goto
<1>2. CASE Shared!OpCompletes
  BY <1>2 DEF Shared!OpCompletes, SharedTold
<1>3. CASE Shared!Swap
  BY <1>3 DEF Shared!Swap, SharedTold
<1>4. CASE Shared!Advance
  BY <1>4 DEF Shared!Advance, SharedTold
<1>5. CASE Shared!NotifyWaiter
  <2>1. SharedNotifying
    BY <1>5, SharedNotified
  <2> QED
    BY <2>1 DEF SharedNotifying, SharedTold, SharedAsked, SharedAllGone, SharedReferences,
       SharedTypes, Shared!Holders
<1>6. CASE Shared!SetCompleted
  BY <1>6 DEF Shared!SetCompleted, SharedTold
<1>7. ASSUME NEW h \in Shared!Holders, Shared!DetachLoad(h) PROVE SharedTold'
  BY <1>7 DEF Shared!DetachLoad, SharedTold
<1>8. ASSUME NEW h \in Shared!Holders, Shared!DetachCount(h) PROVE SharedTold'
  BY <1>8 DEF Shared!DetachCount, SharedTold
<1>9. ASSUME NEW h \in Shared!Holders, Shared!DetachStopped(h) PROVE SharedTold'
  BY <1>9 DEF Shared!DetachStopped, SharedTold
<1>10. ASSUME NEW h \in Shared!Holders, Shared!DetachDrop(h) PROVE SharedTold'
  BY <1>10 DEF Shared!DetachDrop, SharedTold
<1>11. ASSUME NEW h \in Shared!Holders, Shared!DetachRelease(h) PROVE SharedTold'
  BY <1>11 DEF Shared!DetachRelease, SharedTold
<1>12. ASSUME NEW h \in Shared!Holders, Shared!TestAndSet(h) PROVE SharedTold'
  BY <1>12 DEF Shared!TestAndSet, SharedTold, Shared!Goto
<1>13. ASSUME NEW h \in Shared!Holders, Shared!SetRef(h) PROVE SharedTold'
  BY <1>13 DEF Shared!SetRef, SharedTold, Shared!Goto
<1>14. ASSUME NEW h \in Shared!Holders, Shared!StartOp(h) PROVE SharedTold'
  BY <1>14 DEF Shared!StartOp, SharedTold, Shared!Goto
<1>15. ASSUME NEW h \in Shared!Holders, Shared!StartReturns(h) PROVE SharedTold'
  BY <1>15 DEF Shared!StartReturns, SharedTold, Shared!Goto
<1>16. ASSUME NEW o \in Ops, Shared!Connect(o) PROVE SharedTold'
  BY <1>16 DEF Shared!Connect, SharedTold, SharedTypes, Shared!Holders, Shared!Goto
<1>17. ASSUME NEW o \in Ops, Shared!Start(o) PROVE SharedTold'
  BY <1>17 DEF Shared!Start, SharedTold, Shared!Goto
<1>18. ASSUME NEW o \in Ops, Shared!Check(o) PROVE SharedTold'
  BY <1>18 DEF Shared!Check, SharedTold, Shared!Goto
<1>19. ASSUME NEW o \in Ops, Shared!AddWaiter(o) PROVE SharedTold'
  BY <1>19 DEF Shared!AddWaiter, SharedTold, SharedTypes, Shared!Holders, Shared!Goto
<1>20. ASSUME NEW o \in Ops, Shared!GiveUp(o) PROVE SharedTold'
  BY <1>20 DEF Shared!GiveUp, SharedTold, Shared!Goto
<1>21. ASSUME NEW o \in Ops, Shared!GaveUp(o) PROVE SharedTold'
  <2>1. told[o] = <<>>
    BY <1>21 DEF Shared!GaveUp, SharedTold
  <2>2. told' = [told EXCEPT ![o] = <<"stopped">>]
    BY <1>21, <2>1 DEF Shared!GaveUp, Shared!Tell
  <2> QED
    BY <1>21, <2>1, <2>2, SharedNames DEF Shared!GaveUp, SharedTold, SharedLists,
       SharedCallbacks, SharedAsked, SharedTypes, Shared!Goto
<1>22. ASSUME NEW o \in Ops, Shared!NotifySelf(o) PROVE SharedTold'
  <2>1. told[o] = <<>>
    BY <1>22 DEF Shared!NotifySelf, SharedTold
  <2>2. told' = [told EXCEPT ![o] = <<results>>]
    BY <1>22, <2>1 DEF Shared!NotifySelf, Shared!Tell, Shared!Notify
  <2> QED
    BY <1>22, <2>1, <2>2, SharedNames DEF Shared!NotifySelf, Shared!Notify, SharedTold,
       SharedLists, SharedAsked, SharedAllGone, SharedReferences, SharedDetaches, SharedTypes,
       Shared!Goto
<1>23. ASSUME NEW o \in Ops, Shared!Destroy(o) PROVE SharedTold'
  BY <1>23 DEF Shared!Destroy, SharedTold, SharedCallbacks, SharedReferences, SharedTypes,
     Shared!Holders, Shared!Goto
<1>24. ASSUME NEW o \in Ops, Shared!Destroyed(o) PROVE SharedTold'
  BY <1>24 DEF Shared!Destroyed, SharedTold, Shared!Goto
<1>25. ASSUME NEW o \in Ops, Shared!Stop(o) PROVE SharedTold'
  BY <1>25 DEF Shared!Stop, SharedTold
<1>26. ASSUME NEW o \in Ops, Shared!CallbackBegins(o) PROVE SharedTold'
  BY <1>26 DEF Shared!CallbackBegins, SharedTold
<1>27. ASSUME NEW o \in Ops, Shared!CallbackRemove(o) PROVE SharedTold'
  <2>1. CASE /\ ~Shared!Contains(waiters, o) /\ onStop' = [onStop EXCEPT ![o] = "ran"]
            /\ UNCHANGED <<waiters, dpc>>
    BY <1>27, <2>1 DEF Shared!CallbackRemove, SharedTold
  <2>2. ASSUME NEW i \in 1 .. Len(waiters), waiters[i] = o, waiters' = Shared!RemoveAt(waiters,
               i),
               onStop' = [onStop EXCEPT ![o] = "detach"], Shared!DetachGoto(o, "load")
        PROVE  SharedTold'
    <3>1. SharedTakingOff(o)
      BY <1>27, <2>2, SharedTakenOff
    <3> QED
      BY <2>2, <3>1, SharedNames DEF SharedTakingOff, SharedTold
  <2> QED
    BY <1>27, <2>1, <2>2 DEF Shared!CallbackRemove
<1>28. ASSUME NEW o \in Ops, Shared!CallbackTells(o) PROVE SharedTold'
  <2>1. told[o] = <<>>
    BY <1>28 DEF Shared!CallbackTells, SharedTold, SharedCallbacks
  <2>2. told' = [told EXCEPT ![o] = <<"stopped">>]
    BY <1>28, <2>1 DEF Shared!CallbackTells, Shared!Tell
  <2> QED
    BY <1>28, <2>1, <2>2, SharedNames
       DEF Shared!CallbackTells, SharedTold, SharedLists, SharedCallbacks, SharedTypes,
       Shared!Goto
<1>29. CASE UNCHANGED Shared!vars
  BY <1>29 DEF Shared!vars, SharedTold
<1> QED
  BY <1>1, <1>2, <1>3, <1>4, <1>5, <1>6, <1>7, <1>8, <1>9, <1>10, <1>11, <1>12, <1>13, <1>14,
     <1>15, <1>16, <1>17, <1>18, <1>19, <1>20, <1>21, <1>22, <1>23, <1>24, <1>25, <1>26, <1>27,
     <1>28, <1>29 DEF Shared!Next, Shared!Notifying, Shared!Finished, Shared!Starting,
     Shared!Detaching, Shared!Going, Shared!Calling

LEMMA SharedStarts ==
  ASSUME Shared!ProperOps, Shared!Init
  PROVE  SharedInv
<1> USE SharedNames DEF Shared!Init
<1>1. SharedTypes
  <2>1. /\ spc \in [Shared!Holders -> SharedOpSteps \cup SharedSenderSteps]
        /\ spc[Shared!Sender] \in SharedSenderSteps
        /\ \A o \in Ops : spc[o] = "none"
    BY DEF SharedOpSteps, SharedSenderSteps
  <2>2. waiters \in Seq(Ops) /\ todo \in Seq(Ops) /\ item \in Ops \cup {Shared!Self}
    OBVIOUS
  <2>3. told \in [Ops -> {<<>>, <<"value">>, <<"stopped">>}]
    OBVIOUS
  <2>4. refs \subseteq Shared!Holders \cup {Shared!Self} /\ temps \subseteq Shared!Holders
    OBVIOUS
  <2>5. /\ dpc \in [Shared!Holders ->
                    {"no", "load", "count", "stopping", "drop", "release", "done"}]
        /\ onStop \in [Ops -> {"none", "registered", "remove", "detach", "ran", "gone"}]
        /\ ext \in [Ops -> BOOLEAN]
    OBVIOUS
  <2> QED
    BY <2>1, <2>2, <2>3, <2>4, <2>5 DEF SharedTypes, SharedOpSteps
<1>2. SharedReferences /\ SharedDetaches
  BY DEF SharedReferences, SharedDetaches
<1>3. SharedLists
  BY DEF SharedLists, SharedListed, SharedDistinct
<1>4. SharedCallbacks /\ SharedStartsOnce /\ SharedAsked /\ SharedTold
  BY DEF SharedCallbacks, SharedStartsOnce, SharedAsked, SharedTold
<1> QED
  BY <1>1, <1>2, <1>3, <1>4 DEF SharedInv

LEMMA SharedStep ==
  ASSUME Shared!ProperOps, SharedInv, [Shared!Next]_Shared!vars
  PROVE  SharedInv'
BY SharedTypesKept, SharedReferencesKept, SharedDetachesKept, SharedListsKept,
   SharedCallbacksKept, SharedStartsOnceKept, SharedAskedKept,
   SharedToldKept DEF SharedInv

LEMMA SharedSafe ==
  ASSUME Shared!ProperOps, SharedInv
  PROVE  Shared!OutlivesUse
<1> USE SharedNames DEF SharedInv
<1>1. opc = "running" \/ Shared!Completing => Shared!Live
  BY DEF Shared!Completing, SharedStartsOnce, Shared!Live
<1>2. ASSUME NEW h \in Shared!Holders,
             \/ spc[h] \in {"tryStart", "setRef", "startOp", "starting", "add", "notify"}
             \/ dpc[h] \in {"load", "count", "stopping"}
      PROVE  Shared!Live
  BY <1>2 DEF SharedReferences, SharedDetaches, Shared!Live
<1>3. ASSUME NEW o \in Ops,
             \/ Shared!Contains(waiters \o todo, o)
             \/ opc = "notify" /\ item = o
             \/ onStop[o] \in {"remove", "detach"}
      PROVE  spc[o] \notin {"told", "destroying", "gone"}
  <2>1. CASE Shared!Contains(waiters \o todo, o)
    <3>1. waiters \o todo = IF over THEN todo ELSE waiters
      BY DEF SharedLists, SharedTypes
    <3> QED
      BY <2>1, <3>1 DEF Shared!Contains, SharedLists, SharedListed
  <2> QED
    BY <1>3, <2>1 DEF SharedLists, SharedListed, SharedCallbacks
<1> QED
  BY <1>1, <1>2, <1>3 DEF Shared!OutlivesUse

LEMMA SharedOwnStop ==
  ASSUME SharedInv
  PROVE  Shared!NobodyElseStopsIt
<1>1. \A o \in Ops :
        /\ told[o] \in {<<>>, <<"value">>, <<"stopped">>}
        /\ (told[o] = <<"stopped">> => ext[o])
  BY DEF SharedInv, SharedTypes, SharedTold
<1>2. ASSUME NEW o \in Ops PROVE Len(told[o]) <= 1
  <2>1. CASE told[o] = <<>>
    BY <2>1
  <2>2. CASE told[o] = <<"value">>
    BY <2>2
  <2>3. CASE told[o] = <<"stopped">>
    BY <2>3
  <2> QED
    BY <1>1, <2>1, <2>2, <2>3
<1> QED
  BY <1>1, <1>2 DEF Shared!NobodyElseStopsIt

HIDE DEF Shared!count, Shared!start, Shared!list, Shared!shop

-----------------------------------------------------------------------------
(* merge_each: the count of the parties that are under way, and what         *)
(* __completion_ says of them.                                               *)

\* The steps of a party that __active_ counts, all steps, and those of one that failed.
MergeHolding == {"sender", "running", "exchange", "askAndStore", "askAndLeave", "store", "tell",
                 "break", "leave"}
MergePartySteps == MergeHolding \cup {"idle", "reset", "deliver", "done"}
MergeFailing == {"exchange", "askAndStore", "store", "tell", "break", "askAndLeave"}
MergeOutcomes == {"none", "value", "error", "stopped", "senderError", "senderStopped"}

MergeTypes ==
  /\ active \in Int /\ completion \in {"started", "stopped", "error"}
  /\ mergeAlive \in BOOLEAN /\ mergeTold \in {<<>>, <<"value">>, <<"error">>, <<"stopped">>}
  /\ mergeStart \in {"register", "check", "refuse", "done"}
  /\ mergeCb \in {"none", "registered", "begun", "asking", "ran", "gone"}
  /\ mpc \in [Merge!Parties -> MergePartySteps]
  /\ mergeOutcome \in [Merge!Parties -> MergeOutcomes]
  /\ inside = {} /\ (mergeAlive <=> mergeTold = <<>>)

\* __active_ is the number of the parties that are under way.
MergeHeld    == {p \in Merge!Parties : mpc[p] \in MergeHolding}
MergeCounted == active = Cardinality(MergeHeld)

MergeIsLast(p) == mpc[p] \in {"reset", "deliver"}

\* The operation has not started its parties, they are under way, the last of them is about to
\* complete the receiver, all is over, or start() has refused.
MergeBefore    == /\ mergeStart # "done" /\ mergeTold = <<>>
                  /\ \A p \in Merge!Parties : mpc[p] = "idle"
MergeRunning   == /\ mergeStart = "done" /\ mergeTold = <<>> /\ MergeHeld # {}
                  /\ mpc[Merge!Outer] # "idle"
                  /\ \A p \in Merge!Parties : ~MergeIsLast(p)
MergeFinishing ==
  /\ mergeStart = "done" /\ mergeTold = <<>> /\ MergeHeld = {} /\ mpc[Merge!Outer] # "idle"
  /\ \E p \in Merge!Parties : MergeIsLast(p) /\ \A q \in Merge!Parties : MergeIsLast(q) => q = p
  /\ \A p \in Merge!Parties : mpc[p] = "deliver" => mergeCb = "gone"
MergeOver      == /\ mergeStart = "done" /\ mergeTold # <<>> /\ mergeCb = "gone"
                  /\ mpc[Merge!Outer] = "done"
                  /\ \A p \in Merge!Parties : mpc[p] \in {"idle", "done"}
MergeRefused   == /\ mergeStart = "done" /\ mergeTold = <<"stopped">> /\ mergeCb = "gone"
                  /\ \A p \in Merge!Parties : mpc[p] = "idle"

MergePhase == MergeBefore \/ MergeRunning \/ MergeFinishing \/ MergeOver \/ MergeRefused

\* __completion_ says whether a party has failed.
MergeReports ==
  /\ \A p \in Merge!Parties : mpc[p] = "idle" => mergeOutcome[p] = "none"
  /\ \A p \in Merge!Parties : mpc[p] \in {"sender", "running"} => ~Merge!Failed(p)
  /\ \A p \in Merge!Parties : mpc[p] \in MergeFailing => Merge!Failed(p)
  /\ completion = "started" =>
       \A p \in Merge!Parties : Merge!Failed(p) => mpc[p] \in {"exchange", "break"}
  /\ completion # "started" => \E p \in Merge!Parties : Merge!Failed(p)

\* The receiver is told a value just if no party has failed.
MergeTold ==
  mergeTold # <<>> =>
    (mergeTold = <<"value">> <=> completion = "started" /\ mpc[Merge!Outer] = "done")

MergeInv == MergeTypes /\ MergeCounted /\ MergePhase /\ MergeReports /\ MergeTold

USE DEF Merge!shared, Merge!outer, Merge!life, Merge!party

LEMMA MergeNames == ASSUME Merge!ProperItems
  PROVE  /\ Merge!Outer \in Merge!Parties
         /\ \A i \in 1 .. NumSeqs :
              Merge!Sequence(i) \in Merge!Parties /\ Merge!Sequence(i) # Merge!Outer
         /\ \A i \in WithItem : Merge!Item(i) \in Merge!Parties /\ Merge!Item(i) # Merge!Outer
         /\ \A i \in WithItem :
              Merge!Sequence(i) \in Merge!Parties /\ Merge!Sequence(i) # Merge!Item(i)
BY DEF Merge!ProperItems, Merge!Outer, Merge!Sequence, Merge!Item, Merge!Parties

LEMMA MergePartiesFinite == ASSUME Merge!ProperItems PROVE IsFiniteSet(Merge!Parties)
<1>1. IsFiniteSet(1 .. NumSeqs) /\ IsFiniteSet(WithItem)
  <2>1. IsFiniteSet(1 .. NumSeqs)
    BY FS_Interval DEF Merge!ProperItems
  <2> QED
    BY <2>1, FS_Subset DEF Merge!ProperItems
<1>2. IsFiniteSet({"sequence"} \X (1 .. NumSeqs)) /\ IsFiniteSet({"item"} \X WithItem)
  BY <1>1, FS_Product, FS_Singleton
<1>3. IsFiniteSet({Merge!Outer} \cup ({"sequence"} \X (1 .. NumSeqs)))
  BY <1>2, FS_Union, FS_Singleton
<1> QED
  BY <1>2, <1>3, FS_Union DEF Merge!Parties

LEMMA MergeHeldFinite ==
  ASSUME Merge!ProperItems
  PROVE  IsFiniteSet(MergeHeld) /\ Cardinality(MergeHeld) \in Nat
BY MergePartiesFinite, FS_Subset, FS_CardinalityType DEF MergeHeld


\* A party that starts is counted.
LEMMA MergeHeldAdds ==
  ASSUME Merge!ProperItems, MergeTypes, NEW p \in Merge!Parties, mpc[p] = "idle",
         NEW b \in MergeHolding, mpc' = [mpc EXCEPT ![p] = b]
  PROVE  /\ MergeHeld' = MergeHeld \cup {p}
         /\ Cardinality(MergeHeld') = Cardinality(MergeHeld) + 1
<1>1. MergeHeld' = MergeHeld \cup {p} /\ p \notin MergeHeld
  BY DEF MergeHeld, MergeHolding, MergeTypes
<1> QED
  BY <1>1, MergeHeldFinite, FS_AddElement

\* A party that leaves is not.
LEMMA MergeHeldDrops ==
  ASSUME Merge!ProperItems, MergeTypes, NEW p \in Merge!Parties, mpc[p] = "leave",
         NEW b, b \notin MergeHolding, mpc' = [mpc EXCEPT ![p] = b]
  PROVE  /\ p \in MergeHeld /\ MergeHeld' = MergeHeld \ {p}
         /\ Cardinality(MergeHeld') = Cardinality(MergeHeld) - 1
<1>1. MergeHeld' = MergeHeld \ {p} /\ p \in MergeHeld
  BY DEF MergeHeld, MergeHolding, MergeTypes
<1> QED
  BY <1>1, MergeHeldFinite, FS_RemoveElement

LEMMA MergeTypesKept ==
  ASSUME Merge!ProperItems, MergeInv, [Merge!Next]_Merge!vars
  PROVE  MergeTypes'
<1> USE MergeNames DEF MergeInv
<1>1. CASE Merge!Register
  BY <1>1 DEF Merge!Register, MergeTypes
<1>2. CASE Merge!Check
  BY <1>2 DEF Merge!Check, MergeTypes, MergePartySteps, MergeHolding, Merge!Goto
<1>3. CASE Merge!Refuse
  <2>1. mergeTold = <<>>
    BY <1>3 DEF Merge!Refuse, MergePhase, MergeBefore, MergeRunning, MergeFinishing, MergeOver,
       MergeRefused
  <2>2. mergeTold' = <<"stopped">>
    BY <1>3, <2>1 DEF Merge!Refuse
  <2>3. mergeAlive' = FALSE /\ <<"stopped">> # <<>>
    BY <1>3 DEF Merge!Refuse
  <2>4. /\ mergeStart' = "done" /\ mergeCb' = "gone"
        /\ UNCHANGED <<Merge!shared, mpc, mergeOutcome, inside>>
    BY <1>3 DEF Merge!Refuse
  <2> QED
    BY <2>2, <2>3, <2>4 DEF MergeTypes
<1>4. CASE Merge!CompleteOuter
  BY <1>4 DEF Merge!CompleteOuter, Merge!Ends, Merge!MayBeInside, MergeTypes, MergePartySteps,
     MergeHolding, MergeOutcomes, Merge!Goto
<1>5. CASE Merge!Stop
  BY <1>5 DEF Merge!Stop, MergeTypes
<1>6. CASE Merge!CallbackBegins
  BY <1>6 DEF Merge!CallbackBegins, MergeTypes
<1>7. CASE Merge!CallbackAsks
  BY <1>7 DEF Merge!CallbackAsks, MergeTypes
<1>8. CASE Merge!CallbackReturns
  BY <1>8 DEF Merge!CallbackReturns, MergeTypes
<1>9. ASSUME NEW i \in 1 .. NumSeqs, Merge!NextSequence(i) PROVE MergeTypes'
  BY <1>9
     DEF Merge!NextSequence, MergeTypes, MergePartySteps, MergeHolding, Merge!Goto, Merge!Steps
<1>10. ASSUME NEW i \in 1 .. NumSeqs, Merge!Subscribe(i) PROVE MergeTypes'
  BY <1>10
     DEF Merge!Subscribe, MergeTypes, MergePartySteps, MergeHolding, Merge!Goto, Merge!Steps
<1>11. ASSUME NEW i \in 1 .. NumSeqs, Merge!SenderFails(i) PROVE MergeTypes'
  BY <1>11 DEF Merge!SenderFails, Merge!Ends, Merge!MayBeInside, MergeTypes, MergePartySteps,
     MergeHolding, MergeOutcomes, Merge!Goto
<1>12. ASSUME NEW i \in 1 .. NumSeqs, Merge!CompleteSequence(i) PROVE MergeTypes'
  BY <1>12 DEF Merge!CompleteSequence, Merge!Ends, Merge!MayBeInside, MergeTypes,
     MergePartySteps, MergeHolding, MergeOutcomes, Merge!Goto
<1>13. ASSUME NEW i \in WithItem, Merge!NextItem(i) PROVE MergeTypes'
  BY <1>13 DEF Merge!NextItem, MergeTypes, Merge!Goto, Merge!Steps
<1>14. ASSUME NEW i \in WithItem, Merge!CompleteItem(i) PROVE MergeTypes'
  BY <1>14 DEF Merge!CompleteItem, Merge!Ends, Merge!MayBeInside, MergeTypes, MergePartySteps,
     MergeHolding, MergeOutcomes, Merge!Goto
<1>15. ASSUME NEW p \in Merge!Parties, Merge!Exchange(p) PROVE MergeTypes'
  BY <1>15
     DEF Merge!Exchange, Merge!AfterError, MergeTypes, MergePartySteps, MergeHolding, Merge!Goto
<1>16. ASSUME NEW p \in Merge!Parties, Merge!Store(p) PROVE MergeTypes'
  BY <1>16 DEF Merge!Store, Merge!AfterError, MergeTypes, MergePartySteps, MergeHolding,
     Merge!Goto, Merge!Steps
<1>17. ASSUME NEW p \in Merge!Parties, Merge!Tell(p) PROVE MergeTypes'
  BY <1>17 DEF Merge!Tell, MergeTypes, MergePartySteps, MergeHolding, Merge!Goto, Merge!Steps
<1>18. ASSUME NEW p \in Merge!Parties, Merge!Break(p) PROVE MergeTypes'
  BY <1>18 DEF Merge!Break, MergeTypes, MergePartySteps, MergeHolding, Merge!Goto, Merge!Steps
<1>19. ASSUME NEW p \in Merge!Parties, Merge!RequestStop(p) PROVE MergeTypes'
  BY <1>19
     DEF Merge!RequestStop, MergeTypes, MergePartySteps, MergeHolding, Merge!Goto, Merge!Steps
<1>20. ASSUME NEW p \in Merge!Parties, Merge!Leave(p) PROVE MergeTypes'
  BY <1>20 DEF Merge!Leave, MergeTypes, MergePartySteps, Merge!Goto, Merge!Steps
<1>21. ASSUME NEW p \in Merge!Parties, Merge!Unregister(p) PROVE MergeTypes'
  BY <1>21 DEF Merge!Unregister, MergeTypes, MergePartySteps, Merge!Goto, Merge!Steps
<1>22. ASSUME NEW p \in Merge!Parties, Merge!Deliver(p) PROVE MergeTypes'
  <2>1. mergeTold = <<>>
    BY <1>22 DEF Merge!Deliver, Merge!Steps, MergePhase, MergeBefore, MergeRunning,
       MergeFinishing, MergeOver, MergeRefused
  <2>2. mergeTold' = <<Merge!Verdict>> /\ Merge!Verdict \in {"value", "error", "stopped"}
    BY <1>22, <2>1 DEF Merge!Deliver, Merge!Verdict, MergeTypes
  <2>3. mergeAlive' = FALSE /\ mpc[p] = "deliver" /\ mpc' = [mpc EXCEPT ![p] = "done"]
        /\ UNCHANGED <<stoppable, Merge!shared, Merge!outer, mergeOutcome, heard, inside>>
    BY <1>22 DEF Merge!Deliver, Merge!Steps, Merge!Goto
  <2> QED
    BY <2>2, <2>3 DEF MergeTypes, MergePartySteps
<1>23. CASE UNCHANGED Merge!vars
  BY <1>23 DEF Merge!vars, MergeTypes
<1> QED
  BY <1>1, <1>2, <1>3, <1>4, <1>5, <1>6, <1>7, <1>8, <1>9, <1>10, <1>11, <1>12, <1>13, <1>14,
     <1>15, <1>16, <1>17, <1>18, <1>19, <1>20, <1>21, <1>22, <1>23 DEF Merge!Next,
     Merge!Starting, Merge!Calling, Merge!Sending, Merge!Completing, Merge!Reporting,
     Merge!Resting

LEMMA MergeCountedKept ==
  ASSUME Merge!ProperItems, MergeInv, [Merge!Next]_Merge!vars
  PROVE  MergeCounted'
<1> USE MergeNames DEF MergeInv
<1>1. CASE Merge!Register
  BY <1>1 DEF Merge!Register, MergeCounted, MergeHeld
<1>2. CASE Merge!Check
  <2>1. CASE mergeAsked
    BY <1>2, <2>1 DEF Merge!Check, MergeCounted, MergeHeld
  <2>2. CASE ~mergeAsked
    <3>1. /\ mpc' = [mpc EXCEPT ![Merge!Outer] = "running"] /\ active' = 1
          /\ mpc[Merge!Outer] = "idle" /\ MergeHeld = {}
      BY <1>2, <2>2 DEF Merge!Check, Merge!Goto, MergePhase, MergeBefore, MergeRunning,
         MergeFinishing, MergeOver, MergeRefused, MergeHeld, MergeHolding
    <3>2. Cardinality(MergeHeld') = Cardinality(MergeHeld) + 1
      BY <3>1, MergeHeldAdds DEF MergeHolding
    <3> QED
      BY <3>1, <3>2, FS_EmptySet DEF MergeCounted
  <2> QED
    BY <2>1, <2>2
<1>3. CASE Merge!Refuse
  BY <1>3 DEF Merge!Refuse, MergeCounted, MergeHeld
<1>4. CASE Merge!CompleteOuter
  BY <1>4 DEF Merge!CompleteOuter, Merge!Ends, Merge!MayComplete, MergeCounted, MergeHeld,
     MergeHolding, MergeTypes, Merge!Goto
<1>5. CASE Merge!Stop
  BY <1>5 DEF Merge!Stop, MergeCounted, MergeHeld
<1>6. CASE Merge!CallbackBegins
  BY <1>6 DEF Merge!CallbackBegins, MergeCounted, MergeHeld
<1>7. CASE Merge!CallbackAsks
  BY <1>7 DEF Merge!CallbackAsks, MergeCounted, MergeHeld
<1>8. CASE Merge!CallbackReturns
  BY <1>8 DEF Merge!CallbackReturns, MergeCounted, MergeHeld
<1>9. ASSUME NEW i \in 1 .. NumSeqs, Merge!NextSequence(i) PROVE MergeCounted'
  <2>1. /\ mpc[Merge!Sequence(i)] = "idle"
        /\ mpc' = [mpc EXCEPT ![Merge!Sequence(i)] = "sender"]
        /\ active' = active + 1
    BY <1>9 DEF Merge!NextSequence, Merge!Steps, Merge!Goto
  <2>2. Cardinality(MergeHeld') = Cardinality(MergeHeld) + 1
    BY <2>1, MergeHeldAdds DEF MergeHolding
  <2> QED
    BY <2>1, <2>2 DEF MergeCounted
<1>10. ASSUME NEW i \in 1 .. NumSeqs, Merge!Subscribe(i) PROVE MergeCounted'
  BY <1>10 DEF Merge!Subscribe, MergeCounted, MergeHeld, MergeHolding, Merge!Goto, Merge!Steps
<1>11. ASSUME NEW i \in 1 .. NumSeqs, Merge!SenderFails(i) PROVE MergeCounted'
  BY <1>11 DEF Merge!SenderFails, Merge!Ends, MergeCounted, MergeHeld, MergeHolding,
     MergeTypes, Merge!Goto
<1>12. ASSUME NEW i \in 1 .. NumSeqs, Merge!CompleteSequence(i) PROVE MergeCounted'
  BY <1>12 DEF Merge!CompleteSequence, Merge!Ends, Merge!MayComplete, MergeCounted, MergeHeld,
     MergeHolding, MergeTypes, Merge!Goto
<1>13. ASSUME NEW i \in WithItem, Merge!NextItem(i) PROVE MergeCounted'
  <2>1. /\ mpc[Merge!Item(i)] = "idle" /\ mpc' = [mpc EXCEPT ![Merge!Item(i)] = "running"]
        /\ active' = active + 1
    BY <1>13 DEF Merge!NextItem, Merge!Steps, Merge!Goto
  <2>2. Cardinality(MergeHeld') = Cardinality(MergeHeld) + 1
    BY <2>1, MergeHeldAdds DEF MergeHolding
  <2> QED
    BY <2>1, <2>2 DEF MergeCounted
<1>14. ASSUME NEW i \in WithItem, Merge!CompleteItem(i) PROVE MergeCounted'
  <2>1. /\ mpc[Merge!Item(i)] = "running" /\ UNCHANGED active
        /\ \E b \in MergeHolding : mpc' = [mpc EXCEPT ![Merge!Item(i)] = b]
    BY <1>14 DEF Merge!CompleteItem, Merge!Ends, Merge!MayComplete, Merge!Goto, MergeHolding
  <2>2. MergeHeld' = MergeHeld
    BY <2>1 DEF MergeHeld, MergeHolding
  <2> QED
    BY <2>1, <2>2 DEF MergeCounted
<1>15. ASSUME NEW p \in Merge!Parties, Merge!Exchange(p) PROVE MergeCounted'
  BY <1>15
     DEF Merge!Exchange, Merge!AfterError, MergeCounted, MergeHeld, MergeHolding, Merge!Goto
<1>16. ASSUME NEW p \in Merge!Parties, Merge!Store(p) PROVE MergeCounted'
  BY <1>16 DEF Merge!Store, Merge!AfterError, MergeCounted, MergeHeld, MergeHolding,
     Merge!Goto, Merge!Steps
<1>17. ASSUME NEW p \in Merge!Parties, Merge!Tell(p) PROVE MergeCounted'
  BY <1>17 DEF Merge!Tell, MergeCounted, MergeHeld, MergeHolding, Merge!Goto, Merge!Steps
<1>18. ASSUME NEW p \in Merge!Parties, Merge!Break(p) PROVE MergeCounted'
  BY <1>18 DEF Merge!Break, MergeCounted, MergeHeld, MergeHolding, Merge!Goto, Merge!Steps
<1>19. ASSUME NEW p \in Merge!Parties, Merge!RequestStop(p) PROVE MergeCounted'
  BY <1>19 DEF Merge!RequestStop, MergeCounted, MergeHeld, MergeHolding, MergeTypes,
     Merge!Goto, Merge!Steps
<1>20. ASSUME NEW p \in Merge!Parties, Merge!Leave(p) PROVE MergeCounted'
  <2> DEFINE b == IF active = 1 THEN "reset" ELSE "done"
  <2>1. /\ b \notin MergeHolding /\ mpc[p] = "leave" /\ mpc' = [mpc EXCEPT ![p] = b]
        /\ active' = active - 1
    BY <1>20 DEF Merge!Leave, Merge!Steps, Merge!Goto, MergeHolding
  <2> HIDE DEF b
  <2>2. Cardinality(MergeHeld') = Cardinality(MergeHeld) - 1
    BY <2>1, MergeHeldDrops
  <2> QED
    BY <2>1, <2>2 DEF MergeCounted
<1>21. ASSUME NEW p \in Merge!Parties, Merge!Unregister(p) PROVE MergeCounted'
  BY <1>21 DEF Merge!Unregister, MergeCounted, MergeHeld, MergeHolding, Merge!Goto, Merge!Steps
<1>22. ASSUME NEW p \in Merge!Parties, Merge!Deliver(p) PROVE MergeCounted'
  BY <1>22
     DEF Merge!Deliver, MergeCounted, MergeHeld, MergeHolding, MergeTypes, Merge!Goto,
     Merge!Steps
<1>23. CASE UNCHANGED Merge!vars
  BY <1>23 DEF Merge!vars, MergeCounted, MergeHeld
<1> QED
  BY <1>1, <1>2, <1>3, <1>4, <1>5, <1>6, <1>7, <1>8, <1>9, <1>10, <1>11, <1>12, <1>13, <1>14,
     <1>15, <1>16, <1>17, <1>18, <1>19, <1>20, <1>21, <1>22, <1>23 DEF Merge!Next,
     Merge!Starting, Merge!Calling, Merge!Sending, Merge!Completing, Merge!Reporting,
     Merge!Resting

LEMMA MergePhaseKept ==
  ASSUME Merge!ProperItems, MergeInv, [Merge!Next]_Merge!vars
  PROVE  MergePhase'
<1> USE MergeNames DEF MergeInv
<1>1. CASE Merge!Register
  BY <1>1 DEF Merge!Register, MergePhase, MergeBefore, MergeRunning, MergeFinishing, MergeOver,
     MergeRefused
<1>2. CASE Merge!Check
  BY <1>2 DEF Merge!Check, MergePhase, MergeBefore, MergeRunning, MergeFinishing, MergeOver,
     MergeRefused, MergeIsLast, MergeHeld, MergeHolding, MergeTypes, Merge!Goto
<1>3. CASE Merge!Refuse
  BY <1>3 DEF Merge!Refuse, MergePhase, MergeBefore, MergeRunning, MergeFinishing, MergeOver,
     MergeRefused
<1>4. CASE Merge!CompleteOuter
  BY <1>4 DEF Merge!CompleteOuter, Merge!Ends, Merge!MayComplete, MergePhase, MergeBefore,
     MergeRunning, MergeFinishing, MergeOver, MergeRefused, MergeIsLast, MergeHeld,
     MergeHolding, MergeTypes, Merge!Goto
<1>5. CASE Merge!Stop
  BY <1>5 DEF Merge!Stop, MergePhase, MergeBefore, MergeRunning, MergeFinishing, MergeOver,
     MergeRefused, MergeIsLast, MergeHeld
<1>6. CASE Merge!CallbackBegins
  BY <1>6 DEF Merge!CallbackBegins, MergePhase, MergeBefore, MergeRunning, MergeFinishing,
     MergeOver, MergeRefused, MergeIsLast, MergeHeld
<1>7. CASE Merge!CallbackAsks
  BY <1>7 DEF Merge!CallbackAsks, MergePhase, MergeBefore, MergeRunning, MergeFinishing,
     MergeOver, MergeRefused, MergeIsLast, MergeHeld
<1>8. CASE Merge!CallbackReturns
  BY <1>8 DEF Merge!CallbackReturns, MergePhase, MergeBefore, MergeRunning, MergeFinishing,
     MergeOver, MergeRefused, MergeIsLast, MergeHeld
<1>9. ASSUME NEW i \in 1 .. NumSeqs, Merge!NextSequence(i) PROVE MergePhase'
  BY <1>9 DEF Merge!NextSequence, MergePhase, MergeBefore, MergeRunning, MergeFinishing,
     MergeOver, MergeRefused, MergeIsLast, MergeHeld, MergePartySteps, MergeTypes, Merge!Goto,
     Merge!Steps
<1>10. ASSUME NEW i \in 1 .. NumSeqs, Merge!Subscribe(i) PROVE MergePhase'
  BY <1>10 DEF Merge!Subscribe, MergePhase, MergeBefore, MergeRunning, MergeFinishing,
     MergeOver, MergeRefused, MergeIsLast, MergeHeld, MergeHolding, Merge!Goto, Merge!Steps
<1>11. ASSUME NEW i \in 1 .. NumSeqs, Merge!SenderFails(i) PROVE MergePhase'
  BY <1>11 DEF Merge!SenderFails, Merge!Ends, MergePhase, MergeBefore, MergeRunning,
     MergeFinishing, MergeOver, MergeRefused, MergeIsLast, MergeHeld, MergeHolding, MergeTypes,
     Merge!Goto
<1>12. ASSUME NEW i \in 1 .. NumSeqs, Merge!CompleteSequence(i) PROVE MergePhase'
  BY <1>12 DEF Merge!CompleteSequence, Merge!Ends, Merge!MayComplete, MergePhase, MergeBefore,
     MergeRunning, MergeFinishing, MergeOver, MergeRefused, MergeIsLast, MergeHeld,
     MergeHolding, MergeTypes, Merge!Goto
<1>13. ASSUME NEW i \in WithItem, Merge!NextItem(i) PROVE MergePhase'
  BY <1>13 DEF Merge!NextItem, MergePhase, MergeBefore, MergeRunning, MergeFinishing,
     MergeOver, MergeRefused, MergeIsLast, MergeHeld, MergePartySteps, MergeTypes, Merge!Goto,
     Merge!Steps
<1>14. ASSUME NEW i \in WithItem, Merge!CompleteItem(i) PROVE MergePhase'
  BY <1>14 DEF Merge!CompleteItem, Merge!Ends, Merge!MayComplete, MergePhase, MergeBefore,
     MergeRunning, MergeFinishing, MergeOver, MergeRefused, MergeIsLast, MergeHeld,
     MergeHolding, MergeTypes, Merge!Goto
<1>15. ASSUME NEW p \in Merge!Parties, Merge!Exchange(p) PROVE MergePhase'
  BY <1>15 DEF Merge!Exchange, Merge!AfterError, MergePhase, MergeBefore, MergeRunning,
     MergeFinishing, MergeOver, MergeRefused, MergeIsLast, MergeHeld, MergeHolding, Merge!Goto
<1>16. ASSUME NEW p \in Merge!Parties, Merge!Store(p) PROVE MergePhase'
  BY <1>16 DEF Merge!Store, Merge!AfterError, MergePhase, MergeBefore, MergeRunning,
     MergeFinishing, MergeOver, MergeRefused, MergeIsLast, MergeHeld, MergeHolding, Merge!Goto,
     Merge!Steps
<1>17. ASSUME NEW p \in Merge!Parties, Merge!Tell(p) PROVE MergePhase'
  BY <1>17 DEF Merge!Tell, MergePhase, MergeBefore, MergeRunning, MergeFinishing, MergeOver,
     MergeRefused, MergeIsLast, MergeHeld, MergeHolding, Merge!Goto, Merge!Steps
<1>18. ASSUME NEW p \in Merge!Parties, Merge!Break(p) PROVE MergePhase'
  BY <1>18 DEF Merge!Break, MergePhase, MergeBefore, MergeRunning, MergeFinishing, MergeOver,
     MergeRefused, MergeIsLast, MergeHeld, MergeHolding, Merge!Goto, Merge!Steps
<1>19. ASSUME NEW p \in Merge!Parties, Merge!RequestStop(p) PROVE MergePhase'
  BY <1>19 DEF Merge!RequestStop, MergePhase, MergeBefore, MergeRunning, MergeFinishing,
     MergeOver, MergeRefused, MergeIsLast, MergeHeld, MergeHolding, MergeTypes, Merge!Goto,
     Merge!Steps
<1>20. ASSUME NEW p \in Merge!Parties, Merge!Leave(p) PROVE MergePhase'
  <2> DEFINE b == IF active = 1 THEN "reset" ELSE "done"
  <2>1. mpc[p] = "leave" /\ mpc' = [mpc EXCEPT ![p] = b] /\ b \notin MergeHolding
        /\ UNCHANGED <<mergeStart, mergeTold>>
    BY <1>20 DEF Merge!Leave, Merge!Steps, Merge!Goto, MergeHolding
  <2>2. p \in MergeHeld /\ MergeHeld' = MergeHeld \ {p} /\ Cardinality(MergeHeld') = active - 1
    BY <2>1, MergeHeldDrops DEF MergeCounted
  <2>3. MergeRunning
    BY <2>1, <2>2 DEF MergePhase, MergeBefore, MergeFinishing, MergeOver, MergeRefused
  <2>4. CASE active = 1
    <3>1. MergeHeld' = {}
      BY <2>2, <2>4, MergeHeldFinite, FS_EmptySet, FS_RemoveElement
    <3> QED
      BY <2>1, <2>3, <2>4, <3>1
         DEF MergeRunning, MergeFinishing, MergePhase, MergeIsLast, MergeTypes
  <2>5. CASE active # 1
    <3>1. MergeHeld' # {}
      <4>1. Cardinality({}) = 0
        BY FS_EmptySet
      <4>2. active - 1 # 0
        BY <2>5
      <4> QED
        BY <2>2, <4>1, <4>2
    <3> QED
      BY <2>1, <2>3, <2>5, <3>1 DEF MergeRunning, MergePhase, MergeIsLast
  <2> QED
    BY <2>4, <2>5
<1>21. ASSUME NEW p \in Merge!Parties, Merge!Unregister(p) PROVE MergePhase'
  BY <1>21 DEF Merge!Unregister, MergePhase, MergeBefore, MergeRunning, MergeFinishing,
     MergeOver, MergeRefused, MergeIsLast, MergeHeld, MergeHolding, MergeTypes, Merge!Goto,
     Merge!Steps
<1>22. ASSUME NEW p \in Merge!Parties, Merge!Deliver(p) PROVE MergePhase'
  BY <1>22 DEF Merge!Deliver, MergePhase, MergeBefore, MergeRunning, MergeFinishing, MergeOver,
     MergeRefused, MergeIsLast, MergeHeld, MergePartySteps, MergeTypes, Merge!Goto, Merge!Steps
<1>23. CASE UNCHANGED Merge!vars
  BY <1>23 DEF Merge!vars, MergePhase, MergeBefore, MergeRunning, MergeFinishing, MergeOver,
     MergeRefused, MergeIsLast, MergeHeld
<1> QED
  BY <1>1, <1>2, <1>3, <1>4, <1>5, <1>6, <1>7, <1>8, <1>9, <1>10, <1>11, <1>12, <1>13, <1>14,
     <1>15, <1>16, <1>17, <1>18, <1>19, <1>20, <1>21, <1>22, <1>23 DEF Merge!Next,
     Merge!Starting, Merge!Calling, Merge!Sending, Merge!Completing, Merge!Reporting,
     Merge!Resting

LEMMA MergeReportsKept ==
  ASSUME Merge!ProperItems, MergeInv, [Merge!Next]_Merge!vars
  PROVE  MergeReports'
<1> USE MergeNames DEF MergeInv
<1>1. CASE Merge!Register
  BY <1>1 DEF Merge!Register, MergeReports, Merge!Failed
<1>2. CASE Merge!Check
  <2>1. mpc[Merge!Outer] = "idle"
    BY <1>2
       DEF Merge!Check, MergePhase, MergeBefore, MergeRunning, MergeFinishing, MergeOver,
       MergeRefused
  <2> QED
    BY <1>2, <2>1
       DEF Merge!Check, MergeReports, Merge!Failed, MergeFailing, MergeTypes, Merge!Goto
<1>3. CASE Merge!Refuse
  BY <1>3 DEF Merge!Refuse, MergeReports, Merge!Failed
<1>4. CASE Merge!CompleteOuter
  BY <1>4 DEF Merge!CompleteOuter, Merge!Ends, Merge!MayComplete, MergeReports, Merge!Failed,
     MergeFailing, MergeTypes, Merge!Goto
<1>5. CASE Merge!Stop
  BY <1>5 DEF Merge!Stop, MergeReports, Merge!Failed
<1>6. CASE Merge!CallbackBegins
  BY <1>6 DEF Merge!CallbackBegins, MergeReports, Merge!Failed
<1>7. CASE Merge!CallbackAsks
  BY <1>7 DEF Merge!CallbackAsks, MergeReports, Merge!Failed
<1>8. CASE Merge!CallbackReturns
  BY <1>8 DEF Merge!CallbackReturns, MergeReports, Merge!Failed
<1>9. ASSUME NEW i \in 1 .. NumSeqs, Merge!NextSequence(i) PROVE MergeReports'
  BY <1>9
     DEF Merge!NextSequence, MergeReports, Merge!Failed, MergeFailing, Merge!Goto, Merge!Steps
<1>10. ASSUME NEW i \in 1 .. NumSeqs, Merge!Subscribe(i) PROVE MergeReports'
  BY <1>10
     DEF Merge!Subscribe, MergeReports, Merge!Failed, MergeFailing, Merge!Goto, Merge!Steps
<1>11. ASSUME NEW i \in 1 .. NumSeqs, Merge!SenderFails(i) PROVE MergeReports'
  BY <1>11 DEF Merge!SenderFails, Merge!Ends, MergeReports, Merge!Failed, MergeFailing,
     MergeTypes, Merge!Goto
<1>12. ASSUME NEW i \in 1 .. NumSeqs, Merge!CompleteSequence(i) PROVE MergeReports'
  BY <1>12 DEF Merge!CompleteSequence, Merge!Ends, Merge!MayComplete, MergeReports,
     Merge!Failed, MergeFailing, MergeTypes, Merge!Goto
<1>13. ASSUME NEW i \in WithItem, Merge!NextItem(i) PROVE MergeReports'
  BY <1>13 DEF Merge!NextItem, MergeReports, Merge!Failed, Merge!Goto, Merge!Steps
<1>14. ASSUME NEW i \in WithItem, Merge!CompleteItem(i) PROVE MergeReports'
  BY <1>14 DEF Merge!CompleteItem, Merge!Ends, Merge!MayComplete, MergeReports, Merge!Failed,
     MergeFailing, MergeTypes, Merge!Goto
<1>15. ASSUME NEW p \in Merge!Parties, Merge!Exchange(p) PROVE MergeReports'
  BY <1>15
     DEF Merge!Exchange, Merge!AfterError, MergeReports, Merge!Failed, MergeFailing, Merge!Goto
<1>16. ASSUME NEW p \in Merge!Parties, Merge!Store(p) PROVE MergeReports'
  BY <1>16 DEF Merge!Store, Merge!AfterError, MergeReports, Merge!Failed, MergeFailing,
     Merge!Goto, Merge!Steps
<1>17. ASSUME NEW p \in Merge!Parties, Merge!Tell(p) PROVE MergeReports'
  BY <1>17 DEF Merge!Tell, MergeReports, Merge!Failed, MergeFailing, Merge!Goto, Merge!Steps
<1>18. ASSUME NEW p \in Merge!Parties, Merge!Break(p) PROVE MergeReports'
  BY <1>18 DEF Merge!Break, MergeReports, Merge!Failed, MergeFailing, Merge!Goto, Merge!Steps
<1>19. ASSUME NEW p \in Merge!Parties, Merge!RequestStop(p) PROVE MergeReports'
  BY <1>19 DEF Merge!RequestStop, MergeReports, Merge!Failed, MergeFailing, MergeTypes,
     Merge!Goto, Merge!Steps
<1>20. ASSUME NEW p \in Merge!Parties, Merge!Leave(p) PROVE MergeReports'
  BY <1>20 DEF Merge!Leave, MergeReports, Merge!Failed, MergeFailing, Merge!Goto, Merge!Steps
<1>21. ASSUME NEW p \in Merge!Parties, Merge!Unregister(p) PROVE MergeReports'
  BY <1>21
     DEF Merge!Unregister, MergeReports, Merge!Failed, MergeFailing, Merge!Goto, Merge!Steps
<1>22. ASSUME NEW p \in Merge!Parties, Merge!Deliver(p) PROVE MergeReports'
  BY <1>22 DEF Merge!Deliver, MergeReports, Merge!Failed, MergeFailing, Merge!Goto, Merge!Steps
<1>23. CASE UNCHANGED Merge!vars
  BY <1>23 DEF Merge!vars, MergeReports, Merge!Failed
<1> QED
  BY <1>1, <1>2, <1>3, <1>4, <1>5, <1>6, <1>7, <1>8, <1>9, <1>10, <1>11, <1>12, <1>13, <1>14,
     <1>15, <1>16, <1>17, <1>18, <1>19, <1>20, <1>21, <1>22, <1>23 DEF Merge!Next,
     Merge!Starting, Merge!Calling, Merge!Sending, Merge!Completing, Merge!Reporting,
     Merge!Resting

LEMMA MergeToldKept ==
  ASSUME Merge!ProperItems, MergeInv, [Merge!Next]_Merge!vars
  PROVE  MergeTold'
<1> USE MergeNames DEF MergeInv
<1>1. CASE Merge!Register
  BY <1>1 DEF Merge!Register, MergeTold
<1>2. CASE Merge!Check
  BY <1>2 DEF Merge!Check, MergeTold, MergePhase, MergeBefore, MergeRunning, MergeFinishing,
     MergeOver, MergeRefused
<1>3. CASE Merge!Refuse
  BY <1>3 DEF Merge!Refuse, MergeTold, MergePhase, MergeBefore, MergeRunning, MergeFinishing,
     MergeOver, MergeRefused
<1>4. CASE Merge!CompleteOuter
  BY <1>4
     DEF Merge!CompleteOuter, Merge!Ends, Merge!MayComplete, MergeTold, MergeTypes, Merge!Goto
<1>5. CASE Merge!Stop
  BY <1>5 DEF Merge!Stop, MergeTold
<1>6. CASE Merge!CallbackBegins
  BY <1>6 DEF Merge!CallbackBegins, MergeTold
<1>7. CASE Merge!CallbackAsks
  BY <1>7 DEF Merge!CallbackAsks, MergeTold
<1>8. CASE Merge!CallbackReturns
  BY <1>8 DEF Merge!CallbackReturns, MergeTold
<1>9. ASSUME NEW i \in 1 .. NumSeqs, Merge!NextSequence(i) PROVE MergeTold'
  BY <1>9 DEF Merge!NextSequence, MergeTold, Merge!Goto, Merge!Steps
<1>10. ASSUME NEW i \in 1 .. NumSeqs, Merge!Subscribe(i) PROVE MergeTold'
  BY <1>10 DEF Merge!Subscribe, MergeTold, Merge!Goto, Merge!Steps
<1>11. ASSUME NEW i \in 1 .. NumSeqs, Merge!SenderFails(i) PROVE MergeTold'
  BY <1>11 DEF Merge!SenderFails, Merge!Ends, MergeTold, MergeTypes, Merge!Goto
<1>12. ASSUME NEW i \in 1 .. NumSeqs, Merge!CompleteSequence(i) PROVE MergeTold'
  BY <1>12 DEF Merge!CompleteSequence, Merge!Ends, MergeTold, MergeTypes, Merge!Goto
<1>13. ASSUME NEW i \in WithItem, Merge!NextItem(i) PROVE MergeTold'
  BY <1>13 DEF Merge!NextItem, MergeTold, Merge!Goto, Merge!Steps
<1>14. ASSUME NEW i \in WithItem, Merge!CompleteItem(i) PROVE MergeTold'
  BY <1>14 DEF Merge!CompleteItem, Merge!Ends, MergeTold, MergeTypes, Merge!Goto
<1>15. ASSUME NEW p \in Merge!Parties, Merge!Exchange(p) PROVE MergeTold'
  BY <1>15 DEF Merge!Exchange, MergeTold, MergePhase, MergeBefore, MergeRunning,
     MergeFinishing, MergeOver, MergeRefused
<1>16. ASSUME NEW p \in Merge!Parties, Merge!Store(p) PROVE MergeTold'
  BY <1>16 DEF Merge!Store, MergeTold, MergePhase, MergeBefore, MergeRunning, MergeFinishing,
     MergeOver, MergeRefused, Merge!Steps
<1>17. ASSUME NEW p \in Merge!Parties, Merge!Tell(p) PROVE MergeTold'
  BY <1>17 DEF Merge!Tell, MergeTold, Merge!Goto, Merge!Steps
<1>18. ASSUME NEW p \in Merge!Parties, Merge!Break(p) PROVE MergeTold'
  BY <1>18 DEF Merge!Break, MergeTold, MergePhase, MergeBefore, MergeRunning, MergeFinishing,
     MergeOver, MergeRefused, Merge!Steps
<1>19. ASSUME NEW p \in Merge!Parties, Merge!RequestStop(p) PROVE MergeTold'
  BY <1>19 DEF Merge!RequestStop, MergeTold, MergeTypes, Merge!Goto, Merge!Steps
<1>20. ASSUME NEW p \in Merge!Parties, Merge!Leave(p) PROVE MergeTold'
  BY <1>20 DEF Merge!Leave, MergeTold, MergePhase, MergeBefore, MergeRunning, MergeFinishing,
     MergeOver, MergeRefused, Merge!Steps
<1>21. ASSUME NEW p \in Merge!Parties, Merge!Unregister(p) PROVE MergeTold'
  BY <1>21 DEF Merge!Unregister, MergeTold, Merge!Goto, Merge!Steps
<1>22. ASSUME NEW p \in Merge!Parties, Merge!Deliver(p) PROVE MergeTold'
  <2>1. mergeTold = <<>>
    BY <1>22 DEF Merge!Deliver, Merge!Steps, MergePhase, MergeBefore, MergeRunning,
       MergeFinishing, MergeOver, MergeRefused
  <2>2. mergeTold' = <<Merge!Verdict>> /\ Merge!Verdict \in {"value", "error", "stopped"}
    BY <1>22, <2>1 DEF Merge!Deliver, Merge!Verdict, MergeTypes
  <2>3. mergeAlive' = FALSE /\ mpc[p] = "deliver" /\ mpc' = [mpc EXCEPT ![p] = "done"]
        /\ UNCHANGED <<stoppable, Merge!shared, Merge!outer, mergeOutcome, heard, inside>>
    BY <1>22 DEF Merge!Deliver, Merge!Steps, Merge!Goto
  <2>4. mpc'[Merge!Outer] = "done"
    BY <2>1, <2>3 DEF MergePhase, MergeBefore, MergeRunning, MergeFinishing, MergeOver,
       MergeRefused, MergeIsLast, MergeHeld, MergeTypes, MergePartySteps
  <2>5. mergeTold' = <<"value">> <=> completion = "started"
    BY <2>2 DEF Merge!Verdict, MergeTypes
  <2> QED
    BY <2>3, <2>4, <2>5 DEF MergeTold
<1>23. CASE UNCHANGED Merge!vars
  BY <1>23 DEF Merge!vars, MergeTold
<1> QED
  BY <1>1, <1>2, <1>3, <1>4, <1>5, <1>6, <1>7, <1>8, <1>9, <1>10, <1>11, <1>12, <1>13, <1>14,
     <1>15, <1>16, <1>17, <1>18, <1>19, <1>20, <1>21, <1>22, <1>23 DEF Merge!Next,
     Merge!Starting, Merge!Calling, Merge!Sending, Merge!Completing, Merge!Reporting,
     Merge!Resting

LEMMA MergeStarts ==
  ASSUME Merge!ProperItems, Merge!Init
  PROVE  MergeInv
<1> USE MergeNames DEF Merge!Init
<1>1. MergeTypes
  BY DEF MergeTypes, MergePartySteps, MergeOutcomes
<1>2. MergeHeld = {}
  BY DEF MergeHeld, MergeHolding
<1>3. MergeCounted
  BY <1>2, FS_EmptySet DEF MergeCounted
<1>4. MergePhase /\ MergeTold
  BY DEF MergePhase, MergeBefore, MergeTold
<1>5. MergeReports
  BY DEF MergeReports, Merge!Failed, MergeFailing
<1> QED
  BY <1>1, <1>3, <1>4, <1>5 DEF MergeInv

LEMMA MergeStep ==
  ASSUME Merge!ProperItems, MergeInv, [Merge!Next]_Merge!vars
  PROVE  MergeInv'
BY MergeTypesKept, MergeCountedKept, MergePhaseKept, MergeReportsKept, MergeToldKept
   DEF MergeInv

LEMMA MergeSafe ==
  ASSUME MergeInv
  PROVE  Merge!OutlivesUse
BY DEF MergeInv, MergePhase, MergeBefore, MergeRunning, MergeFinishing, MergeOver,
   MergeRefused, MergeTypes, Merge!OutlivesUse, Merge!CallbackRuns

LEMMA MergeTells ==
  ASSUME MergeInv
  PROVE  Merge!ValueIfNoneFailed
<1>1. ASSUME MergeInv, mergeTold # <<>>
      PROVE  /\ Len(mergeTold) = 1
             /\ mergeTold = <<"value">> <=>
                  mpc[Merge!Outer] = "done" /\ \A p \in Merge!Parties : ~Merge!Failed(p)
  <2>1. Len(mergeTold) = 1
    <3>1. CASE mergeTold = <<"value">>
      BY <3>1
    <3>2. CASE mergeTold = <<"error">>
      BY <3>2
    <3>3. CASE mergeTold = <<"stopped">>
      BY <3>3
    <3> QED
      BY <1>1, <3>1, <3>2, <3>3 DEF MergeInv, MergeTypes
  <2>2. \A p \in Merge!Parties : mpc[p] \in {"idle", "done"}
    BY <1>1
       DEF MergeInv, MergePhase, MergeBefore, MergeRunning, MergeFinishing, MergeOver,
       MergeRefused
  <2>3. completion = "started" <=> \A p \in Merge!Parties : ~Merge!Failed(p)
    BY <1>1, <2>2 DEF MergeInv, MergeReports
  <2> QED
    BY <1>1, <2>1, <2>3 DEF MergeInv, MergeTold
<1> QED
  BY <1>1 DEF Merge!ValueIfNoneFailed

HIDE DEF Merge!shared, Merge!outer, Merge!life, Merge!party

-----------------------------------------------------------------------------
(* The adaptors side by side, as MCAdaptors composes them: those that the  *)
(* program does not use rest.                                              *)

\* Every step of the composition is a step of each adaptor, or leaves it alone.
LEMMA EachSteps ==
  ASSUME [MCNext]_allVars
  PROVE  [Future!Next]_Future!vars /\ [Shared!Next]_Shared!vars /\ [Merge!Next]_Merge!vars
<1> USE DEF future, split, merge, Future!vars, Future!state, Future!pvars, Future!cancel,
        Shared!vars, Shared!count, Shared!start, Shared!list, Shared!shop,
        Merge!vars, Merge!shared, Merge!outer, Merge!life, Merge!party
<1>1. CASE which = "fan in" /\ Next /\ UNCHANGED <<which, future, split, merge>>
  BY <1>1
<1>2. CASE which = "future" /\ Future!Next /\ UNCHANGED <<which, vars, split, merge>>
  BY <1>2
<1>3. CASE which = "shared" /\ Shared!Next /\ UNCHANGED <<which, vars, future, merge>>
  BY <1>3
<1>4. CASE which = "merge" /\ Merge!Next /\ UNCHANGED <<which, vars, future, split>>
  BY <1>4
<1>5. CASE UNCHANGED allVars
  BY <1>5 DEF allVars
<1> QED
  BY <1>1, <1>2, <1>3, <1>4, <1>5 DEF MCNext

\* A future that rests has ended.
LEMMA FutureRestsWell ==
  ASSUME FutureRests
  PROVE  FutureInv
BY DEF FutureRests, FutureInv, FutureTypes, FutureCallback, FutureWord, FutureLeft,
   FutureDelivers, FutureGivenUp, FutureLives, FutureResults, FutureTold, Dropping,
   Future!Results

\* A merge_each that rests was refused.
LEMMA MergeRestsWell ==
  ASSUME Merge!ProperItems, MergeRests
  PROVE  MergeInv
<1> USE MergeNames DEF MergeRests
<1>1. MergeTypes
  <2>1. /\ mpc \in [Merge!Parties -> MergePartySteps]
        /\ mergeOutcome \in [Merge!Parties -> MergeOutcomes]
    BY DEF MergePartySteps, MergeOutcomes
  <2>2. active \in Int
    OBVIOUS
  <2>3. mergeAlive \in BOOLEAN
    OBVIOUS
  <2>4. mergeTold \in {<<>>, <<"value">>, <<"error">>, <<"stopped">>}
    OBVIOUS
  <2>5. mergeAlive <=> mergeTold = <<>>
    OBVIOUS
  <2>6. completion = "started" /\ mergeStart = "done" /\ mergeCb = "gone" /\ inside = {}
    OBVIOUS
  <2> QED
    BY <2>1, <2>2, <2>3, <2>4, <2>5, <2>6 DEF MergeTypes
<1>2. MergeHeld = {} /\ MergeCounted
  BY FS_EmptySet DEF MergeCounted, MergeHeld, MergeHolding
<1>3. MergePhase /\ MergeTold
  BY DEF MergePhase, MergeRefused, MergeTold
<1>4. MergeReports
  BY DEF MergeReports, Merge!Failed, MergeFailing
<1> QED
  BY <1>1, <1>2, <1>3, <1>4 DEF MergeInv

\* Nobody touches what was destroyed: the state of spawn_future and the future's
\* operation, the shared state of split and its operations, the operation of merge_each.
THEOREM NoStateIsUsedAfter ==
  ASSUME InlineOn \subseteq {"consumer"}, Shared!ProperOps, Merge!ProperItems
  PROVE  MCSafety => []StatesOutliveUse
<1> DEFINE All == FutureInv /\ SharedInv /\ MergeInv
<1>1. MCInit => All
  BY FutureStarts, SharedStarts, MergeStarts, FutureRestsWell, MergeRestsWell DEF MCInit
<1>2. All /\ [MCNext]_allVars => All'
  BY EachSteps, FutureStep, SharedStep, MergeStep
<1>3. All => StatesOutliveUse
  BY FutureSafe, SharedSafe, MergeSafe DEF StatesOutliveUse
<1> QED
  BY <1>1, <1>2, <1>3, PTL DEF MCSafety

\* The assertions of spawn_future hold: the word is what its reader expects, and the
\* result is there for whom it is passed on.
THEOREM AssertionsHold ==
  ASSUME InlineOn \subseteq {"consumer"}
  PROVE  MCSafety => []AssertsHold
<1>1. MCInit => FutureInv
  BY FutureStarts, FutureRestsWell DEF MCInit
<1>2. FutureInv /\ [MCNext]_allVars => FutureInv'
  BY EachSteps, FutureStep
<1>3. FutureInv => AssertsHold
  BY FutureSafe DEF AssertsHold
<1> QED
  BY <1>1, <1>2, <1>3, PTL DEF MCSafety

\* The receiver of spawn_future's future is completed at most once: with the result of the
\* operation, or stopped because it asked for that.
THEOREM ReceiverIsToldRightly ==
  ASSUME InlineOn \subseteq {"consumer"}
  PROVE  MCSafety => []SignalHasReason
<1>1. MCInit => FutureInv
  BY FutureStarts, FutureRestsWell DEF MCInit
<1>2. FutureInv /\ [MCNext]_allVars => FutureInv'
  BY EachSteps, FutureStep
<1>3. FutureInv => SignalHasReason
  BY FutureSafe DEF SignalHasReason
<1> QED
  BY <1>1, <1>2, <1>3, PTL DEF MCSafety

\* A receiver of split or ensure_started is told once, and stopped only if it has asked for it.
THEOREM OnlyItsOwnStop ==
  ASSUME Shared!ProperOps
  PROVE  MCSafety => []NobodyElseStopsIt
<1>1. MCInit => SharedInv
  BY SharedStarts DEF MCInit
<1>2. SharedInv /\ [MCNext]_allVars => SharedInv'
  BY EachSteps, SharedStep
<1>3. SharedInv => NobodyElseStopsIt
  BY SharedOwnStop DEF NobodyElseStopsIt
<1> QED
  BY <1>1, <1>2, <1>3, PTL DEF MCSafety

\* The receiver of merge_each is told once, and a value just if nothing has failed.
THEOREM ValueJustIfNoneFailed ==
  ASSUME Merge!ProperItems
  PROVE  MCSafety => []ValueIfNoneFailed
<1>1. MCInit => MergeInv
  BY MergeStarts, MergeRestsWell DEF MCInit
<1>2. MergeInv /\ [MCNext]_allVars => MergeInv'
  BY EachSteps, MergeStep
<1>3. MergeInv => ValueIfNoneFailed
  BY MergeTells DEF ValueIfNoneFailed
<1> QED
  BY <1>1, <1>2, <1>3, PTL DEF MCSafety
=============================================================================
