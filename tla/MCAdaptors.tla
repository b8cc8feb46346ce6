------------------------------ MODULE MCAdaptors ------------------------------
(***************************************************************************)
(* A small instance for TLC of the adaptors whose parties share a state:   *)
(* when_all and when_any, spawn_future, split and ensure_started,          *)
(* merge_each.  They have nothing to do with each other: the initial state *)
(* says which of them the program uses, and the others rest.               *)
(***************************************************************************)
EXTENDS FanIn

CONSTANTS Which,            \* of "fan in", "future", "shared", "merge"
          InlineOn,         \* of SpawnFuture
          Ops,              \* of SharedState
          NumSeqs, WithItem \* of MergeEach

VARIABLES
  which,
  word, futureAlive, assoc, futureResult, stop, ppc, pthread, cpc, tpc, cb, runner,
  futureStop, futureSignals,
  tag, refs, temps, flag, sharedAsked, results, waiters, over, opc, sharedOn, todo, item,
  spc, dpc, onStop, ext, told,
  stoppable, active, completion, mergeAsked, stored, mergeAlive, mergeTold, mergeStop,
  mergeStart, mergeCb, mpc, mergeOutcome, heard, inside

future == <<word, futureAlive, assoc, futureResult, stop, ppc, pthread, cpc, tpc, cb, runner,
            futureStop, futureSignals>>
split  == <<tag, refs, temps, flag, sharedAsked, results, waiters, over, opc, sharedOn,
            todo, item, spc, dpc, onStop, ext, told>>
merge  == <<stoppable, active, completion, mergeAsked, stored, mergeAlive, mergeTold,
            mergeStop, mergeStart, mergeCb, mpc, mergeOutcome, heard, inside>>
allVars == <<which, vars, future, split, merge>>

Future == INSTANCE SpawnFuture WITH
  alive <- futureAlive, result <- futureResult, extStop <- futureStop, signals <- futureSignals
Shared == INSTANCE SharedState WITH
  asked <- sharedAsked, on <- sharedOn, pc <- spc
Merge == INSTANCE MergeEach WITH
  N <- NumSeqs, InlineInCallback <- FALSE,
  count <- active, asked <- mergeAsked, alive <- mergeAlive, told <- mergeTold,
  ext <- mergeStop, start <- mergeStart, cb <- mergeCb, pc <- mpc, outcome <- mergeOutcome

ASSUME Future!InlineOnThreads /\ Shared!ProperOps /\ Merge!ProperItems

\* What rests has ended: an operation of when_any that was not started, a future
\* whose construction failed, a sender that nobody uses.
FanInRests ==
  /\ kind = "any" /\ sends = TRUE /\ state = "started" /\ count = N /\ asked = TRUE /\ result = None
  /\ alive = FALSE /\ signals = <<"stopped">>
  /\ reg = "gone" /\ extStop = TRUE /\ start = "done" /\ late = FALSE
  /\ pc = [p \in Parties |-> IF p = Callback THEN "done" ELSE "idle"]
  /\ on = [p \in Parties |-> Caller] /\ outcome = [c \in Children |-> "none"]

FutureRests ==
  /\ word = "null" /\ futureAlive = FALSE /\ assoc = FALSE /\ futureResult = "none" /\ stop = FALSE
  /\ ppc = "cleaned" /\ pthread = "producer" /\ cpc = "done" /\ tpc = "idle" /\ cb = "none"
  /\ runner = "canceller" /\ futureStop = FALSE /\ futureSignals = <<>>

MergeRests ==
  /\ stoppable = TRUE /\ active = 0 /\ completion = "started" /\ mergeAsked = TRUE
  /\ stored = {} /\ mergeAlive = FALSE /\ mergeTold = <<"stopped">> /\ mergeStop = TRUE
  /\ mergeStart = "done" /\ mergeCb = "gone"
  /\ mpc = [p \in Merge!Parties |-> "idle"]
  /\ mergeOutcome = [p \in Merge!Parties |-> "none"] /\ heard = {} /\ inside = {}

MCInit ==
  /\ which \in Which /\ Shared!Init
  /\ which # "shared" => tag = "split"
  /\ IF which = "fan in" THEN Init ELSE FanInRests
  /\ IF which = "future" THEN Future!Init ELSE FutureRests
  /\ IF which = "merge" THEN Merge!Init ELSE MergeRests

MCNext ==
  \/ which = "fan in" /\ Next /\ UNCHANGED <<which, future, split, merge>>
  \/ which = "future" /\ Future!Next /\ UNCHANGED <<which, vars, split, merge>>
  \/ which = "shared" /\ Shared!Next /\ UNCHANGED <<which, vars, future, merge>>
  \/ which = "merge" /\ Merge!Next /\ UNCHANGED <<which, vars, future, split>>

\* Nothing goes round in any of them: that somebody goes on is fairness enough.
MCSafety == MCInit /\ [][MCNext]_allVars
MCSpec   == MCSafety /\ WF_allVars(
  \/ which = "fan in" /\ Onward /\ UNCHANGED <<which, future, split, merge>>
  \/ which = "future" /\ Future!Onward /\ UNCHANGED <<which, vars, split, merge>>
  \/ which = "shared" /\ Shared!Onward /\ UNCHANGED <<which, vars, future, merge>>
  \/ which = "merge" /\ Merge!Onward /\ UNCHANGED <<which, vars, future, split>>)

\* spawn_future: the canceller finds the state where it left it.
CancelKeepsState == Future!CancelKeepsState

\* Nobody touches what was destroyed: the state of spawn_future or the future's
\* operation, the shared state of split or an operation of it, the operation of
\* merge_each.
StatesOutliveUse == Future!OutlivesUse /\ Shared!OutlivesUse /\ Merge!OutlivesUse

\* when_all, when_any, merge_each: the operation ends once that is decided, that
\* is, EndsWhenDecided of each in one formula.
EndsOnceDecided ==
  (which = "fan in" /\ Decided) \/ (which = "merge" /\ Merge!Decided)
  ~> (which = "fan in" => signals # <<>>) /\ (which = "merge" => Merge!Ended)

\* spawn_future: the assertions of the source hold.
AssertsHold == Future!AssertsHold

\* spawn_future: the receiver is completed once, and rightly.
SignalHasReason == Future!SignalHasReason

\* spawn_future: what is dropped, stopped or completed comes to an end.
EverythingEnds == Future!EverythingEnds

\* split, ensure_started: a receiver is told once, and stopped only if it asked.
NobodyElseStopsIt == Shared!NobodyElseStopsIt

\* split, ensure_started: every started operation is completed, the state freed.
EveryoneIsTold == Shared!EveryoneIsTold

\* split, ensure_started: the last consumer to go asks the operation to stop.
LastOneStopsIt == Shared!LastOneStopsIt

\* merge_each: a value is sent just if nothing has failed.
ValueIfNoneFailed == Merge!ValueIfNoneFailed

\* merge_each: what was stored as an error is delivered.
ErrorIsDelivered == Merge!ErrorIsDelivered

=============================================================================
