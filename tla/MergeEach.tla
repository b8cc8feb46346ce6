------------------------------- MODULE MergeEach -------------------------------
(***************************************************************************)
(* merge_each (include/exec/sequence/merge_each.hpp): the items of all the *)
(* sequences of a sequence become the items of one sequence.               *)
(*                                                                         *)
(* The parties are the sequence of sequences, the nested sequences and     *)
(* their items.  Each is counted in __active_ from its start on; whoever   *)
(* brings the count to zero completes the receiver.  A nested sequence is  *)
(* itself an item of the outer one and comes out of a sender.  A producer  *)
(* completes when it has heard of all the items that it sent.              *)
(*                                                                         *)
(* The first failure is to ask the others to stop, through a stop source   *)
(* that a stop callback of the receiver asks too.  A party completes on a  *)
(* thread of its own or inside a request_stop(); as it is counted while it *)
(* calls request_stop(), only the stop callback is worth telling apart.    *)
(*                                                                         *)
(* A definition whose name starts with Bug is a defective variant of the   *)
(* one it precedes and takes no part in the specification.                 *)
(***************************************************************************)
EXTENDS Naturals, Sequences

CONSTANTS
  N,                 \* bound: nested sequences
  WithItem,          \* bound: those that send an item, one at most
  InlineInCallback   \* parties may complete inside the request_stop() of the
                     \* stop callback

\* What the bounds must be.
ProperItems == N \in Nat /\ WithItem \subseteq 1 .. N

Outer       == <<"outer", 0>>
Sequence(i) == <<"sequence", i>>
Item(i)     == <<"item", i>>
Parties     == {Outer} \union ({"sequence"} \X (1 .. N)) \union ({"item"} \X WithItem)
IsSequence(p) == p[1] = "sequence"
IsItem(p)     == p[1] = "item"
SentBy(p) == IF p = Outer THEN {q \in Parties : IsSequence(q)}
             ELSE IF IsSequence(p) THEN {Item(p[2])} \intersect Parties ELSE {}

VARIABLES
  stoppable,   \* the receiver's stop token is not an unstoppable_token
  count,       \* __active_
  completion,  \* __completion_
  asked,       \* the stop source of __nested_stop_ has been asked to stop
  stored,      \* who has written __error_storage_ or __ex_
  alive,       \* the operation exists
  told,        \* the completions of the receiver
  ext,         \* stop was requested of the receiver
  start,       \* the step of start()
  cb,          \* __on_stop_, and the step of the callback
  pc,          \* the step of each party
  outcome,     \* what it completed with
  heard,       \* whose producer got to know that it completed
  inside       \* who completes inside the callback

shared == <<count, completion, asked, stored>>
outer  == <<ext, start, cb>>
life   == <<alive, told>>
party  == <<pc, outcome, heard, inside>>
vars   == <<stoppable, shared, outer, life, party>>

Init ==
  /\ stoppable \in BOOLEAN
  /\ count = 0 /\ completion = "started" /\ asked = FALSE /\ stored = {}
  /\ alive = TRUE /\ told = <<>>
  /\ ext = FALSE /\ start = "register" /\ cb = "none"
  /\ pc = [p \in Parties |-> "idle"]
  /\ outcome = [p \in Parties |-> "none"]
  /\ heard = {} /\ inside = {}

Goto(p, step)  == pc' = [pc EXCEPT ![p] = step]
Steps(p, a, b) == pc[p] = a /\ Goto(p, b)
CallbackRuns   == cb \in {"begun", "asking"}

-----------------------------------------------------------------------------
(* start()                                                                 *)

\* If stop was requested before, the callback runs here.
Register ==
  /\ start = "register" /\ start' = "check"
  /\ asked' = ext
  /\ cb' = (IF ext THEN "ran" ELSE IF stoppable THEN "registered" ELSE "none")
  /\ UNCHANGED <<stoppable, count, completion, stored, ext, life, party>>

Check ==
  /\ start = "check"
  /\ IF asked THEN start' = "refuse" /\ UNCHANGED <<count, pc>>
              ELSE start' = "done" /\ count' = 1 /\ Goto(Outer, "running")
  /\ UNCHANGED <<stoppable, completion, asked, stored, ext, cb, life, outcome, heard, inside>>

\* The receiver destroys the operation and with it the callback.
Refuse ==
  /\ start = "refuse" /\ ~CallbackRuns
  /\ start' = "done" /\ cb' = "gone"
  /\ told' = Append(told, "stopped") /\ alive' = FALSE
  /\ UNCHANGED <<stoppable, shared, ext, party>>

-----------------------------------------------------------------------------
(* The producers send and complete                                         *)

\* set_next() of the outer sequence, and start() of what it returned.
NextSequence(i) ==
  /\ pc[Outer] = "running" /\ Steps(Sequence(i), "idle", "sender")
  /\ count' = count + 1
  /\ UNCHANGED <<stoppable, completion, asked, stored, outer, life, outcome, heard, inside>>

\* The sender sends the nested sequence, which is subscribed to and started.
Subscribe(i) ==
  /\ Steps(Sequence(i), "sender", "running")
  /\ UNCHANGED <<stoppable, shared, outer, life, outcome, heard, inside>>

\* The item is not counted.
BugDoesNotCount(i) ==
  /\ pc[Sequence(i)] = "running" /\ Steps(Item(i), "idle", "running")
  /\ UNCHANGED <<stoppable, shared, outer, life, outcome, heard, inside>>

\* set_next() of a nested sequence, and start() of what it returned.
NextItem(i) ==
  /\ pc[Sequence(i)] = "running" /\ Steps(Item(i), "idle", "running")
  /\ count' = count + 1
  /\ UNCHANGED <<stoppable, completion, asked, stored, outer, life, outcome, heard, inside>>

MayBeInside(p) ==
  \/ UNCHANGED inside
  \/ InlineInCallback /\ cb = "asking" /\ inside' = inside \union {p}

Ends(p, signal, step) ==
  /\ outcome' = [outcome EXCEPT ![p] = signal] /\ Goto(p, step)
  /\ MayBeInside(p)
  /\ UNCHANGED <<stoppable, shared, outer, life>>

\* The sender of a nested sequence fails, or subscribing throws.  The producer
\* of the sender hears nothing.
SenderFails(i) ==
  /\ pc[Sequence(i)] = "sender"
  /\ \/ Ends(Sequence(i), "senderError", "exchange")
     \/ Ends(Sequence(i), "senderStopped", "leave")
  /\ UNCHANGED heard

MayComplete(p) ==
  pc[p] = "running" /\ \A q \in SentBy(p) : pc[q] = "idle" \/ q \in heard

\* Items tell their producer first; so do nested sequences, but for errors.
CompleteItem(i) ==
  /\ MayComplete(Item(i)) /\ heard' = heard \union {Item(i)}
  /\ \/ Ends(Item(i), "error", "exchange")
     \/ \E signal \in {"value", "stopped"} : Ends(Item(i), signal, "leave")

CompleteSequence(i) ==
  /\ MayComplete(Sequence(i))
  /\ \/ Ends(Sequence(i), "error", "exchange") /\ UNCHANGED heard
     \/ /\ \E signal \in {"value", "stopped"} : Ends(Sequence(i), signal, "leave")
        /\ heard' = heard \union {Sequence(i)}

CompleteOuter ==
  /\ MayComplete(Outer) /\ UNCHANGED heard
  /\ \/ Ends(Outer, "value", "leave")
     \/ Ends(Outer, "stopped", "break")
     \/ Ends(Outer, "error", "exchange")

-----------------------------------------------------------------------------
(* The report of a party                                                   *)

\* set_stopped() of the next receiver comes before set_break().
AfterError(p) == IF outcome[p] = "error" /\ IsSequence(p) THEN "tell" ELSE "break"

\* The error stops nobody.
BugAsksNobody(p) ==
  /\ pc[p] = "exchange"
  /\ completion' = "error"
  /\ Goto(p, IF completion = "error" THEN AfterError(p) ELSE "store")
  /\ UNCHANGED <<stoppable, count, asked, stored, outer, life, outcome, heard, inside>>

\* nested_value_fail(), and set_exception() of the outer sequence.  With an
\* unstoppable token request_stop() does nothing.
Exchange(p) ==
  /\ pc[p] = "exchange"
  /\ completion' = "error"
  /\ Goto(p, IF completion = "error" THEN AfterError(p)
             ELSE IF completion = "started" /\ stoppable THEN "askAndStore"
             ELSE "store")
  /\ UNCHANGED <<stoppable, count, asked, stored, outer, life, outcome, heard, inside>>

Store(p) ==
  /\ Steps(p, "store", AfterError(p))
  /\ stored' = stored \union {p}
  /\ UNCHANGED <<stoppable, count, completion, asked, outer, life, outcome, heard, inside>>

Tell(p) ==
  /\ Steps(p, "tell", "break")
  /\ heard' = heard \union {p}
  /\ UNCHANGED <<stoppable, shared, outer, life, outcome, inside>>

\* The break is not recorded.
BugOnlyAsks(p) ==
  /\ Steps(p, "break", IF completion = "started" /\ stoppable THEN "askAndLeave" ELSE "leave")
  /\ UNCHANGED <<stoppable, shared, outer, life, outcome, heard, inside>>

\* set_break(): it exchanges, also if what it finds is to be ignored.
Break(p) ==
  /\ Steps(p, "break", IF completion = "started" /\ stoppable THEN "askAndLeave" ELSE "leave")
  /\ completion' = "stopped"
  /\ UNCHANGED <<stoppable, count, asked, stored, outer, life, outcome, heard, inside>>

RequestStop(p) ==
  /\ Steps(p, "askAndStore", "store") \/ Steps(p, "askAndLeave", "leave")
  /\ asked' = TRUE
  /\ UNCHANGED <<stoppable, count, completion, stored, outer, life, outcome, heard, inside>>

-----------------------------------------------------------------------------
(* complete_if_none_active()                                               *)

Leave(p) ==
  /\ Steps(p, "leave", IF count = 1 THEN "reset" ELSE "done")
  /\ count' = count - 1
  /\ UNCHANGED <<stoppable, completion, asked, stored, outer, life, outcome, heard, inside>>

\* unregister_token() waits for the callback unless it is called inside it.
Unregister(p) ==
  /\ Steps(p, "reset", "deliver") /\ (CallbackRuns => p \in inside)
  /\ cb' = IF CallbackRuns THEN cb ELSE "gone"
  /\ UNCHANGED <<stoppable, shared, ext, start, life, outcome, heard, inside>>

\* An error of a nested sequence or an item would be sent as one more item.
Verdict == CASE completion = "started" -> "value"
             [] completion = "error"   -> "error"
             [] completion = "stopped" -> "stopped"

Deliver(p) ==
  /\ Steps(p, "deliver", "done")
  /\ told' = Append(told, Verdict) /\ alive' = FALSE
  /\ UNCHANGED <<stoppable, shared, outer, outcome, heard, inside>>

-----------------------------------------------------------------------------
(* The stop callback                                                       *)

Stop ==
  /\ stoppable /\ alive /\ ~ext /\ ext' = TRUE
  /\ UNCHANGED <<stoppable, shared, start, cb, life, party>>

CallbackBegins ==
  /\ ext /\ cb = "registered" /\ cb' = "begun"
  /\ UNCHANGED <<stoppable, shared, ext, start, life, party>>

CallbackAsks ==
  /\ cb = "begun" /\ cb' = IF asked THEN "ran" ELSE "asking"
  /\ asked' = TRUE
  /\ UNCHANGED <<stoppable, count, completion, stored, ext, start, life, party>>

CallbackReturns ==
  /\ cb = "asking" /\ cb' = "ran" /\ \A p \in inside : pc[p] = "done"
  /\ UNCHANGED <<stoppable, shared, ext, start, life, party>>

-----------------------------------------------------------------------------
Starting   == Register \/ Check \/ Refuse
Calling    == CallbackBegins \/ CallbackAsks \/ CallbackReturns
Sending    == (\E i \in 1 .. N : NextSequence(i)) \/ (\E i \in WithItem : NextItem(i))
Completing ==
  \/ CompleteOuter \/ \E i \in WithItem : CompleteItem(i)
  \/ \E i \in 1 .. N : Subscribe(i) \/ SenderFails(i) \/ CompleteSequence(i)
Reporting(p) ==
  \/ Exchange(p) \/ Store(p) \/ Tell(p) \/ Break(p) \/ RequestStop(p)
  \/ Leave(p) \/ Unregister(p) \/ Deliver(p)

Lost == \E i \in 1 .. N : outcome[Sequence(i)] \in {"senderError", "senderStopped"}

Resting ==
  /\ \/ told # <<>> \/ (Lost /\ pc[Outer] = "running")
  /\ UNCHANGED vars

Next ==
  \/ Starting \/ Stop \/ Calling \/ Sending \/ Completing \/ Resting
  \/ \E p \in Parties : Reporting(p)

Spec == Init /\ [][Next]_vars

\* Calls that have begun go on; what was asked to stop completes.  Nothing goes
\* round, so that it is enough that somebody goes on.
Onward ==
  \/ Starting \/ Calling \/ \E p \in Parties : Reporting(p)
  \/ asked /\ Completing

Fairness == WF_vars(Onward)

-----------------------------------------------------------------------------
(* Properties                                                              *)

\* When the receiver has been completed, which destroys the operation, nobody
\* is inside it or will come: no party, and not the stop callback.
OutlivesUse ==
  ~alive =>
    /\ start = "done" /\ ~CallbackRuns
    /\ \A p \in Parties : pc[p] \in {"idle", "done"}

Failed(p) == outcome[p] \in {"error", "senderError"} \/ (p = Outer /\ outcome[p] = "stopped")

\* The receiver is completed once, and with a value just if no party has failed
\* and it was not stopped before the start; that a nested sequence or an item was
\* stopped does not count as failure.
ValueIfNoneFailed ==
  told # <<>> =>
    /\ Len(told) = 1
    /\ told = <<"value">> <=> pc[Outer] = "done" /\ \A p \in Parties : ~Failed(p)

Decided == stoppable /\ (ext \/ \E p \in Parties : Failed(p))
Ended   == told # <<>> \/ Lost

\* A failure or a stop request ends the operation, whatever the others would
\* do, if the stop token allows it and no sender of a nested sequence failed.
EndsWhenDecided == Decided ~> Ended

\* An error is stored and emitted when all the active operations have completed.
ErrorIsDelivered ==
  told # <<>> /\ stored # {} => told = <<"error">>

================================================================================
