------------------------------- MODULE Select -------------------------------
(***************************************************************************)
(* The select expression over Slug channels, task handles and timers:      *)
(* Executor.evalSelect and object.Channel, run by several goroutines while *)
(* channels are closed and tasks complete around them.                     *)
(*                                                                         *)
(* evalSelect works in three parts with user code and other goroutines in  *)
(* between: it evaluates the cases one by one (for a send, asking the      *)
(* channel whether it is closed), waits in reflect.Select, and turns the   *)
(* chosen case into a value (for a send, asking again).  The Go channel    *)
(* under object.Channel and reflect.Select are external: they are modelled *)
(* as the language defines them.                                           *)
(***************************************************************************)
EXTENDS Integers, Sequences, FiniteSets, SequencesExt

CONSTANTS
  Proc,       \* goroutines that run selects
  Chan,       \* channels
  Task,       \* task handles that selects await
  Capacity,   \* Capacity[c]: the capacity c was made with
  Forms,      \* the select expressions of the program: sequences of cases
  Closable,   \* channels the program closes
  MaxSelects, \* bound: selects each goroutine runs
  NoMsg       \* stands for nil and for "no message"

\* A case of a select expression; of names its channel or its task.
CaseSpec == [kind : {"recv", "send"}, of : Chan]
            \cup [kind : {"await"}, of : Task]
            \cup [kind : {"after"}, ms : Nat]
            \cup [kind : {"default"}]

\* A payload is the number of the select that sends it: all are different.
Msg == Proc \X (1 .. MaxSelects)

ASSUME SelectAssumption ==
  /\ Capacity \in [Chan -> Nat]
  /\ Closable \subseteq Chan
  /\ MaxSelects \in Nat
  /\ NoMsg \notin Msg
  /\ Forms \subseteq Seq(CaseSpec) \ {<<>>} /\ Forms # {}

VARIABLES
  buf,      \* the values in each channel
  closed,   \* Channel.closed (and the Go channel's own state)
  done,     \* VMTaskHandle.done of the awaited tasks
  sel,      \* each goroutine's select in progress
  count,    \* selects each goroutine has begun
  crashed   \* a Go panic has ended the process

vars == <<buf, closed, done, sel, count, crashed>>

\* evals and cases are evalSelect's two slices; at is reflect.Select's index;
\* took and gave are the message that left or entered a channel for this
\* select; out is what the select expression evaluated to.
NoOut == [kind |-> "none"]
Idle == [pc |-> "idle", form |-> <<>>, evals |-> <<>>, cases |-> <<>>, at |-> 0,
         took |-> NoMsg, gave |-> NoMsg, out |-> NoOut]

Init ==
  /\ buf = [c \in Chan |-> <<>>]
  /\ closed = [c \in Chan |-> FALSE]
  /\ done = [t \in Task |-> FALSE]
  /\ sel = [p \in Proc |-> Idle]
  /\ count = [p \in Proc |-> 0]
  /\ crashed = FALSE

At(p, pc) == ~crashed /\ sel[p].pc = pc
Payload(p) == <<p, count[p]>>

----------------------------------------------------------------------------
(* Evaluating the cases *)

Begin(p) ==
  /\ At(p, "idle") /\ count[p] < MaxSelects
  /\ \E form \in Forms : sel' = [sel EXCEPT ![p] = [Idle EXCEPT !.pc = "eval", !.form = form]]
  /\ count' = [count EXCEPT ![p] = @ + 1]
  /\ UNCHANGED <<buf, closed, done, crashed>>

\* Mutant: a send on a closed channel is appended as well as the signal.
CaseOfBothAppended(spec) ==
  CASE spec.kind = "send" /\ closed[spec.of] -> << spec, [kind |-> "ready"] >>
    [] spec.kind = "after" /\ spec.ms = 0 -> <<>>
    [] OTHER -> << spec >>

\* Mutant: no timer is started for any `after`.
CaseOfNoTimer(spec) ==
  CASE spec.kind = "send" /\ closed[spec.of] -> << [kind |-> "ready"] >>
    [] spec.kind = "after" -> <<>>
    [] OTHER -> << spec >>

\* Mutant: an await waits on the signal channel, not on the task's done.
CaseOfAwaitReady(spec) ==
  CASE spec.kind = "send" /\ closed[spec.of] -> << [kind |-> "ready"] >>
    [] spec.kind = "await" -> << [kind |-> "ready"] >>
    [] spec.kind = "after" /\ spec.ms = 0 -> <<>>
    [] OTHER -> << spec >>

\* The reflect.SelectCases that evaluating a case appends: a send on a channel
\* found closed waits on an already closed signal channel instead, and an
\* `after 0` appends none.
CaseOf(spec) ==
  CASE spec.kind = "send" /\ closed[spec.of] -> << [kind |-> "ready"] >>
    [] spec.kind = "after" /\ spec.ms = 0 -> <<>>
    [] OTHER -> << spec >>

EvalCase(p) ==
  LET s == sel[p]
      spec == s.form[Len(s.evals) + 1]
  IN  /\ At(p, "eval") /\ Len(s.evals) < Len(s.form)
      /\ sel' = [sel EXCEPT ![p].evals = Append(@, spec), ![p].cases = @ \o CaseOf(spec)]
      /\ UNCHANGED <<buf, closed, done, count, crashed>>

\* A thunk faults, or yields something that is not a channel, a task, a
\* payload or a duration.
EvalFails(p) ==
  /\ At(p, "eval") /\ Len(sel[p].evals) < Len(sel[p].form)
  /\ sel' = [sel EXCEPT ![p].pc = "done", ![p].out = [kind |-> "fault"]]
  /\ UNCHANGED <<buf, closed, done, count, crashed>>

Wait(p) ==
  /\ At(p, "eval") /\ Len(sel[p].evals) = Len(sel[p].form)
  /\ sel' = [sel EXCEPT ![p].pc = "wait"]
  /\ UNCHANGED <<buf, closed, done, count, crashed>>

----------------------------------------------------------------------------
(* reflect.Select (external) *)

HasCase(p, k, kind) == k \in DOMAIN sel[p].cases /\ sel[p].cases[k].kind = kind

\* The goroutines a case of another one could meet on an unbuffered channel.
Waiting(kind, c) ==
  {q \in Proc : /\ At(q, "wait")
                /\ \E k \in DOMAIN sel[q].cases : HasCase(q, k, kind) /\ sel[q].cases[k].of = c}

CanRecv(p, c) == \/ buf[c] # <<>>
                 \/ closed[c]
                 \/ Waiting("send", c) \ {p} # {}
CanSend(p, c) == \/ closed[c]
                 \/ Len(buf[c]) < Capacity[c]
                 \/ Waiting("recv", c) \ {p} # {}

\* Whether a case other than a timer is ready; timers fire at any moment.
Ready(p, k) ==
  LET cs == sel[p].cases[k]
  IN  CASE cs.kind = "recv" -> CanRecv(p, cs.of)
        [] cs.kind = "send" -> CanSend(p, cs.of)
        [] cs.kind = "await" -> done[cs.of]
        [] cs.kind = "ready" -> TRUE
        [] OTHER -> FALSE

Chosen(s, k, took, gave) ==
  [s EXCEPT !.pc = "chosen", !.at = k, !.took = took, !.gave = gave]

RecvBuffered(p) ==
  \E k \in DOMAIN sel[p].cases :
    LET c == sel[p].cases[k].of
    IN  /\ At(p, "wait") /\ HasCase(p, k, "recv")
        /\ buf[c] # <<>>
        /\ sel' = [sel EXCEPT ![p] = Chosen(@, k, Head(buf[c]), NoMsg)]
        /\ buf' = [buf EXCEPT ![c] = Tail(@)]
        /\ UNCHANGED <<closed, done, count, crashed>>

RecvClosed(p) ==
  \E k \in DOMAIN sel[p].cases :
    LET c == sel[p].cases[k].of
    IN  /\ At(p, "wait") /\ HasCase(p, k, "recv")
        /\ closed[c] /\ buf[c] = <<>>
        /\ sel' = [sel EXCEPT ![p] = Chosen(@, k, NoMsg, NoMsg)]
        /\ UNCHANGED <<buf, closed, done, count, crashed>>

SendBuffered(p) ==
  \E k \in DOMAIN sel[p].cases :
    LET c == sel[p].cases[k].of
    IN  /\ At(p, "wait") /\ HasCase(p, k, "send")
        /\ ~closed[c] /\ Len(buf[c]) < Capacity[c]
        /\ sel' = [sel EXCEPT ![p] = Chosen(@, k, NoMsg, Payload(p))]
        /\ buf' = [buf EXCEPT ![c] = Append(@, Payload(p))]
        /\ UNCHANGED <<closed, done, count, crashed>>

\* A sender and a receiver meet on an unbuffered channel.
Rendezvous(p, q) ==
  \E k \in DOMAIN sel[p].cases : \E j \in DOMAIN sel[q].cases :
    /\ p # q /\ At(p, "wait") /\ At(q, "wait")
    /\ HasCase(p, k, "send") /\ HasCase(q, j, "recv")
    /\ sel[p].cases[k].of = sel[q].cases[j].of
    /\ LET c == sel[p].cases[k].of
       IN ~closed[c] /\ Capacity[c] = 0
    /\ sel' = [sel EXCEPT ![p] = Chosen(@, k, NoMsg, Payload(p)),
                          ![q] = Chosen(@, j, Payload(p), NoMsg)]
    /\ UNCHANGED <<buf, closed, done, count, crashed>>

\* A Go channel that is closed under a waiting send panics, and nothing
\* recovers the panic of a goroutine that runs bytecode.
SendPanics(p) ==
  \E k \in DOMAIN sel[p].cases :
    /\ At(p, "wait") /\ HasCase(p, k, "send")
    /\ closed[sel[p].cases[k].of]
    /\ crashed' = TRUE
    /\ UNCHANGED <<buf, closed, done, sel, count>>

\* The signal of a send refused early, a timer, or a completed task.
SignalFires(p) ==
  \E k \in DOMAIN sel[p].cases :
    /\ At(p, "wait")
    /\ \/ HasCase(p, k, "ready")
       \/ HasCase(p, k, "after")
       \/ HasCase(p, k, "await") /\ Ready(p, k)
    /\ sel' = [sel EXCEPT ![p] = Chosen(@, k, NoMsg, NoMsg)]
    /\ UNCHANGED <<buf, closed, done, count, crashed>>

DefaultChosen(p) ==
  \E k \in DOMAIN sel[p].cases :
    /\ At(p, "wait") /\ HasCase(p, k, "default")
    /\ \A j \in DOMAIN sel[p].cases : ~Ready(p, j)
    /\ sel' = [sel EXCEPT ![p] = Chosen(@, k, NoMsg, NoMsg)]
    /\ UNCHANGED <<buf, closed, done, count, crashed>>

----------------------------------------------------------------------------
(* The chosen case's value *)

\* Mutant: the second question, whether the channel is closed, is dropped.
OutcomeNoRecheck(p) ==
  LET s == sel[p]
      spec == s.evals[s.at]
  IN  CASE spec.kind = "recv" -> [kind |-> "received", msg |-> s.took]
        [] spec.kind = "send" -> [kind |-> "sent", msg |-> Payload(p)]
        [] spec.kind = "await" -> [kind |-> "awaited", task |-> spec.of]
        [] spec.kind = "after" -> [kind |-> "elapsed"]
        [] OTHER -> [kind |-> "default"]

\* Mutant: a receive asks the channel, not reflect.Select, whether it is closed.
OutcomeAsksChannel(p) ==
  LET s == sel[p]
      spec == s.evals[s.at]
  IN  CASE spec.kind = "recv" -> [kind |-> "received",
                                  msg |-> IF closed[spec.of] THEN NoMsg ELSE s.took]
        [] spec.kind = "send" -> IF closed[spec.of] THEN [kind |-> "closedError"]
                                 ELSE [kind |-> "sent", msg |-> Payload(p)]
        [] spec.kind = "await" -> [kind |-> "awaited", task |-> spec.of]
        [] spec.kind = "after" -> [kind |-> "elapsed"]
        [] OTHER -> [kind |-> "default"]

\* evals[chosen] decides what the select evaluates to, whatever fired.
Outcome(p) ==
  LET s == sel[p]
      spec == s.evals[s.at]
  IN  CASE spec.kind = "recv" -> [kind |-> "received", msg |-> s.took]
        [] spec.kind = "send" -> IF closed[spec.of] THEN [kind |-> "closedError"]
                                 ELSE [kind |-> "sent", msg |-> Payload(p)]
        [] spec.kind = "await" -> [kind |-> "awaited", task |-> spec.of]
        [] spec.kind = "after" -> [kind |-> "elapsed"]
        [] OTHER -> [kind |-> "default"]

Finish(p) ==
  /\ At(p, "chosen")
  /\ sel' = [sel EXCEPT ![p].pc = "done", ![p].out = Outcome(p)]
  /\ UNCHANGED <<buf, closed, done, count, crashed>>

\* The handler and the rest of the program run, up to the next select.
GoOn(p) ==
  /\ At(p, "done")
  /\ sel' = [sel EXCEPT ![p] = Idle]
  /\ UNCHANGED <<buf, closed, done, count, crashed>>

----------------------------------------------------------------------------
(* The surroundings *)

\* Channel.Close marks the channel and closes the Go channel under its mutex.
Close(c) ==
  /\ ~crashed /\ c \in Closable /\ ~closed[c]
  /\ closed' = [closed EXCEPT ![c] = TRUE]
  /\ UNCHANGED <<buf, done, sel, count, crashed>>

TaskDone(t) ==
  /\ ~crashed /\ ~done[t]
  /\ done' = [done EXCEPT ![t] = TRUE]
  /\ UNCHANGED <<buf, closed, sel, count, crashed>>

SelectStep(p) == \/ EvalCase(p) \/ EvalFails(p) \/ Wait(p)
                 \/ RecvBuffered(p) \/ RecvClosed(p) \/ SendBuffered(p)
                 \/ \E q \in Proc : Rendezvous(p, q) \/ Rendezvous(q, p)
                 \/ SendPanics(p) \/ SignalFires(p) \/ DefaultChosen(p)
                 \/ Finish(p) \/ GoOn(p)

Next == \/ \E p \in Proc : Begin(p) \/ SelectStep(p)
        \/ \E c \in Chan : Close(c)
        \/ \E t \in Task : TaskDone(t)

Spec == Init /\ [][Next]_vars

\* The scheduler runs goroutines that can run; tasks complete.
LiveSpec == /\ Spec
            /\ \A p \in Proc : WF_vars(SelectStep(p))
            /\ \A t \in Task : WF_vars(TaskDone(t))

----------------------------------------------------------------------------
(* Properties *)

\* The state has the shape of evalSelect's locals and of the channels.
TypeOK ==
  /\ buf \in [Chan -> Seq(Msg)]
  /\ \A c \in Chan : Len(buf[c]) <= Capacity[c]
  /\ closed \in [Chan -> BOOLEAN]
  /\ done \in [Task -> BOOLEAN]
  /\ \A p \in Proc :
       /\ sel[p].pc \in {"idle", "eval", "wait", "chosen", "done"}
       /\ sel[p].took \in Msg \cup {NoMsg}
       /\ sel[p].gave \in Msg \cup {NoMsg}
       /\ sel[p].pc = "chosen" => sel[p].at \in DOMAIN sel[p].evals
  /\ count \in [Proc -> 0 .. MaxSelects]
  /\ crashed \in BOOLEAN

\* A message that left a channel for a select is the value of that select.
TakenIsDelivered ==
  \A p \in Proc : sel[p].pc = "done" /\ sel[p].took # NoMsg =>
    sel[p].out = [kind |-> "received", msg |-> sel[p].took]

\* A select says it has sent exactly when its payload has entered a channel or
\* met a receiver (unless the channel is closed by the time it looks).
SentIsAccepted ==
  \A p \in Proc : sel[p].pc = "done" =>
    /\ sel[p].out.kind = "sent" => sel[p].gave = sel[p].out.msg
    /\ sel[p].gave # NoMsg => sel[p].out.kind \in {"sent", "closedError"}

\* An await case is selected only when its task is done: AwaitResult does not
\* wait, it gives nil for a task that has no result yet.
AwaitedIsDone ==
  \A p \in Proc : sel[p].out.kind = "awaited" => done[sel[p].out.task]

\* A select that waits to receive from a channel goes on once the channel is
\* closed, one that awaits a task once the task is done, and one with an
\* `after` of more than 0 in any case.
WaitersAreReleased ==
  \A p \in Proc :
    (sel[p].pc = "wait" /\ \E i \in DOMAIN sel[p].form :
        LET spec == sel[p].form[i]
        IN  \/ spec.kind = "after" /\ spec.ms > 0
            \/ spec.kind = "await"
            \/ spec.kind = "recv" /\ closed[spec.of])
    ~> (sel[p].pc # "wait" \/ crashed)

----------------------------------------------------------------------------
(* What the documents say, where the code does otherwise *)

\* lib/slug/channel.slug: "Sending to a closed channel is a runtime error",
\* which the program can handle, and not the end of the process.
NoPanic == ~crashed

\* ADR-025, 3: after close, send "is a RuntimeError": it does not send.
RefusedIsNotSent ==
  \A p \in Proc : sel[p].out.kind = "closedError" => sel[p].gave = NoMsg
=============================================================================
