--------------------------- MODULE Select_proofs ---------------------------
(***************************************************************************)
(* Proofs about Select for every set of goroutines, channels and tasks,    *)
(* every capacity and every set of select expressions: evalSelect keeps    *)
(* its types, and, as long as no `after 0` stands before another case, the *)
(* value of a select agrees with what the channels and tasks did.          *)
(***************************************************************************)
EXTENDS Select, SequenceTheorems, TLAPS

----------------------------------------------------------------------------
(* The inductive invariant *)

Pc == {"idle", "eval", "wait", "chosen", "done"}
Case == CaseSpec \cup {[kind |-> "ready"]}
Out == [kind : {"none", "fault", "closedError", "elapsed", "default"}]
       \cup [kind : {"received", "sent"}, msg : Msg \cup {NoMsg}]
       \cup [kind : {"awaited"}, task : Task]

SelRec == [pc : Pc, form : Seq(CaseSpec), evals : Seq(CaseSpec), cases : Seq(Case),
           at : Nat, took : Msg \cup {NoMsg}, gave : Msg \cup {NoMsg}, out : Out]

\* The two slices of evalSelect: evals is the part of the form that has been
\* evaluated, and reflect.Select never sees more cases than evals has.
Sliced(s) ==
  /\ Len(s.evals) <= Len(s.form) /\ Len(s.cases) <= Len(s.evals)
  /\ \A i \in 1 .. Len(s.evals) : s.evals[i] = s.form[i]

\* What the stages of a select have done so far.
Staged(s) ==
  /\ s.pc \in {"idle", "eval", "wait"} => s.took = NoMsg /\ s.gave = NoMsg
  /\ s.pc # "done" => s.out = NoOut
  /\ s.pc = "chosen" => s.at \in 1 .. Len(s.cases)

ChannelsOK ==
  /\ buf \in [Chan -> Seq(Msg)]
  /\ \A c \in Chan : Len(buf[c]) <= Capacity[c]
  /\ closed \in [Chan -> BOOLEAN]
  /\ done \in [Task -> BOOLEAN]
  /\ crashed \in BOOLEAN

SelectsOK ==
  /\ sel \in [Proc -> SelRec]
  /\ count \in [Proc -> 0 .. MaxSelects]
  /\ \A p \in Proc : Sliced(sel[p]) /\ Staged(sel[p]) /\ (sel[p].pc # "idle" => count[p] > 0)

TypeInv == ChannelsOK /\ SelectsOK

\* Select expressions in which an `after 0`, which evalSelect gives no
\* reflect.SelectCase, leaves the positions of the other cases alone.
AlignedForm(form) ==
  \A i \in 1 .. Len(form) : form[i].kind = "after" /\ form[i].ms = 0 => i = Len(form)
AlignedForms == \A form \in Forms : AlignedForm(form)

\* Position by position, reflect.Select is given the case that was evaluated,
\* or the signal of a send whose channel was closed by then.
Matches(cs, spec) ==
  \/ cs = spec
  \/ cs.kind = "ready" /\ spec.kind = "send" /\ closed[spec.of]

Aligned(s) ==
  /\ AlignedForm(s.form)
  /\ Len(s.evals) < Len(s.form) => Len(s.cases) = Len(s.evals)
  /\ \A i \in 1 .. Len(s.cases) : Matches(s.cases[i], s.evals[i])

\* What the chosen case tells about the channels and the tasks.
ChoiceOK(p, s) ==
  LET spec == s.evals[s.at]
  IN  s.pc = "chosen" =>
        /\ s.took # NoMsg => spec.kind = "recv"
        /\ s.gave # NoMsg => spec.kind = "send"
        /\ spec.kind = "send" /\ ~closed[spec.of] => s.gave = Payload(p)
        /\ spec.kind = "await" => done[spec.of]

\* What the value of a select tells about them.
Told(s) ==
  /\ s.pc = "done" /\ s.took # NoMsg => s.out = [kind |-> "received", msg |-> s.took]
  /\ s.pc = "done" /\ s.out.kind = "sent" => s.gave = s.out.msg
  /\ s.pc = "done" /\ s.gave # NoMsg => s.out.kind \in {"sent", "closedError"}
  /\ s.out.kind = "awaited" => done[s.out.task]

AlignInv == \A p \in Proc : Aligned(sel[p]) /\ ChoiceOK(p, sel[p]) /\ Told(sel[p])

----------------------------------------------------------------------------
(* Cases and payloads *)

\* What the kind of a case says of its other field.
LEMMA CaseFields ==
  ASSUME NEW spec \in Case
  PROVE  /\ spec.kind \in {"recv", "send"} => spec \in CaseSpec /\ spec.of \in Chan
         /\ spec.kind = "await" => spec \in CaseSpec /\ spec.of \in Task
         /\ spec.kind \in {"recv", "send", "await", "after", "default", "ready"}
         /\ spec \in CaseSpec => spec.kind # "ready"
  BY DEF Case, CaseSpec

\* CaseOf appends at most one case.
LEMMA CaseOfType ==
  ASSUME NEW spec \in CaseSpec
  PROVE  /\ CaseOf(spec) \in Seq(Case)
         /\ Len(CaseOf(spec)) <= 1
         /\ \/ CaseOf(spec) = <<>> /\ spec.kind = "after" /\ spec.ms = 0
            \/ \E cs \in Case : CaseOf(spec) = <<cs>> /\ Matches(cs, spec)
  <1>1. spec \in Case /\ [kind |-> "ready"] \in Case
    BY DEF Case
  <1>2. CASE spec.kind = "send" /\ closed[spec.of]
    <2>1. CaseOf(spec) = << [kind |-> "ready"] >>
      BY <1>2 DEF CaseOf
    <2>2. QED
      BY <1>1, <1>2, <2>1 DEF Matches
  <1>3. CASE spec.kind = "after" /\ spec.ms = 0
    <2>1. CaseOf(spec) = <<>>
      BY <1>3 DEF CaseOf
    <2>2. QED
      BY <1>3, <2>1
  <1>4. CASE ~(spec.kind = "send" /\ closed[spec.of]) /\ ~(spec.kind = "after" /\ spec.ms = 0)
    <2>1. CaseOf(spec) = << spec >>
      BY <1>4 DEF CaseOf
    <2>2. QED
      BY <1>1, <2>1 DEF Matches
  <1>5. QED
    BY <1>2, <1>3, <1>4

\* The assumption on the constants, in the parts the steps need.
LEMMA Bounds == MaxSelects \in Nat /\ Capacity \in [Chan -> Nat] /\ NoMsg \notin Msg
  BY SelectAssumption

LEMMA FormType ==
  ASSUME NEW form \in Forms
  PROVE  form \in Seq(CaseSpec)
  BY SelectAssumption

LEMMA PayloadType ==
  ASSUME SelectsOK, NEW p \in Proc, sel[p].pc # "idle"
  PROVE  Payload(p) \in Msg /\ Payload(p) # NoMsg
  <1>1. count[p] \in 1 .. MaxSelects
    BY SelectAssumption DEF SelectsOK
  <1>2. Payload(p) \in Msg
    BY <1>1 DEF Payload, Msg
  <1>3. QED
    BY <1>2, SelectAssumption

LEMMA IdleType == Idle \in SelRec /\ Sliced(Idle) /\ Staged(Idle)
  BY DEF Idle, SelRec, Sliced, Staged, Pc, Out, NoOut

----------------------------------------------------------------------------
(* Types *)

\* A step that changes the select of one goroutine only.
LEMMA OneSelect ==
  ASSUME SelectsOK, NEW p \in Proc, NEW s \in SelRec,
         sel' = [sel EXCEPT ![p] = s],
         count' \in [Proc -> 0 .. MaxSelects],
         \A q \in Proc : count'[q] >= count[q],
         Sliced(s), Staged(s), s.pc # "idle" => count'[p] > 0
  PROVE  SelectsOK'
  <1>1. sel' \in [Proc -> SelRec]
    BY DEF SelectsOK
  <1>2. ASSUME NEW q \in Proc
        PROVE  Sliced(sel'[q]) /\ Staged(sel'[q]) /\ (sel'[q].pc # "idle" => count'[q] > 0)
    <2>1. CASE q = p
      BY <2>1 DEF SelectsOK
    <2>2. CASE q # p
      <3>1. sel'[q] = sel[q]
        BY <2>2 DEF SelectsOK
      <3>2. count[q] \in 0 .. MaxSelects /\ count'[q] \in 0 .. MaxSelects
        BY DEF SelectsOK
      <3>3. QED
        BY <3>1, <3>2, Bounds DEF SelectsOK
    <2>3. QED
      BY <2>1, <2>2
  <1>3. QED
    BY <1>1, <1>2 DEF SelectsOK, Sliced, Staged

\* reflect.Select has chosen case k.
LEMMA ChosenType ==
  ASSUME NEW s \in SelRec, Sliced(s), Staged(s), s.pc = "wait",
         NEW k \in DOMAIN s.cases,
         NEW took \in Msg \cup {NoMsg}, NEW gave \in Msg \cup {NoMsg}
  PROVE  LET t == Chosen(s, k, took, gave)
         IN  /\ t \in SelRec /\ Sliced(t) /\ Staged(t) /\ t.pc = "chosen"
             /\ t.at = k /\ t.took = took /\ t.gave = gave /\ t.out = NoOut
             /\ t.form = s.form /\ t.evals = s.evals /\ t.cases = s.cases
  <1> DEFINE t == Chosen(s, k, took, gave)
  <1>1. k \in Nat /\ k \in 1 .. Len(s.cases)
    BY DEF SelRec
  <1>2. t \in SelRec
    BY <1>1 DEF Chosen, SelRec, Pc
  <1>3. t.pc = "chosen" /\ t.at = k /\ t.took = took /\ t.gave = gave
    BY DEF Chosen, SelRec
  <1>4. t.out = s.out /\ t.form = s.form /\ t.evals = s.evals /\ t.cases = s.cases
    BY DEF Chosen, SelRec
  <1> HIDE DEF t
  <1>5. Sliced(t) /\ Staged(t) /\ t.out = NoOut
    BY <1>1, <1>3, <1>4 DEF Sliced, Staged
  <1>6. QED
    BY <1>2, <1>3, <1>4, <1>5 DEF t

LEMMA TypeInit == Init => TypeInv
  <1> SUFFICES ASSUME Init PROVE TypeInv
    OBVIOUS
  <1>1. ChannelsOK
    <2>1. \A c \in Chan : buf[c] = <<>> /\ Capacity[c] \in Nat
      BY Bounds DEF Init
    <2>2. buf \in [Chan -> Seq(Msg)] /\ \A c \in Chan : Len(buf[c]) <= Capacity[c]
      BY <2>1, EmptySeq DEF Init
    <2>3. QED
      BY <2>2 DEF Init, ChannelsOK
  <1>2. SelectsOK
    BY IdleType, SelectAssumption DEF Init, SelectsOK, Idle
  <1>3. QED
    BY <1>1, <1>2 DEF TypeInv

\* A select in progress takes a step.
LEMMA Progressed ==
  ASSUME TypeInv, NEW p \in Proc, sel[p].pc # "idle", NEW s \in SelRec,
         sel' = [sel EXCEPT ![p] = s], count' = count,
         Sliced(s), Staged(s), ChannelsOK'
  PROVE  TypeInv'
  <1>1. \A q \in Proc : count[q] \in 0 .. MaxSelects
    BY DEF TypeInv, SelectsOK
  <1>2. count[p] > 0 /\ count \in [Proc -> 0 .. MaxSelects]
    BY DEF TypeInv, SelectsOK
  <1>3. \A q \in Proc : count'[q] >= count[q]
    BY <1>1, Bounds
  <1>4. QED
    BY <1>2, <1>3, OneSelect DEF TypeInv

LEMMA BeginType ==
  ASSUME TypeInv, NEW p \in Proc, Begin(p)
  PROVE  TypeInv'
  <1>1. PICK form \in Forms :
          sel' = [sel EXCEPT ![p] = [Idle EXCEPT !.pc = "eval", !.form = form]]
    BY DEF Begin
  <1> DEFINE s == [Idle EXCEPT !.pc = "eval", !.form = form]
  <1>2. form \in Seq(CaseSpec)
    BY FormType
  <1>3. s \in SelRec /\ Sliced(s) /\ Staged(s)
    <2>1. s \in SelRec
      BY <1>2, IdleType DEF SelRec, Pc
    <2>2. /\ s.pc = "eval" /\ s.form = form /\ s.evals = <<>> /\ s.cases = <<>>
          /\ s.took = NoMsg /\ s.gave = NoMsg /\ s.out = NoOut
      BY DEF Idle
    <2> HIDE DEF s
    <2>3. QED
      BY <1>2, <2>1, <2>2 DEF Sliced, Staged
  <1>4. /\ count' \in [Proc -> 0 .. MaxSelects]
        /\ count'[p] > 0
        /\ \A q \in Proc : count'[q] >= count[q]
    BY SelectAssumption DEF Begin, TypeInv, SelectsOK
  <1>5. SelectsOK'
    <2> HIDE DEF s
    <2>1. QED
      BY <1>1, <1>3, <1>4, OneSelect DEF TypeInv, s
  <1>6. ChannelsOK'
    BY DEF Begin, TypeInv, ChannelsOK
  <1>7. QED
    BY <1>5, <1>6 DEF TypeInv

LEMMA EvalCaseType ==
  ASSUME TypeInv, NEW p \in Proc, EvalCase(p)
  PROVE  TypeInv'
  <1> DEFINE s == sel[p]
             spec == s.form[Len(s.evals) + 1]
             evals == Append(s.evals, spec)
             cases == s.cases \o CaseOf(spec)
             t == [s EXCEPT !.evals = evals, !.cases = cases]
  <1>1. s \in SelRec /\ Sliced(s) /\ Staged(s) /\ s.pc = "eval" /\ Len(s.evals) < Len(s.form)
    BY DEF TypeInv, SelectsOK, EvalCase, At
  <1>2. spec \in CaseSpec
    BY <1>1 DEF SelRec, Sliced
  <1>3. CaseOf(spec) \in Seq(Case) /\ Len(CaseOf(spec)) <= 1
    BY <1>2, CaseOfType
  <1>4. sel' = [sel EXCEPT ![p] = t]
    BY DEF EvalCase, TypeInv, SelectsOK
  <1>5. t \in SelRec /\ Sliced(t) /\ Staged(t) /\ t.pc = "eval"
    <2> HIDE DEF spec
    <2>0. evals \in Seq(CaseSpec) /\ cases \in Seq(Case)
      BY <1>1, <1>2, <1>3, ConcatProperties DEF SelRec
    <2>1. /\ t.evals = evals /\ t.cases = cases
          /\ t.pc = s.pc /\ t.form = s.form /\ t.took = s.took /\ t.gave = s.gave
          /\ t.out = s.out /\ t.at = s.at /\ t \in SelRec
      <3> HIDE DEF evals, cases
      <3>1. QED
        BY <1>1, <2>0 DEF SelRec
    <2> HIDE DEF s, t
    <2>2. /\ Len(t.evals) = Len(s.evals) + 1
          /\ Len(t.cases) = Len(s.cases) + Len(CaseOf(spec))
      BY <1>1, <1>2, <1>3, <2>1 DEF SelRec
    <2>3. \A i \in 1 .. Len(t.evals) : t.evals[i] = t.form[i]
      BY <1>1, <1>2, <2>1, <2>2 DEF SelRec, Sliced, spec
    <2>4. Sliced(t)
      BY <1>1, <1>3, <2>1, <2>2, <2>3 DEF Sliced
    <2>5. QED
      BY <1>1, <2>1, <2>4 DEF Staged
  <1>6. ChannelsOK'
    BY DEF EvalCase, TypeInv, ChannelsOK
  <1>7. count' = count
    BY DEF EvalCase
  <1> HIDE DEF t
  <1>8. QED
    BY <1>1, <1>4, <1>5, <1>6, <1>7, Progressed

\* The same for reflect.Select's choice of a case.
LEMMA ChoiceType ==
  ASSUME TypeInv, NEW p \in Proc, sel[p].pc = "wait",
         NEW k \in DOMAIN sel[p].cases,
         NEW took \in Msg \cup {NoMsg}, NEW gave \in Msg \cup {NoMsg},
         sel' = [sel EXCEPT ![p] = Chosen(sel[p], k, took, gave)],
         count' = count, ChannelsOK'
  PROVE  TypeInv'
  <1>1. sel[p] \in SelRec /\ Sliced(sel[p]) /\ Staged(sel[p])
    BY DEF TypeInv, SelectsOK
  <1>2. QED
    BY <1>1, ChosenType, Progressed

LEMMA EvalFailsType ==
  ASSUME TypeInv, NEW p \in Proc, EvalFails(p)
  PROVE  TypeInv'
  <1> DEFINE s == sel[p]
             t == [s EXCEPT !.pc = "done", !.out = [kind |-> "fault"]]
  <1>1. s \in SelRec /\ Sliced(s) /\ Staged(s) /\ s.pc = "eval"
    BY DEF TypeInv, SelectsOK, EvalFails, At
  <1>2. sel' = [sel EXCEPT ![p] = t] /\ count' = count
    BY DEF EvalFails, TypeInv, SelectsOK
  <1>3. t \in SelRec
    BY <1>1 DEF SelRec, Pc, Out
  <1>4. Sliced(t) /\ Staged(t)
    BY <1>1 DEF SelRec, Sliced, Staged
  <1>5. ChannelsOK'
    BY DEF EvalFails, TypeInv, ChannelsOK
  <1> HIDE DEF t
  <1>6. QED
    BY <1>1, <1>2, <1>3, <1>4, <1>5, Progressed

LEMMA WaitType ==
  ASSUME TypeInv, NEW p \in Proc, Wait(p)
  PROVE  TypeInv'
  <1> DEFINE s == sel[p]
             t == [s EXCEPT !.pc = "wait"]
  <1>1. s \in SelRec /\ Sliced(s) /\ Staged(s) /\ s.pc = "eval"
    BY DEF TypeInv, SelectsOK, Wait, At
  <1>2. sel' = [sel EXCEPT ![p] = t] /\ count' = count
    BY DEF Wait, TypeInv, SelectsOK
  <1>3. t \in SelRec
    BY <1>1 DEF SelRec, Pc
  <1>4. Sliced(t) /\ Staged(t)
    BY <1>1 DEF SelRec, Sliced, Staged
  <1>5. ChannelsOK'
    BY DEF Wait, TypeInv, ChannelsOK
  <1> HIDE DEF t
  <1>6. QED
    BY <1>1, <1>2, <1>3, <1>4, <1>5, Progressed

\* A case of a given kind has a channel.
LEMMA HasChannel ==
  ASSUME TypeInv, NEW p \in Proc, NEW k \in DOMAIN sel[p].cases,
         HasCase(p, k, "recv") \/ HasCase(p, k, "send")
  PROVE  sel[p].cases[k] \in CaseSpec /\ sel[p].cases[k].of \in Chan
  <1>1. sel[p].cases[k] \in Case
    BY DEF TypeInv, SelectsOK, SelRec
  <1>2. QED
    BY <1>1, CaseFields DEF HasCase

LEMMA RecvBufferedType ==
  ASSUME TypeInv, NEW p \in Proc, RecvBuffered(p)
  PROVE  TypeInv'
  <1>1. PICK k \in DOMAIN sel[p].cases :
          LET c == sel[p].cases[k].of
          IN  /\ At(p, "wait") /\ HasCase(p, k, "recv") /\ buf[c] # <<>>
              /\ sel' = [sel EXCEPT ![p] = Chosen(@, k, Head(buf[c]), NoMsg)]
              /\ buf' = [buf EXCEPT ![c] = Tail(@)]
              /\ UNCHANGED <<closed, done, count, crashed>>
    BY DEF RecvBuffered
  <1> DEFINE c == sel[p].cases[k].of
  <1>2. c \in Chan
    BY <1>1, HasChannel
  <1> HIDE DEF c
  <1>3. buf[c] \in Seq(Msg) /\ buf[c] # <<>> /\ Len(buf[c]) <= Capacity[c] /\ Capacity[c] \in Nat
    BY <1>1, <1>2, Bounds DEF TypeInv, ChannelsOK, c
  <1>4. Head(buf[c]) \in Msg /\ Tail(buf[c]) \in Seq(Msg) /\ Len(Tail(buf[c])) <= Capacity[c]
    BY <1>3
  <1>5. buf' = [buf EXCEPT ![c] = Tail(buf[c])]
    BY <1>1 DEF c
  <1>6. ChannelsOK'
    BY <1>1, <1>2, <1>4, <1>5 DEF TypeInv, ChannelsOK
  <1>7. sel' = [sel EXCEPT ![p] = Chosen(sel[p], k, Head(buf[c]), NoMsg)]
    BY <1>1 DEF c
  <1>8. QED
    BY <1>1, <1>4, <1>6, <1>7, ChoiceType DEF At

LEMMA SendBufferedType ==
  ASSUME TypeInv, NEW p \in Proc, SendBuffered(p)
  PROVE  TypeInv'
  <1>1. PICK k \in DOMAIN sel[p].cases :
          LET c == sel[p].cases[k].of
          IN  /\ At(p, "wait") /\ HasCase(p, k, "send")
              /\ ~closed[c] /\ Len(buf[c]) < Capacity[c]
              /\ sel' = [sel EXCEPT ![p] = Chosen(@, k, NoMsg, Payload(p))]
              /\ buf' = [buf EXCEPT ![c] = Append(@, Payload(p))]
              /\ UNCHANGED <<closed, done, count, crashed>>
    BY DEF SendBuffered
  <1> DEFINE c == sel[p].cases[k].of
  <1>2. c \in Chan
    BY <1>1, HasChannel
  <1> HIDE DEF c
  <1>3. buf[c] \in Seq(Msg) /\ Len(buf[c]) < Capacity[c] /\ Capacity[c] \in Nat
    BY <1>1, <1>2, Bounds DEF TypeInv, ChannelsOK, c
  <1>4. Payload(p) \in Msg
    BY <1>1, PayloadType DEF TypeInv, At
  <1>5. Append(buf[c], Payload(p)) \in Seq(Msg) /\ Len(Append(buf[c], Payload(p))) <= Capacity[c]
    BY <1>3, <1>4
  <1>6. buf' = [buf EXCEPT ![c] = Append(buf[c], Payload(p))]
    BY <1>1 DEF c
  <1>7. ChannelsOK'
    BY <1>1, <1>2, <1>5, <1>6 DEF TypeInv, ChannelsOK
  <1>8. QED
    BY <1>1, <1>4, <1>7, ChoiceType DEF At

LEMMA RendezvousType ==
  ASSUME TypeInv, NEW p \in Proc, NEW q \in Proc, Rendezvous(p, q)
  PROVE  TypeInv'
  <1>1. PICK k \in DOMAIN sel[p].cases, j \in DOMAIN sel[q].cases :
          /\ p # q /\ At(p, "wait") /\ At(q, "wait")
          /\ sel' = [sel EXCEPT ![p] = Chosen(@, k, NoMsg, Payload(p)),
                                ![q] = Chosen(@, j, Payload(p), NoMsg)]
          /\ UNCHANGED <<buf, closed, done, count, crashed>>
    BY DEF Rendezvous
  <1> DEFINE s == Chosen(sel[p], k, NoMsg, Payload(p))
             t == Chosen(sel[q], j, Payload(p), NoMsg)
  <1>2. Payload(p) \in Msg
    BY <1>1, PayloadType DEF TypeInv, At
  <1>3. /\ sel[p] \in SelRec /\ Sliced(sel[p]) /\ Staged(sel[p]) /\ sel[p].pc = "wait"
        /\ sel[q] \in SelRec /\ Sliced(sel[q]) /\ Staged(sel[q]) /\ sel[q].pc = "wait"
    BY <1>1 DEF TypeInv, SelectsOK, At
  <1>4. s \in SelRec /\ Sliced(s) /\ Staged(s)
    BY <1>2, <1>3, ChosenType
  <1>5. t \in SelRec /\ Sliced(t) /\ Staged(t)
    BY <1>2, <1>3, ChosenType
  <1>6. sel' = [sel EXCEPT ![p] = s, ![q] = t]
    BY <1>1
  <1> HIDE DEF s, t
  <1>7. sel' \in [Proc -> SelRec]
    BY <1>4, <1>5, <1>6 DEF TypeInv, SelectsOK
  <1>8. ASSUME NEW r \in Proc
        PROVE  Sliced(sel'[r]) /\ Staged(sel'[r]) /\ (sel'[r].pc # "idle" => count[r] > 0)
    <2>1. CASE r = q
      BY <1>3, <1>5, <1>6, <2>1 DEF TypeInv, SelectsOK
    <2>2. CASE r = p /\ r # q
      BY <1>3, <1>4, <1>6, <2>2 DEF TypeInv, SelectsOK
    <2>3. CASE r # p /\ r # q
      BY <1>6, <2>3 DEF TypeInv, SelectsOK
    <2>4. QED
      BY <2>1, <2>2, <2>3
  <1>9. SelectsOK'
    BY <1>1, <1>7, <1>8 DEF TypeInv, SelectsOK, Sliced, Staged
  <1>10. ChannelsOK'
    BY <1>1 DEF TypeInv, ChannelsOK
  <1>11. QED
    BY <1>9, <1>10 DEF TypeInv

\* The choices that leave the channels alone.
LEMMA SignalType ==
  ASSUME TypeInv, NEW p \in Proc,
         RecvClosed(p) \/ SignalFires(p) \/ DefaultChosen(p)
  PROVE  TypeInv'
  <1>1. PICK k \in DOMAIN sel[p].cases :
          /\ At(p, "wait")
          /\ sel' = [sel EXCEPT ![p] = Chosen(@, k, NoMsg, NoMsg)]
    BY DEF RecvClosed, SignalFires, DefaultChosen
  <1>2. UNCHANGED <<buf, closed, done, count, crashed>>
    BY DEF RecvClosed, SignalFires, DefaultChosen
  <1>3. ChannelsOK'
    BY <1>2 DEF TypeInv, ChannelsOK
  <1>4. QED
    BY <1>1, <1>2, <1>3, ChoiceType DEF At

LEMMA OutcomeType ==
  ASSUME TypeInv, NEW p \in Proc, sel[p].pc = "chosen"
  PROVE  Outcome(p) \in Out
  <1> DEFINE s == sel[p]
             spec == s.evals[s.at]
  <1>1. s \in SelRec /\ s.at \in 1 .. Len(s.evals)
    BY DEF TypeInv, SelectsOK, SelRec, Sliced, Staged
  <1>2. spec \in CaseSpec /\ s.took \in Msg \cup {NoMsg} /\ Payload(p) \in Msg
    BY <1>1, PayloadType DEF SelRec, TypeInv
  <1> HIDE DEF spec
  <1>3. CASE spec.kind = "recv"
    <2>1. Outcome(p) = [kind |-> "received", msg |-> s.took]
      BY <1>3 DEF Outcome, spec
    <2>2. QED
      BY <1>2, <2>1 DEF Out
  <1>4. CASE spec.kind = "send"
    <2>1. Outcome(p) = IF closed[spec.of] THEN [kind |-> "closedError"]
                       ELSE [kind |-> "sent", msg |-> Payload(p)]
      BY <1>4 DEF Outcome, spec
    <2>2. QED
      BY <1>2, <2>1 DEF Out
  <1>5. CASE spec.kind = "await"
    <2>1. Outcome(p) = [kind |-> "awaited", task |-> spec.of]
      BY <1>5 DEF Outcome, spec
    <2>2. spec.of \in Task
      BY <1>2, <1>5, CaseFields DEF Case
    <2>3. QED
      BY <2>1, <2>2 DEF Out
  <1>6. CASE spec.kind \notin {"recv", "send", "await"}
    <2>1. Outcome(p) = IF spec.kind = "after" THEN [kind |-> "elapsed"] ELSE [kind |-> "default"]
      BY <1>6 DEF Outcome, spec
    <2>2. QED
      BY <2>1 DEF Out
  <1>7. QED
    BY <1>3, <1>4, <1>5, <1>6

LEMMA FinishType ==
  ASSUME TypeInv, NEW p \in Proc, Finish(p)
  PROVE  TypeInv'
  <1> DEFINE s == sel[p]
             t == [s EXCEPT !.pc = "done", !.out = Outcome(p)]
  <1>1. s \in SelRec /\ Sliced(s) /\ Staged(s) /\ s.pc = "chosen"
    BY DEF TypeInv, SelectsOK, Finish, At
  <1>2. sel' = [sel EXCEPT ![p] = t] /\ count' = count
    BY DEF Finish, TypeInv, SelectsOK
  <1>3. t \in SelRec
    BY <1>1, OutcomeType DEF SelRec, Pc
  <1>4. Sliced(t) /\ Staged(t)
    BY <1>1 DEF SelRec, Sliced, Staged
  <1>5. ChannelsOK'
    BY DEF Finish, TypeInv, ChannelsOK
  <1> HIDE DEF t
  <1>6. QED
    BY <1>1, <1>2, <1>3, <1>4, <1>5, Progressed

LEMMA GoOnType ==
  ASSUME TypeInv, NEW p \in Proc, GoOn(p)
  PROVE  TypeInv'
  <1>1. sel' = [sel EXCEPT ![p] = Idle] /\ count' = count /\ sel[p].pc # "idle"
    BY DEF GoOn, At
  <1>2. ChannelsOK'
    BY DEF GoOn, TypeInv, ChannelsOK
  <1>3. QED
    BY <1>1, <1>2, IdleType, Progressed

\* What happens around the selects leaves them alone.
LEMMA SurroundingsType ==
  ASSUME TypeInv,
         \/ \E p \in Proc : SendPanics(p)
         \/ \E c \in Chan : Close(c)
         \/ \E t \in Task : TaskDone(t)
         \/ UNCHANGED vars
  PROVE  TypeInv'
  <1>1. UNCHANGED <<buf, sel, count>>
    BY DEF SendPanics, Close, TaskDone, vars
  <1>2. closed' \in [Chan -> BOOLEAN] /\ done' \in [Task -> BOOLEAN] /\ crashed' \in BOOLEAN
    BY DEF SendPanics, Close, TaskDone, vars, TypeInv, ChannelsOK
  <1>3. QED
    BY <1>1, <1>2 DEF TypeInv, ChannelsOK, SelectsOK, Sliced, Staged

LEMMA TypeNext == TypeInv /\ [Next]_vars => TypeInv'
  <1> SUFFICES ASSUME TypeInv, [Next]_vars PROVE TypeInv'
    OBVIOUS
  <1>1. ASSUME NEW p \in Proc, SelectStep(p) PROVE TypeInv'
    BY <1>1, EvalCaseType, EvalFailsType, WaitType, RecvBufferedType, SendBufferedType,
       RendezvousType, SignalType, FinishType, GoOnType, SurroundingsType DEF SelectStep
  <1>2. QED
    BY <1>1, BeginType, SurroundingsType DEF Next

\* The inductive invariant of the types of evalSelect's locals and of the
\* channels: evals is always the evaluated part of the select expression and
\* is never shorter than the cases that reflect.Select was given.
THEOREM TypeInductive == Spec => []TypeInv
  BY TypeInit, TypeNext, PTL DEF Spec

\* For every select expression, `after 0` wherever it stands, the index that
\* reflect.Select chooses is one of evals, so evalSelect's evals[chosen] never
\* panics, and a channel never holds more than its capacity.
THEOREM TypeCorrect == Spec => []TypeOK
  <1>1. TypeInv => TypeOK
    <2> SUFFICES ASSUME TypeInv PROVE TypeOK
      OBVIOUS
    <2>1. ASSUME NEW p \in Proc
          PROVE  /\ sel[p].pc \in Pc /\ sel[p].took \in Msg \cup {NoMsg}
                 /\ sel[p].gave \in Msg \cup {NoMsg}
                 /\ sel[p].pc = "chosen" => sel[p].at \in DOMAIN sel[p].evals
      BY DEF TypeInv, SelectsOK, SelRec, Sliced, Staged
    <2>2. QED
      BY <2>1 DEF TypeInv, TypeOK, ChannelsOK, SelectsOK, Pc
  <1>2. QED
    BY <1>1, TypeInductive, PTL

----------------------------------------------------------------------------
(* The value of a select *)

\* A step that changes the select of one goroutine, and no task and no
\* channel's closing.
LEMMA OneAligned ==
  ASSUME AlignInv, SelectsOK, NEW p \in Proc, NEW s,
         sel' = [sel EXCEPT ![p] = s], UNCHANGED <<closed, done>>,
         \A q \in Proc \ {p} : count'[q] = count[q],
         s.pc = "chosen" => count'[p] = count[p],
         Aligned(s), ChoiceOK(p, s), Told(s)
  PROVE  AlignInv'
  <1>1. ASSUME NEW q \in Proc
        PROVE  Aligned(sel[q])' /\ ChoiceOK(q, sel[q])' /\ Told(sel[q])'
    <2>1. CASE q = p
      <3>1. sel'[q] = s
        BY <2>1 DEF SelectsOK
      <3>2. QED
        BY <2>1, <3>1 DEF Aligned, Matches, ChoiceOK, Told, Payload
    <2>2. CASE q # p
      <3>1. sel'[q] = sel[q] /\ count'[q] = count[q]
        BY <2>2 DEF SelectsOK
      <3>2. Aligned(sel[q]) /\ ChoiceOK(q, sel[q]) /\ Told(sel[q])
        BY DEF AlignInv
      <3>3. QED
        BY <3>1, <3>2 DEF Aligned, Matches, ChoiceOK, Told, Payload
    <2>3. QED
      BY <2>1, <2>2
  <1>2. QED
    BY <1>1 DEF AlignInv

LEMMA IdleAligned == \A p \in Proc : Aligned(Idle) /\ ChoiceOK(p, Idle) /\ Told(Idle)
  <1>1. /\ Idle.form = <<>> /\ Idle.evals = <<>> /\ Idle.cases = <<>>
        /\ Idle.pc = "idle" /\ Idle.out.kind = "none"
    BY DEF Idle, NoOut
  <1>2. QED
    BY <1>1 DEF Aligned, AlignedForm, ChoiceOK, Told

LEMMA AlignInit == Init => AlignInv
  BY IdleAligned DEF Init, AlignInv

\* A choice that fits the case that reflect.Select was given fits the case
\* that was evaluated.
LEMMA ChosenAligned ==
  ASSUME TypeInv, AlignInv, NEW p \in Proc, sel[p].pc = "wait",
         NEW k \in DOMAIN sel[p].cases,
         NEW took \in Msg \cup {NoMsg}, NEW gave \in Msg \cup {NoMsg},
         took # NoMsg => sel[p].cases[k].kind = "recv",
         gave # NoMsg => sel[p].cases[k].kind = "send",
         sel[p].cases[k].kind = "send" => gave = Payload(p),
         sel[p].cases[k].kind = "await" => done[sel[p].cases[k].of]
  PROVE  LET t == Chosen(sel[p], k, took, gave)
         IN  Aligned(t) /\ ChoiceOK(p, t) /\ Told(t)
  <1> DEFINE s == sel[p]
             t == Chosen(s, k, took, gave)
  <1>1. s \in SelRec /\ Sliced(s) /\ Staged(s) /\ s.pc = "wait"
    BY DEF TypeInv, SelectsOK
  <1>2. /\ t.pc = "chosen" /\ t.at = k /\ t.took = took /\ t.gave = gave /\ t.out = NoOut
        /\ t.form = s.form /\ t.evals = s.evals /\ t.cases = s.cases
    BY <1>1, ChosenType
  <1>3. Aligned(s) /\ k \in 1 .. Len(s.cases)
    BY <1>1 DEF AlignInv, SelRec
  <1>4. Matches(s.cases[k], s.evals[k])
    BY <1>3 DEF Aligned
  <1>5. k \in 1 .. Len(s.evals) /\ s.evals[k] \in CaseSpec /\ s.cases[k] \in Case
    BY <1>1, <1>3 DEF SelRec, Sliced
  <1> HIDE DEF t
  <1>6. Aligned(t)
    BY <1>2, <1>3 DEF Aligned, Matches
  <1>7. ChoiceOK(p, t)
    BY <1>2, <1>4 DEF Matches, ChoiceOK
  <1>8. Told(t)
    BY <1>2 DEF Told, NoOut
  <1>9. QED
    BY <1>6, <1>7, <1>8 DEF t

LEMMA ChoiceStep ==
  ASSUME TypeInv, AlignInv, NEW p \in Proc, sel[p].pc = "wait",
         NEW k \in DOMAIN sel[p].cases,
         NEW took \in Msg \cup {NoMsg}, NEW gave \in Msg \cup {NoMsg},
         took # NoMsg => sel[p].cases[k].kind = "recv",
         gave # NoMsg => sel[p].cases[k].kind = "send",
         sel[p].cases[k].kind = "send" => gave = Payload(p),
         sel[p].cases[k].kind = "await" => done[sel[p].cases[k].of],
         sel' = [sel EXCEPT ![p] = Chosen(sel[p], k, took, gave)],
         UNCHANGED <<closed, done, count>>
  PROVE  AlignInv'
  <1> DEFINE t == Chosen(sel[p], k, took, gave)
  <1>1. Aligned(t) /\ ChoiceOK(p, t) /\ Told(t)
    BY ChosenAligned
  <1>2. sel' = [sel EXCEPT ![p] = t]
    OBVIOUS
  <1> HIDE DEF t
  <1>3. QED
    BY <1>1, <1>2, OneAligned DEF TypeInv

LEMMA BeginAligned ==
  ASSUME AlignedForms, TypeInv, AlignInv, NEW p \in Proc, Begin(p)
  PROVE  AlignInv'
  <1>1. PICK form \in Forms :
          sel' = [sel EXCEPT ![p] = [Idle EXCEPT !.pc = "eval", !.form = form]]
    BY DEF Begin
  <1> DEFINE s == [Idle EXCEPT !.pc = "eval", !.form = form]
  <1>2. /\ s.pc = "eval" /\ s.form = form /\ s.evals = <<>> /\ s.cases = <<>>
        /\ s.out.kind = "none"
    BY DEF Idle, NoOut
  <1>3. \A q \in Proc \ {p} : count'[q] = count[q]
    BY DEF Begin, TypeInv, SelectsOK
  <1> HIDE DEF s
  <1>4. Aligned(s)
    BY <1>2 DEF AlignedForms, Aligned
  <1>5. ChoiceOK(p, s) /\ Told(s)
    BY <1>2 DEF ChoiceOK, Told
  <1>6. UNCHANGED <<closed, done>>
    BY DEF Begin
  <1>7. QED
    BY <1>1, <1>2, <1>3, <1>4, <1>5, <1>6, OneAligned DEF TypeInv, s

LEMMA EvalCaseAligned ==
  ASSUME TypeInv, AlignInv, NEW p \in Proc, EvalCase(p)
  PROVE  AlignInv'
  <1> DEFINE s == sel[p]
             spec == s.form[Len(s.evals) + 1]
             more == CaseOf(spec)
             evals == Append(s.evals, spec)
             cases == s.cases \o more
             t == [s EXCEPT !.evals = evals, !.cases = cases]
  <1>1. s \in SelRec /\ Sliced(s) /\ Staged(s) /\ s.pc = "eval" /\ Len(s.evals) < Len(s.form)
    BY DEF TypeInv, SelectsOK, EvalCase, At
  <1>2. spec \in CaseSpec
    BY <1>1 DEF SelRec, Sliced
  <1>3. /\ more \in Seq(Case)
        /\ \/ more = <<>> /\ spec.kind = "after" /\ spec.ms = 0
           \/ \E cs \in Case : more = <<cs>> /\ Matches(cs, spec)
    <2> HIDE DEF spec
    <2>1. QED
      BY <1>2, CaseOfType
  <1>4. sel' = [sel EXCEPT ![p] = t]
    BY DEF EvalCase, TypeInv, SelectsOK
  <1>5. /\ t.evals = evals /\ t.cases = cases /\ t.form = s.form
        /\ t.pc = s.pc /\ t.took = s.took /\ t.gave = s.gave /\ t.out = s.out
    <2> HIDE DEF evals, cases
    <2>1. QED
      BY <1>1 DEF SelRec
  <1>6. AlignedForm(s.form) /\ Len(s.cases) = Len(s.evals)
        /\ \A i \in 1 .. Len(s.cases) : Matches(s.cases[i], s.evals[i])
    BY <1>1 DEF AlignInv, Aligned
  <1>7. s.evals \in Seq(CaseSpec) /\ s.cases \in Seq(Case) /\ s.form \in Seq(CaseSpec)
    BY <1>1 DEF SelRec
  <1>8. Aligned(t)
    <2> HIDE DEF s, more
    <2>1. evals \in Seq(CaseSpec) /\ Len(evals) = Len(s.evals) + 1
          /\ \A i \in 1 .. Len(s.evals) : evals[i] = s.evals[i]
      BY <1>2, <1>7
    <2>2. ASSUME more = <<>>, spec.kind = "after", spec.ms = 0
          PROVE  /\ Len(evals) < Len(s.form) => Len(cases) = Len(evals)
                 /\ \A i \in 1 .. Len(cases) : Matches(cases[i], evals[i])
      <3>1. cases = s.cases
        BY <1>7, <2>2, ConcatEmptySeq
      <3>2. Len(s.evals) + 1 = Len(s.form)
        BY <1>1, <1>6, <1>7, <2>2 DEF AlignedForm
      <3>3. QED
        BY <1>6, <1>7, <2>1, <3>1, <3>2
    <2>3. ASSUME NEW cs \in Case, more = <<cs>>, Matches(cs, spec)
          PROVE  /\ Len(cases) = Len(evals)
                 /\ \A i \in 1 .. Len(cases) : Matches(cases[i], evals[i])
      <3>1. /\ Len(cases) = Len(s.cases) + 1
            /\ cases[Len(s.cases) + 1] = cs
            /\ \A i \in 1 .. Len(s.cases) : cases[i] = s.cases[i]
        BY <1>7, <2>3
      <3>2. evals[Len(s.cases) + 1] = spec
        BY <1>2, <1>6, <1>7
      <3> HIDE DEF cases, evals, spec
      <3>3. ASSUME NEW i \in 1 .. Len(cases)
            PROVE  Matches(cases[i], evals[i])
        <4>1. CASE i \in 1 .. Len(s.cases)
          BY <1>6, <2>1, <3>1, <4>1
        <4>2. CASE i = Len(s.cases) + 1
          BY <2>3, <3>1, <3>2, <4>2
        <4>3. QED
          BY <1>7, <3>1, <4>1, <4>2
      <3>4. QED
        BY <1>6, <2>1, <3>1, <3>3
    <2>4. /\ Len(evals) < Len(s.form) => Len(cases) = Len(evals)
          /\ \A i \in 1 .. Len(cases) : Matches(cases[i], evals[i])
      BY <1>3, <2>2, <2>3
    <2> HIDE DEF evals, cases, t
    <2>5. QED
      BY <1>5, <1>6, <2>4 DEF Aligned
  <1>9. ChoiceOK(p, t) /\ Told(t)
    <2> HIDE DEF t
    <2>1. t.pc = "eval" /\ t.out.kind = "none"
      BY <1>1, <1>5 DEF Staged, NoOut
    <2>2. QED
      BY <2>1 DEF ChoiceOK, Told
  <1>10. UNCHANGED <<closed, done, count>>
    BY DEF EvalCase
  <1>11. QED
    <2> HIDE DEF t
    <2>1. QED
      BY <1>4, <1>8, <1>9, <1>10, OneAligned DEF TypeInv

LEMMA EvalFailsAligned ==
  ASSUME TypeInv, AlignInv, NEW p \in Proc, EvalFails(p)
  PROVE  AlignInv'
  <1> DEFINE s == sel[p]
             t == [s EXCEPT !.pc = "done", !.out = [kind |-> "fault"]]
  <1>1. s \in SelRec /\ Staged(s) /\ s.pc = "eval" /\ Aligned(s)
    BY DEF TypeInv, SelectsOK, EvalFails, At, AlignInv
  <1>2. sel' = [sel EXCEPT ![p] = t] /\ UNCHANGED <<closed, done, count>>
    BY DEF EvalFails, TypeInv, SelectsOK
  <1>3. /\ t.pc = "done" /\ t.out.kind = "fault" /\ t.took = NoMsg /\ t.gave = NoMsg
        /\ t.form = s.form /\ t.evals = s.evals /\ t.cases = s.cases
    BY <1>1 DEF SelRec, Staged
  <1> HIDE DEF t
  <1>4. Aligned(t) /\ ChoiceOK(p, t) /\ Told(t)
    BY <1>1, <1>3 DEF Aligned, ChoiceOK, Told
  <1>5. QED
    BY <1>2, <1>4, OneAligned DEF TypeInv

LEMMA WaitAligned ==
  ASSUME TypeInv, AlignInv, NEW p \in Proc, Wait(p)
  PROVE  AlignInv'
  <1> DEFINE s == sel[p]
             t == [s EXCEPT !.pc = "wait"]
  <1>1. s \in SelRec /\ Staged(s) /\ s.pc = "eval" /\ Aligned(s)
    BY DEF TypeInv, SelectsOK, Wait, At, AlignInv
  <1>2. sel' = [sel EXCEPT ![p] = t] /\ UNCHANGED <<closed, done, count>>
    BY DEF Wait, TypeInv, SelectsOK
  <1>3. /\ t.pc = "wait" /\ t.out = NoOut
        /\ t.form = s.form /\ t.evals = s.evals /\ t.cases = s.cases
    BY <1>1 DEF SelRec, Staged
  <1> HIDE DEF t
  <1>4. Aligned(t) /\ ChoiceOK(p, t) /\ Told(t)
    BY <1>1, <1>3 DEF Aligned, ChoiceOK, Told, NoOut
  <1>5. QED
    BY <1>2, <1>4, OneAligned DEF TypeInv

LEMMA RecvBufferedAligned ==
  ASSUME TypeInv, AlignInv, NEW p \in Proc, RecvBuffered(p)
  PROVE  AlignInv'
  <1>1. PICK k \in DOMAIN sel[p].cases :
          LET c == sel[p].cases[k].of
          IN  /\ At(p, "wait") /\ HasCase(p, k, "recv") /\ buf[c] # <<>>
              /\ sel' = [sel EXCEPT ![p] = Chosen(sel[p], k, Head(buf[c]), NoMsg)]
              /\ UNCHANGED <<closed, done, count>>
    BY DEF RecvBuffered
  <1> DEFINE c == sel[p].cases[k].of
  <1>2. c \in Chan
    BY <1>1, HasChannel
  <1> HIDE DEF c
  <1>3. buf[c] \in Seq(Msg) /\ buf[c] # <<>>
    BY <1>1, <1>2 DEF TypeInv, ChannelsOK, c
  <1>4. Head(buf[c]) \in Msg
    BY <1>3
  <1>5. sel' = [sel EXCEPT ![p] = Chosen(sel[p], k, Head(buf[c]), NoMsg)]
    BY <1>1 DEF c
  <1>6. sel[p].cases[k].kind = "recv" /\ sel[p].pc = "wait"
    BY <1>1 DEF HasCase, At
  <1> DEFINE m == Head(buf[c])
  <1>7. /\ m \in Msg \cup {NoMsg} /\ sel' = [sel EXCEPT ![p] = Chosen(sel[p], k, m, NoMsg)]
        /\ UNCHANGED <<closed, done, count>>
    BY <1>1, <1>4, <1>5
  <1> HIDE DEF m
  <1>8. QED
    BY <1>6, <1>7, ChoiceStep

LEMMA SendBufferedAligned ==
  ASSUME TypeInv, AlignInv, NEW p \in Proc, SendBuffered(p)
  PROVE  AlignInv'
  <1>1. PICK k \in DOMAIN sel[p].cases :
          /\ At(p, "wait") /\ HasCase(p, k, "send")
          /\ sel' = [sel EXCEPT ![p] = Chosen(sel[p], k, NoMsg, Payload(p))]
          /\ UNCHANGED <<closed, done, count>>
    BY DEF SendBuffered
  <1>2. sel[p].cases[k].kind = "send" /\ sel[p].pc = "wait"
    BY <1>1 DEF HasCase, At
  <1>3. Payload(p) \in Msg
    BY <1>2, PayloadType DEF TypeInv
  <1>4. QED
    BY <1>1, <1>2, <1>3, ChoiceStep

\* The sender's half and the receiver's half are one step.
LEMMA RendezvousAligned ==
  ASSUME TypeInv, AlignInv, NEW p \in Proc, NEW q \in Proc, Rendezvous(p, q)
  PROVE  AlignInv'
  <1>1. PICK k \in DOMAIN sel[p].cases, j \in DOMAIN sel[q].cases :
          /\ p # q /\ At(p, "wait") /\ At(q, "wait")
          /\ HasCase(p, k, "send") /\ HasCase(q, j, "recv")
          /\ sel' = [sel EXCEPT ![p] = Chosen(@, k, NoMsg, Payload(p)),
                                ![q] = Chosen(@, j, Payload(p), NoMsg)]
          /\ UNCHANGED <<buf, closed, done, count, crashed>>
    BY DEF Rendezvous
  <1> DEFINE s == Chosen(sel[p], k, NoMsg, Payload(p))
             t == Chosen(sel[q], j, Payload(p), NoMsg)
  <1>2. /\ sel[p].cases[k].kind = "send" /\ sel[p].pc = "wait"
        /\ sel[q].cases[j].kind = "recv" /\ sel[q].pc = "wait"
    BY <1>1 DEF HasCase, At
  <1>3. Payload(p) \in Msg
    BY <1>2, PayloadType DEF TypeInv
  <1>4. Aligned(s) /\ ChoiceOK(p, s) /\ Told(s)
    BY <1>2, <1>3, ChosenAligned
  <1>5. Aligned(t) /\ ChoiceOK(q, t) /\ Told(t)
    BY <1>2, <1>3, ChosenAligned
  <1>6. sel' = [sel EXCEPT ![p] = s, ![q] = t]
    BY <1>1
  <1> HIDE DEF s, t
  <1>7. ASSUME NEW r \in Proc
        PROVE  Aligned(sel[r])' /\ ChoiceOK(r, sel[r])' /\ Told(sel[r])'
    <2>1. /\ sel'[r] = IF r = q THEN t ELSE IF r = p THEN s ELSE sel[r]
          /\ UNCHANGED <<closed, done, count>>
      BY <1>1, <1>6 DEF TypeInv, SelectsOK
    <2>2. Aligned(sel'[r]) /\ ChoiceOK(r, sel'[r]) /\ Told(sel'[r])
      BY <1>4, <1>5, <2>1 DEF AlignInv
    <2>3. QED
      BY <2>1, <2>2 DEF Aligned, Matches, ChoiceOK, Told, Payload
  <1>8. QED
    BY <1>7 DEF AlignInv

LEMMA SignalAligned ==
  ASSUME TypeInv, AlignInv, NEW p \in Proc,
         RecvClosed(p) \/ SignalFires(p) \/ DefaultChosen(p)
  PROVE  AlignInv'
  <1>1. PICK k \in DOMAIN sel[p].cases :
          /\ At(p, "wait")
          /\ sel[p].cases[k].kind \in {"recv", "ready", "after", "await", "default"}
          /\ sel[p].cases[k].kind = "await" => Ready(p, k)
          /\ sel' = [sel EXCEPT ![p] = Chosen(sel[p], k, NoMsg, NoMsg)]
    BY DEF RecvClosed, SignalFires, DefaultChosen, HasCase
  <1>2. UNCHANGED <<closed, done, count>>
    BY DEF RecvClosed, SignalFires, DefaultChosen
  <1>3. sel[p].cases[k].kind = "await" => done[sel[p].cases[k].of]
    BY <1>1 DEF Ready
  <1>4. QED
    BY <1>1, <1>2, <1>3, ChoiceStep DEF At

\* The value agrees with the choice: Outcome asks about the case evals[chosen].
LEMMA FinishAligned ==
  ASSUME TypeInv, AlignInv, NEW p \in Proc, Finish(p)
  PROVE  AlignInv'
  <1> DEFINE s == sel[p]
             spec == s.evals[s.at]
             t == [s EXCEPT !.pc = "done", !.out = Outcome(p)]
  <1>1. s \in SelRec /\ s.pc = "chosen" /\ Aligned(s) /\ ChoiceOK(p, s)
    BY DEF TypeInv, SelectsOK, Finish, At, AlignInv
  <1>2. sel' = [sel EXCEPT ![p] = t] /\ UNCHANGED <<closed, done, count>>
    BY DEF Finish, TypeInv, SelectsOK
  <1>3. /\ t.pc = "done" /\ t.out = Outcome(p) /\ t.took = s.took /\ t.gave = s.gave
        /\ t.form = s.form /\ t.evals = s.evals /\ t.cases = s.cases
    BY <1>1 DEF SelRec
  <1>4. /\ s.took # NoMsg => spec.kind = "recv"
        /\ s.gave # NoMsg => spec.kind = "send"
        /\ spec.kind = "send" /\ ~closed[spec.of] => s.gave = Payload(p)
        /\ spec.kind = "await" => done[spec.of]
    BY <1>1 DEF ChoiceOK
  <1> HIDE DEF t
  <1>5. Told(t)
    <2>1. CASE spec.kind = "recv"
      <3>1. Outcome(p) = [kind |-> "received", msg |-> s.took]
        BY <2>1 DEF Outcome
      <3>2. QED
        BY <1>3, <1>4, <2>1, <3>1 DEF Told
    <2>2. CASE spec.kind = "send"
      <3>1. Outcome(p) = IF closed[spec.of] THEN [kind |-> "closedError"]
                         ELSE [kind |-> "sent", msg |-> Payload(p)]
        BY <2>2 DEF Outcome
      <3>2. QED
        BY <1>3, <1>4, <2>2, <3>1 DEF Told
    <2>3. CASE spec.kind = "await"
      <3>1. Outcome(p) = [kind |-> "awaited", task |-> spec.of]
        BY <2>3 DEF Outcome
      <3>2. QED
        BY <1>3, <1>4, <2>3, <3>1 DEF Told
    <2>4. CASE spec.kind \notin {"recv", "send", "await"}
      <3>1. Outcome(p) = IF spec.kind = "after" THEN [kind |-> "elapsed"] ELSE [kind |-> "default"]
        BY <2>4 DEF Outcome
      <3>2. QED
        BY <1>3, <1>4, <2>4, <3>1 DEF Told
    <2>5. QED
      BY <2>1, <2>2, <2>3, <2>4
  <1>6. Aligned(t) /\ ChoiceOK(p, t)
    BY <1>1, <1>3 DEF Aligned, ChoiceOK
  <1>7. QED
    BY <1>2, <1>5, <1>6, OneAligned DEF TypeInv

LEMMA GoOnAligned ==
  ASSUME TypeInv, AlignInv, NEW p \in Proc, GoOn(p)
  PROVE  AlignInv'
  BY IdleAligned, OneAligned DEF GoOn, TypeInv

\* A channel that is closed stays closed, a task that is done stays done.
LEMMA SurroundingsAligned ==
  ASSUME TypeInv, AlignInv,
         \/ \E p \in Proc : SendPanics(p)
         \/ \E c \in Chan : Close(c)
         \/ \E t \in Task : TaskDone(t)
         \/ UNCHANGED vars
  PROVE  AlignInv'
  <1>1. UNCHANGED <<sel, count>>
    BY DEF SendPanics, Close, TaskDone, vars
  <1>2. \A c \in Chan : closed[c] => closed'[c]
    BY DEF SendPanics, Close, TaskDone, vars, TypeInv, ChannelsOK
  <1>3. \A t \in Task : done[t] => done'[t]
    BY DEF SendPanics, Close, TaskDone, vars, TypeInv, ChannelsOK
  <1>4. ASSUME NEW p \in Proc
        PROVE  Aligned(sel[p])' /\ ChoiceOK(p, sel[p])' /\ Told(sel[p])'
    <2>1. /\ sel[p] \in SelRec /\ Sliced(sel[p]) /\ Staged(sel[p])
          /\ Aligned(sel[p]) /\ ChoiceOK(p, sel[p]) /\ Told(sel[p])
      BY DEF TypeInv, SelectsOK, AlignInv
    <2>2. ASSUME NEW i \in 1 .. Len(sel[p].evals)
          PROVE  /\ sel[p].evals[i].kind = "send" /\ closed[sel[p].evals[i].of]
                    => closed'[sel[p].evals[i].of]
                 /\ sel[p].evals[i].kind = "await" /\ done[sel[p].evals[i].of]
                    => done'[sel[p].evals[i].of]
      <3>1. sel[p].evals[i] \in Case
        BY <2>1 DEF SelRec, Case
      <3>2. QED
        BY <1>2, <1>3, <3>1, CaseFields
    <2>3. Aligned(sel[p])'
      <3>1. ASSUME NEW i \in 1 .. Len(sel[p].cases)
            PROVE  Matches(sel[p].cases[i], sel[p].evals[i])'
        <4>1. i \in 1 .. Len(sel[p].evals) /\ Matches(sel[p].cases[i], sel[p].evals[i])
          BY <2>1 DEF Sliced, Aligned, SelRec
        <4>2. QED
          BY <1>1, <2>2, <4>1 DEF Matches
      <3>2. QED
        BY <1>1, <2>1, <3>1 DEF Aligned
    <2>4. ChoiceOK(p, sel[p])'
      <3>1. sel[p].pc = "chosen" => sel[p].at \in 1 .. Len(sel[p].evals)
        BY <2>1 DEF Sliced, Staged, SelRec
      <3>2. QED
        BY <1>1, <2>1, <2>2, <3>1 DEF ChoiceOK, Payload
    <2>5. Told(sel[p])'
      <3>1. sel[p].out.kind = "awaited" => sel[p].out.task \in Task
        BY <2>1 DEF SelRec, Out
      <3>2. QED
        BY <1>1, <1>3, <2>1, <3>1 DEF Told
    <2>6. QED
      BY <2>3, <2>4, <2>5
  <1>5. QED
    BY <1>4 DEF AlignInv

LEMMA AlignNext ==
  ASSUME AlignedForms
  PROVE  TypeInv /\ AlignInv /\ [Next]_vars => AlignInv'
  <1> SUFFICES ASSUME TypeInv, AlignInv, [Next]_vars PROVE AlignInv'
    OBVIOUS
  <1>1. ASSUME NEW p \in Proc, SelectStep(p) PROVE AlignInv'
    BY <1>1, EvalCaseAligned, EvalFailsAligned, WaitAligned, RecvBufferedAligned,
       SendBufferedAligned, RendezvousAligned, SignalAligned, FinishAligned, GoOnAligned,
       SurroundingsAligned DEF SelectStep
  <1>2. QED
    BY <1>1, BeginAligned, SurroundingsAligned DEF Next

\* As long as no `after 0` stands before another case, evalSelect's two slices
\* stay aligned: reflect.Select's index means the same case in both.
THEOREM SlicesAligned ==
  ASSUME AlignedForms
  PROVE  Spec => []AlignInv
  <1>1. TypeInv /\ AlignInv /\ [Next]_vars => AlignInv'
    BY AlignNext
  <1>2. QED
    BY <1>1, AlignInit, TypeInductive, PTL DEF Spec

\* A message that reflect.Select took from a channel is the value of the
\* select: receiving loses nothing.
THEOREM ReceivedNotLost ==
  ASSUME AlignedForms
  PROVE  Spec => []TakenIsDelivered
  <1>1. AlignInv => TakenIsDelivered
    BY DEF AlignInv, Told, TakenIsDelivered
  <1>2. QED
    BY <1>1, SlicesAligned, PTL

\* A select says it has sent exactly when its payload went into the channel
\* or to a receiver, although evalSelect asks the channel twice, before and
\* after it waits, and the channel may be closed at any moment.
THEOREM SentNotInvented ==
  ASSUME AlignedForms
  PROVE  Spec => []SentIsAccepted
  <1>1. AlignInv => SentIsAccepted
    BY DEF AlignInv, Told, SentIsAccepted
  <1>2. QED
    BY <1>1, SlicesAligned, PTL

\* An await case is the value of a select only when its task is done, so
\* AwaitResult never gives nil for a task without a result.
THEOREM AwaitedWhenDone ==
  ASSUME AlignedForms
  PROVE  Spec => []AwaitedIsDone
  <1>1. AlignInv => AwaitedIsDone
    BY DEF AlignInv, Told, AwaitedIsDone
  <1>2. QED
    BY <1>1, SlicesAligned, PTL
=============================================================================
