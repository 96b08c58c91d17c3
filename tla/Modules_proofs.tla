--------------------------- MODULE Modules_proofs ---------------------------
(***************************************************************************)
(* Proofs about Modules, for all programs, names and goroutines: what a    *)
(* load leaves in a module's environment and in the cache, and what an     *)
(* import may change.                                                      *)
(***************************************************************************)
EXTENDS Modules, TLAPS, FiniteSetTheorems, SequenceTheorems, WellFoundedInduction

----------------------------------------------------------------------------
(* The inductive invariant *)

Position == Nat \X Nat
Fns == UNION {[S -> Position] : S \in SUBSET Nat}

\* What a binding that exists holds, what any binding holds, and what an
\* import has collected for a name.
Held == [k : {"uninit"}] \cup [k : {"nil"}] \cup [k : {"lit"}, at : Position]
        \cup [k : {"group"}, fns : Fns, delegates : SUBSET (Nat \X Name)]
        \cup [k : {"ref"}, env : Nat, name : Name]
Slot == Held \cup [k : {"none"}]
Collected == [k : {"none"}] \cup [k : {"group", "ref"}, env : Nat, name : Name]

BindingRec == [val : Slot, mut : BOOLEAN, export : BOOLEAN, import : BOOLEAN]
EnvRec == [mod : Module, bind : [Name -> BindingRec], st : {"run", "done", "failed"}]

\* The stages of an import, and those before its map is complete.
Loading == {"check", "put", "load", "merge"}
Importing == Loading \cup {"bind"}
ActRec == [env : Nat, pc : Nat \ {0}, stage : Importing \cup {"declare", "exec", "spin"},
           todo : Seq(Module), temp : [Name -> Collected], got : Nat,
           last : {"none", "notFound", "early", "uninit", "nil", "lit", "group"}]

Shape == /\ program \in [Module -> Seq(Stmt)]
         /\ cache \in [Module -> 0 .. Len(envs)]
         /\ envs \in Seq(EnvRec) /\ Len(envs) >= 1
         /\ stack \in [Proc -> Seq(ActRec)]
         /\ failing \subseteq Proc
         /\ fatal \in BOOLEAN

\* The rest is said of the environments E, which are envs or envs'.
Has(E, e, n) == E[e].bind[n].val.k # "none"
Ready(E, e, n) == E[e].bind[n].val.k \notin {"none", "uninit"}

\* A reference leads to a binding that exists; while a module is loading, its
\* export flags are those of names without a value.
BindingOK(E, b, st) ==
  /\ b.val.k = "none" => b = NoBinding
  /\ b.val.k = "ref" => b.val.env \in 1 .. Len(E) /\ Has(E, b.val.env, b.val.name)
  /\ b.export => b.val.k = "uninit" \/ st = "done"

Complete(m, bind) ==
  \A n \in Exports(m) : bind[n].export /\ bind[n].val.k \notin {"none", "uninit"}

EnvOK(E, e) == /\ \A n \in Name : BindingOK(E, E[e].bind[n], E[e].st)
               /\ E[e].st = "done" /\ e # 1 => Complete(E[e].mod, E[e].bind)

\* What an import has collected: references to bindings that exist, and the
\* groups of modules that are done.
CollectedOK(E, v) ==
  /\ v.k # "none" => v.env \in 1 .. Len(E) /\ Has(E, v.env, v.name)
  /\ v.k = "group" => E[v.env].st = "done" /\ IsGroup(E[v.env].bind[v.name])

Source(E, p, a) == IF a.env = 0 THEN Scripts[p] ELSE program[E[a.env].mod]

\* The declarations of activation a that have been executed have a value.
Executed(E, p, a) ==
  \A i \in 1 .. a.pc - 1 :
    LET code == Source(E, p, a)
    IN  i \in DOMAIN code /\ code[i].op \in {"decl", "named"} => Ready(E, a.env, code[i].name)

ActOK(E, p, a) ==
  /\ a.env \in 0 .. Len(E) /\ a.got \in 0 .. Len(E)
  /\ IF a.env = 0 THEN p # Main ELSE E[a.env].st = "run"
  /\ a.stage \in Importing => /\ a.pc \in DOMAIN Source(E, p, a)
                              /\ Source(E, p, a)[a.pc].op \in {"star", "named", "try"}
  /\ a.stage \in Loading => a.todo # <<>>
  /\ a.stage = "merge" => a.got # 0
  /\ a.stage = "declare" => a.env # 0 /\ E[a.env].bind = Empty /\ a.pc = 1
  /\ a.stage # "declare" => Executed(E, p, a)
  /\ \A n \in Name : CollectedOK(E, a.temp[n]) /\ (a.temp[n].k # "none" => a.temp[n].name = n)

\* Only the innermost activation is not waiting for a load, and the outermost
\* one is of the main program or of a task.
StackOK(E, fails, p, s) ==
  \A i \in DOMAIN s :
    /\ ActOK(E, p, s[i])
    /\ i < Len(s) => s[i].stage = "load"
    /\ i = Len(s) /\ s[i].stage = "load" => fails
    /\ i = Len(s) /\ s[i].stage = "declare" => ~fails
    /\ i = 1 => s[i].env = IF p = Main THEN 1 ELSE 0
    /\ i > 1 => s[i].env > 1

\* No environment is filled by two activations.
Alone == \A p, q \in Proc : \A i \in DOMAIN stack[p], j \in DOMAIN stack[q] :
           stack[p][i].env # 0 /\ stack[p][i].env = stack[q][j].env => p = q /\ i = j

LoadInv == /\ Shape
           /\ \A e \in 1 .. Len(envs) : EnvOK(envs, e)
           /\ \A p \in Proc : StackOK(envs, p \in failing, p, stack[p])
           /\ Alone
           /\ \A p \in failing : stack[p] # <<>>

----------------------------------------------------------------------------
(* Environments that grow *)

\* From E to F no binding is lost, and what is done stays as it is.
Grown(E, F) ==
  /\ Len(E) \in Nat /\ Len(F) \in Nat /\ Len(F) >= Len(E)
  /\ \A e \in 1 .. Len(E) :
       /\ F[e].mod = E[e].mod
       /\ \A n \in Name : /\ Has(E, e, n) => Has(F, e, n)
                          /\ Ready(E, e, n) => Ready(F, e, n)
       /\ E[e].st = "done" => /\ F[e].st = "done"
                              /\ \A n \in Name : IsGroup(E[e].bind[n]) => IsGroup(F[e].bind[n])

\* Only environment d is filled.
Others(E, F, d) ==
  \A e \in 1 .. Len(E) : e # d =>
    /\ F[e].st = E[e].st
    /\ E[e].bind = Empty => F[e].bind = Empty

LEMMA CollectedKept ==
  ASSUME NEW E, NEW F, Grown(E, F), NEW v \in Collected, CollectedOK(E, v)
  PROVE  CollectedOK(F, v)
<1>1. CASE v.k = "none"
  BY <1>1 DEF CollectedOK
<1>2. CASE v.k # "none"
  <2>1. v.name \in Name /\ v.env \in 1 .. Len(E) /\ Has(E, v.env, v.name)
    BY <1>2 DEF Collected, CollectedOK
  <2>2. v.env \in 1 .. Len(F) /\ Has(F, v.env, v.name)
    BY <2>1 DEF Grown
  <2>3. v.k = "group" => F[v.env].st = "done" /\ IsGroup(F[v.env].bind[v.name])
    BY <2>1 DEF Grown, CollectedOK
  <2> QED BY <2>2, <2>3 DEF CollectedOK
<1> QED BY <1>1, <1>2

LEMMA SourceKept ==
  ASSUME NEW E, NEW F, Grown(E, F), NEW p, NEW a, a.env \in 0 .. Len(E)
  PROVE  Source(F, p, a) = Source(E, p, a)
BY DEF Source, Grown

\* The statements of modules and of tasks.
LEMMA StmtFields ==
  ASSUME NEW x \in Stmt
  PROVE  /\ x.op \in {"decl", "star", "named", "try", "use", "fail"}
         /\ x.op = "decl" => x.name \in Name /\ x.sig \in Nat /\ x.mut \in BOOLEAN /\ x.export \in BOOLEAN
         /\ x.op = "named" => x.name \in Name /\ x.mut \in BOOLEAN /\ x.export \in BOOLEAN
         /\ x.op = "star" => x.mut \in BOOLEAN
         /\ x.op \in {"star", "named", "try"} => x.from \in Seq(Module) /\ x.from # <<>>
         /\ x.op = "use" => x.name \in Name
BY DEF Stmt, Paths

LEMMA SeqElements ==
  ASSUME NEW S, NEW s \in Seq(S)
  PROVE  /\ Len(s) \in Nat /\ DOMAIN s = 1 .. Len(s)
         /\ \A i \in DOMAIN s : s[i] \in S
<1>1. Len(s) \in Nat /\ DOMAIN s = 1 .. Len(s)
  BY LenProperties
<1> QED BY <1>1, ElementOfSeq

LEMMA SourceType ==
  ASSUME Shape, NEW E \in Seq(EnvRec), NEW p \in Proc, NEW a, ActOK(E, p, a)
  PROVE  /\ Source(E, p, a) \in Seq(Stmt)
         /\ \A i \in DOMAIN Source(E, p, a) : /\ Source(E, p, a)[i] \in Stmt
                                            /\ a.env = 0 => Source(E, p, a)[i].op = "try"
<1> DEFINE code == Source(E, p, a)
<1>1. CASE a.env = 0
  <2>1. code = Scripts[p] /\ p \in Proc \ {Main}
    BY <1>1 DEF Source, ActOK
  <2>2. code \in Seq(Stmt) /\ \A i \in DOMAIN code : code[i].op = "try"
    BY <2>1, ModulesAssumption
  <2> HIDE DEF code
  <2>3. \A i \in DOMAIN code : code[i] \in Stmt
    BY <2>2, SeqElements
  <2> QED BY <2>2, <2>3 DEF code
<1>2. CASE a.env # 0
  <2>1. a.env \in 1 .. Len(E)
    BY <1>2, LenProperties DEF ActOK
  <2>2. E[a.env].mod \in Module
    <3>1. E[a.env] \in EnvRec
      BY <2>1, ElementOfSeq
    <3> QED BY <3>1 DEF EnvRec
  <2>3. code \in Seq(Stmt)
    BY <1>2, <2>2 DEF Source, Shape
  <2> HIDE DEF code
  <2>4. \A i \in DOMAIN code : code[i] \in Stmt
    BY <2>3, SeqElements
  <2> QED BY <1>2, <2>3, <2>4 DEF code
<1> QED BY <1>1, <1>2

\* An activation whose environment is still being filled.
LEMMA ActStays ==
  ASSUME Shape, NEW E, NEW F, Grown(E, F), E \in Seq(EnvRec),
         NEW p \in Proc, NEW a \in ActRec, ActOK(E, p, a),
         a.env # 0 => F[a.env].st = E[a.env].st,
         a.env # 0 /\ a.stage = "declare" /\ E[a.env].bind = Empty => F[a.env].bind = Empty
  PROVE  ActOK(F, p, a)
<1>1. /\ a.env \in 0 .. Len(E) /\ a.got \in 0 .. Len(E) /\ (a.env # 0 => E[a.env].st = "run")
      /\ Len(E) \in Nat /\ Len(F) \in Nat /\ Len(E) <= Len(F)
  BY DEF ActOK, Grown
<1>2. /\ a.env \in 0 .. Len(F) /\ a.got \in 0 .. Len(F)
      /\ a.env # 0 => a.env \in 1 .. Len(E) /\ F[a.env].st = "run"
  BY <1>1
<1>3. Source(F, p, a) = Source(E, p, a)
  BY <1>1, SourceKept
<1>4. \A n \in Name : CollectedOK(F, a.temp[n])
  <2> SUFFICES ASSUME NEW n \in Name PROVE CollectedOK(F, a.temp[n])
    OBVIOUS
  <2>1. a.temp[n] \in Collected /\ CollectedOK(E, a.temp[n])
    BY DEF ActRec, ActOK
  <2> QED BY <2>1, CollectedKept
<1>5. Executed(E, p, a) => Executed(F, p, a)
  <2> DEFINE code == Source(E, p, a)
  <2> SUFFICES ASSUME Executed(E, p, a), NEW i \in 1 .. a.pc - 1, i \in DOMAIN code,
                      code[i].op \in {"decl", "named"}
               PROVE  Ready(F, a.env, code[i].name)
    BY <1>3 DEF Executed
  <2>1. Ready(E, a.env, code[i].name)
    BY DEF Executed
  <2>2. code[i].name \in Name /\ a.env # 0
    <3>1. code[i] \in Stmt /\ (a.env = 0 => code[i].op = "try")
      BY SourceType
    <3> HIDE DEF code
    <3> QED BY <3>1, StmtFields
  <2> HIDE DEF code
  <2> QED BY <1>2, <2>1, <2>2 DEF Grown
<1> QED BY <1>1, <1>2, <1>3, <1>4, <1>5 DEF ActOK

LEMMA ActKept ==
  ASSUME Shape, NEW E, NEW F, Grown(E, F), NEW d, Others(E, F, d), E \in Seq(EnvRec),
         NEW p \in Proc, NEW a \in ActRec, ActOK(E, p, a), a.env # d \/ a.env = 0
  PROVE  ActOK(F, p, a)
<1>1. ASSUME a.env # 0
      PROVE  F[a.env].st = E[a.env].st /\ (E[a.env].bind = Empty => F[a.env].bind = Empty)
  <2>1. a.env \in 1 .. Len(E) /\ a.env # d
    BY <1>1 DEF ActOK, Grown
  <2> QED BY <2>1 DEF Others
<1> QED BY <1>1, ActStays

----------------------------------------------------------------------------
(* Stacks *)

LEMMA StackParts ==
  ASSUME NEW S, NEW s \in Seq(S), s # <<>>
  PROVE  /\ Len(s) \in Nat /\ Len(s) >= 1 /\ Last(s) = s[Len(s)] /\ Last(s) \in S
         /\ Front(s) \in Seq(S) /\ Len(Front(s)) = Len(s) - 1
         /\ \A i \in 1 .. Len(s) - 1 : Front(s)[i] = s[i]
<1>1. Len(s) \in Nat /\ Len(s) > 0
  BY EmptySeq, LenProperties
<1>2. Last(s) = s[Len(s)] /\ Last(s) \in S
  BY <1>1, ElementOfSeq DEF Last
<1>3. \A i \in 1 .. Len(s) - 1 : s[i] \in S
  BY <1>1, ElementOfSeq
<1>4. Front(s) \in Seq(S) /\ Len(Front(s)) = Len(s) - 1 /\ \A i \in 1 .. Len(s) - 1 : Front(s)[i] = s[i]
  <2>1. Front(s) \in Seq(S)
    BY <1>1, <1>3, SubSeqProperties DEF Front
  <2>2. Len(Front(s)) = Len(s) - 1
    <3> DEFINE n == Len(s) - 1
    <3>1. n \in Int /\ n >= 0 /\ \A i \in 1 .. n : s[i] \in S
      BY <1>1, <1>3
    <3> HIDE DEF n
    <3>2. Len(SubSeq(s, 1, n)) = IF 1 <= n THEN n - 1 + 1 ELSE 0
      BY <3>1, SubSeqProperties
    <3>3. Len(SubSeq(s, 1, n)) = n
      BY <3>1, <3>2
    <3> QED BY <3>3 DEF Front, n
  <2>3. \A i \in 1 .. Len(s) - 1 : Front(s)[i] = s[i]
    BY <1>1, <1>3 DEF Front
  <2> QED BY <2>1, <2>2, <2>3
<1> QED BY <1>1, <1>2, <1>4

LEMMA AppendParts ==
  ASSUME NEW S, NEW s \in Seq(S), NEW a \in S
  PROVE  /\ Append(s, a) \in Seq(S) /\ Append(s, a) # <<>> /\ Len(s) \in Nat
         /\ Len(Append(s, a)) = Len(s) + 1 /\ DOMAIN Append(s, a) = 1 .. Len(s) + 1
         /\ \A i \in 1 .. Len(s) : Append(s, a)[i] = s[i]
         /\ Append(s, a)[Len(s) + 1] = a
<1>1. Append(s, a) \in Seq(S) /\ Len(s) \in Nat
  BY LenProperties
<1>2. /\ Len(Append(s, a)) = Len(s) + 1
      /\ \A i \in 1 .. Len(s) : Append(s, a)[i] = s[i]
      /\ Append(s, a)[Len(s) + 1] = a
  BY AppendProperties
<1>3. Append(s, a) # <<>>
  BY <1>1, <1>2, EmptySeq
<1> QED BY <1>1, <1>2, <1>3, SeqElements

\* The stack with its last element replaced.
LEMMA ReplaceTop ==
  ASSUME NEW S, NEW s \in Seq(S), s # <<>>, NEW a \in S
  PROVE  /\ Append(Front(s), a) \in Seq(S) /\ Append(Front(s), a) # <<>>
         /\ Len(Append(Front(s), a)) = Len(s)
         /\ DOMAIN Append(Front(s), a) = 1 .. Len(s)
         /\ \A i \in 1 .. Len(s) - 1 : Append(Front(s), a)[i] = s[i]
         /\ Append(Front(s), a)[Len(s)] = a
<1> DEFINE r == Front(s)
<1>1. r \in Seq(S) /\ Len(r) = Len(s) - 1 /\ (\A i \in 1 .. Len(s) - 1 : r[i] = s[i]) /\ Len(s) \in Nat
  BY StackParts
<1> HIDE DEF r
<1>2. /\ Append(r, a) \in Seq(S) /\ Append(r, a) # <<>>
      /\ Len(Append(r, a)) = Len(r) + 1 /\ DOMAIN Append(r, a) = 1 .. Len(r) + 1
      /\ \A i \in 1 .. Len(r) : Append(r, a)[i] = r[i]
      /\ Append(r, a)[Len(r) + 1] = a
  BY <1>1, AppendParts
<1>3. Len(r) + 1 = Len(s)
  BY <1>1
<1> QED BY <1>1, <1>2, <1>3 DEF r

----------------------------------------------------------------------------
(* A step of one goroutine *)

\* The environments F may follow when activation env d is the one that fills
\* its environment.
Fills(d, F) == /\ F \in Seq(EnvRec) /\ Grown(envs, F) /\ Others(envs, F, d)
               /\ \A e \in 1 .. Len(F) : EnvOK(F, e)

\* Goroutine p may have stack s: its environments are those of its old stack,
\* or new.
Follows(p, s) ==
  /\ \A i \in DOMAIN s : s[i].env # 0 =>
       (\E j \in DOMAIN stack[p] : stack[p][j].env = s[i].env) \/ s[i].env > Len(envs)
  /\ \A i, j \in DOMAIN s : s[i].env # 0 /\ s[i].env = s[j].env => i = j

\* d is 0 or the environment of an activation of p.
Own(p, d) == d = 0 \/ \E j \in DOMAIN stack[p] : stack[p][j].env = d

LEMMA OthersKeep ==
  ASSUME LoadInv, NEW p \in Proc, NEW F, NEW d, Fills(d, F), Own(p, d),
         NEW q \in Proc, q # p, NEW fails, fails <=> q \in failing
  PROVE  StackOK(F, fails, q, stack[q])
<1> DEFINE s == stack[q]
<1>1. StackOK(envs, q \in failing, q, s) /\ s \in Seq(ActRec) /\ Shape /\ Alone /\ envs \in Seq(EnvRec)
  BY DEF LoadInv, Shape
<1>2. \A i \in DOMAIN s : s[i].env = 0 \/ s[i].env # d
  BY <1>1 DEF Alone, Own
<1> HIDE DEF s
<1>3. ASSUME NEW i \in DOMAIN s PROVE ActOK(F, q, s[i])
  <2>1. s[i] \in ActRec
    BY <1>1, SeqElements
  <2>2. ActOK(envs, q, s[i]) /\ (s[i].env # d \/ s[i].env = 0)
    BY <1>1, <1>2 DEF StackOK
  <2> QED BY <1>1, <2>1, <2>2, ActKept DEF Fills
<1>4. StackOK(F, fails, q, s)
  BY <1>1, <1>3 DEF StackOK
<1> QED BY <1>4 DEF s

LEMMA LoadStep ==
  ASSUME LoadInv, NEW p \in Proc, NEW s \in Seq(ActRec), NEW d,
         program' = program, stack' = [stack EXCEPT ![p] = s],
         Fills(d, envs'), Own(p, d), Follows(p, s),
         cache' \in [Module -> 0 .. Len(envs')], fatal' \in BOOLEAN,
         failing' \subseteq Proc, \A q \in Proc : q # p => (q \in failing' <=> q \in failing),
         StackOK(envs', p \in failing', p, s), p \in failing' => s # <<>>
  PROVE  LoadInv'
<1>1. Shape /\ Alone /\ stack \in [Proc -> Seq(ActRec)]
  BY DEF LoadInv, Shape
<1>2. stack' \in [Proc -> Seq(ActRec)] /\ stack'[p] = s /\ \A q \in Proc : q # p => stack'[q] = stack[q]
  BY <1>1
<1>3. Shape'
  <2>1. envs' \in Seq(EnvRec) /\ Len(envs') >= 1
    BY <1>1 DEF Fills, Grown, Shape
  <2> QED BY <1>1, <1>2, <2>1 DEF Shape
<1>4. (\A e \in 1 .. Len(envs) : EnvOK(envs, e))'
  <2>1. \A e \in 1 .. Len(envs') : EnvOK(envs', e)
    BY DEF Fills
  <2> QED BY <2>1 DEF EnvOK, Complete, Exports, Decls, BindingOK, Has
<1>5. (\A q \in Proc : StackOK(envs, q \in failing, q, stack[q]))'
  <2>1. \A q \in Proc : StackOK(envs', q \in failing', q, stack'[q])
    <3> SUFFICES ASSUME NEW q \in Proc PROVE StackOK(envs', q \in failing', q, stack'[q])
      OBVIOUS
    <3>1. CASE q = p
      BY <3>1, <1>2
    <3>2. CASE q # p
      <4>1. StackOK(envs', q \in failing', q, stack[q])
        BY <3>2, OthersKeep
      <4> QED BY <3>2, <4>1, <1>2
    <3> QED BY <3>1, <3>2
  <2>2. program' = program
    OBVIOUS
  <2> SUFFICES ASSUME NEW q \in Proc PROVE StackOK(envs, q \in failing, q, stack[q])'
    OBVIOUS
  <2>3. StackOK(envs', q \in failing', q, stack'[q])
    BY <2>1
  <2>4. ASSUME NEW i \in DOMAIN stack'[q] PROVE ActOK(envs, q, stack[q][i])'
    <3>1. ActOK(envs', q, stack'[q][i])
      BY <2>3 DEF StackOK
    <3>2. Source(envs', q, stack'[q][i]) = Source(envs, q, stack[q][i])'
      BY <2>2 DEF Source
    <3>3. Executed(envs', q, stack'[q][i]) => Executed(envs, q, stack[q][i])'
      BY <3>2 DEF Executed, Ready
    <3>4. \A n \in Name : CollectedOK(envs', stack'[q][i].temp[n]) => CollectedOK(envs, stack[q][i].temp[n])'
      BY DEF CollectedOK, Has, IsGroup
    <3> QED BY ONLY <3>1, <3>2, <3>3, <3>4 DEF ActOK
  <2> QED BY ONLY <2>3, <2>4 DEF StackOK
<1>6. Alone'
  <2> SUFFICES ASSUME NEW q \in Proc, NEW r \in Proc, NEW i \in DOMAIN stack'[q], NEW j \in DOMAIN stack'[r],
                      stack'[q][i].env # 0, stack'[q][i].env = stack'[r][j].env
               PROVE  q = r /\ i = j
    BY DEF Alone
  <2>1. ASSUME NEW u \in Proc, u # p, NEW k \in DOMAIN stack[u], NEW l \in DOMAIN s,
               s[l].env # 0, s[l].env = stack[u][k].env
        PROVE  FALSE
    <3>1. stack[u][k].env \in 0 .. Len(envs)
      BY DEF LoadInv, StackOK, ActOK
    <3>2. Len(envs) \in Nat
      BY <1>1, LenProperties DEF Shape
    <3>3. \E m \in DOMAIN stack[p] : stack[p][m].env = s[l].env
      BY <2>1, <3>1, <3>2 DEF Follows
    <3> QED BY <2>1, <3>3, <1>1 DEF Alone
  <2>2. CASE q = p /\ r = p
    BY <2>2, <1>2 DEF Follows
  <2>3. CASE q = p /\ r # p
    BY <2>3, <1>2, <2>1
  <2>4. CASE q # p /\ r = p
    BY <2>4, <1>2, <2>1
  <2>5. CASE q # p /\ r # p
    BY <2>5, <1>2, <1>1 DEF Alone
  <2> QED BY <2>2, <2>3, <2>4, <2>5
<1>7. (\A q \in failing : stack[q] # <<>>)'
  <2> SUFFICES ASSUME NEW q \in failing' PROVE stack'[q] # <<>>
    OBVIOUS
  <2>1. q \in Proc
    OBVIOUS
  <2>2. CASE q = p
    BY <2>2, <1>2
  <2>3. CASE q # p
    BY <2>1, <2>3, <1>2 DEF LoadInv
  <2> QED BY <2>2, <2>3
<1> QED BY <1>3, <1>4, <1>5, <1>6, <1>7 DEF LoadInv

\* The innermost activation of a goroutine and the code that it runs.
LEMMA TopFacts ==
  ASSUME LoadInv, NEW p \in Proc, stack[p] # <<>>
  PROVE  /\ Shape /\ stack[p] \in Seq(ActRec) /\ envs \in Seq(EnvRec) /\ Len(envs) \in Nat
         /\ Len(stack[p]) \in Nat /\ Len(stack[p]) >= 1
         /\ Top(p) = stack[p][Len(stack[p])] /\ Top(p) \in ActRec /\ ActOK(envs, p, Top(p))
         /\ Own(p, Top(p).env)
         /\ Top(p).stage = "load" => p \in failing
         /\ Top(p).stage = "declare" => p \notin failing
         /\ Code(p) = Source(envs, p, Top(p)) /\ Code(p) \in Seq(Stmt)
         /\ DOMAIN Code(p) = 1 .. Len(Code(p)) /\ Len(Code(p)) \in Nat
         /\ \A i \in DOMAIN Code(p) : /\ Code(p)[i] \in Stmt
                                      /\ Top(p).env = 0 => Code(p)[i].op = "try"
<1>1. /\ Shape /\ stack[p] \in Seq(ActRec) /\ envs \in Seq(EnvRec)
      /\ StackOK(envs, p \in failing, p, stack[p])
  BY DEF LoadInv, Shape
<1>2. /\ Len(stack[p]) \in Nat /\ Len(stack[p]) >= 1 /\ DOMAIN stack[p] = 1 .. Len(stack[p])
      /\ Top(p) = stack[p][Len(stack[p])] /\ Top(p) \in ActRec
  BY <1>1, StackParts, SeqElements DEF Top
<1>3. Len(stack[p]) \in DOMAIN stack[p] /\ Len(envs) \in Nat
  BY <1>1, <1>2, SeqElements
<1>4. /\ ActOK(envs, p, Top(p)) /\ Own(p, Top(p).env)
      /\ Top(p).stage = "load" => p \in failing
      /\ Top(p).stage = "declare" => p \notin failing
  BY <1>1, <1>2, <1>3 DEF StackOK, Own
<1>5. Code(p) = Source(envs, p, Top(p))
  BY DEF Code, Source
<1>6. /\ Code(p) \in Seq(Stmt)
      /\ \A i \in DOMAIN Code(p) : Code(p)[i] \in Stmt /\ (Top(p).env = 0 => Code(p)[i].op = "try")
  BY <1>1, <1>4, <1>5, SourceType
<1>7. DOMAIN Code(p) = 1 .. Len(Code(p)) /\ Len(Code(p)) \in Nat
  BY <1>6, SeqElements
<1> QED BY <1>1, <1>2, <1>3, <1>4, <1>5, <1>6, <1>7

\* The activations that wait for the innermost one.
LEMMA LowerKept ==
  ASSUME LoadInv, NEW p \in Proc, stack[p] # <<>>, NEW F, Fills(Top(p).env, F)
  PROVE  \A i \in 1 .. Len(stack[p]) - 1 :
           /\ ActOK(F, p, stack[p][i]) /\ stack[p][i].stage = "load"
           /\ i = 1 => stack[p][i].env = IF p = Main THEN 1 ELSE 0
           /\ i > 1 => stack[p][i].env > 1
<1> SUFFICES ASSUME NEW i \in 1 .. Len(stack[p]) - 1
             PROVE  /\ ActOK(F, p, stack[p][i]) /\ stack[p][i].stage = "load"
                    /\ i = 1 => stack[p][i].env = IF p = Main THEN 1 ELSE 0
                    /\ i > 1 => stack[p][i].env > 1
  OBVIOUS
<1>1. /\ Shape /\ stack[p] \in Seq(ActRec) /\ envs \in Seq(EnvRec) /\ Alone
      /\ StackOK(envs, p \in failing, p, stack[p])
  BY DEF LoadInv, Shape
<1>2. /\ Len(stack[p]) \in Nat /\ DOMAIN stack[p] = 1 .. Len(stack[p])
      /\ Top(p) = stack[p][Len(stack[p])]
  BY <1>1, StackParts, SeqElements DEF Top
<1>3. i \in DOMAIN stack[p] /\ Len(stack[p]) \in DOMAIN stack[p] /\ i # Len(stack[p]) /\ i < Len(stack[p])
  BY <1>2
<1>4. stack[p][i] \in ActRec /\ ActOK(envs, p, stack[p][i]) /\ stack[p][i].stage = "load"
  BY <1>1, <1>3, SeqElements DEF StackOK
<1>5. stack[p][i].env # Top(p).env \/ stack[p][i].env = 0
  BY <1>1, <1>2, <1>3 DEF Alone
<1>6. ActOK(F, p, stack[p][i])
  BY <1>1, <1>4, <1>5, ActKept DEF Fills
<1> QED BY <1>1, <1>3, <1>4, <1>6 DEF StackOK

\* The innermost activation moves on.
LEMMA TopStep ==
  ASSUME LoadInv, NEW p \in Proc, stack[p] # <<>>, NEW a \in ActRec, a.env = Top(p).env,
         program' = program, stack' = [stack EXCEPT ![p] = Append(Front(stack[p]), a)],
         Fills(Top(p).env, envs'),
         cache' \in [Module -> 0 .. Len(envs')], fatal' \in BOOLEAN,
         failing' \subseteq Proc, \A q \in Proc : q # p => (q \in failing' <=> q \in failing),
         ActOK(envs', p, a), a.stage = "load" => p \in failing', a.stage # "declare"
  PROVE  LoadInv'
<1> DEFINE s == Append(Front(stack[p]), a)
           n == Len(stack[p])
<1>1. /\ stack[p] \in Seq(ActRec) /\ n \in Nat /\ n >= 1 /\ Top(p) = stack[p][n] /\ Own(p, Top(p).env)
      /\ StackOK(envs, p \in failing, p, stack[p]) /\ DOMAIN stack[p] = 1 .. n /\ Alone
  BY TopFacts, SeqElements DEF LoadInv
<1>2. /\ s \in Seq(ActRec) /\ s # <<>> /\ Len(s) = n /\ DOMAIN s = 1 .. n
      /\ \A i \in 1 .. n - 1 : s[i] = stack[p][i]
      /\ s[n] = a
  <2> DEFINE t == stack[p]
  <2>1. t \in Seq(ActRec) /\ t # <<>>
    BY <1>1
  <2> HIDE DEF t
  <2>2. /\ Append(Front(t), a) \in Seq(ActRec) /\ Append(Front(t), a) # <<>>
        /\ Len(Append(Front(t), a)) = Len(t) /\ DOMAIN Append(Front(t), a) = 1 .. Len(t)
        /\ \A i \in 1 .. Len(t) - 1 : Append(Front(t), a)[i] = t[i]
        /\ Append(Front(t), a)[Len(t)] = a
    BY <2>1, ReplaceTop
  <2> QED BY <2>2 DEF t
<1>3. stack' = [stack EXCEPT ![p] = s]
  OBVIOUS
<1>4. \A i \in 1 .. n - 1 :
           /\ ActOK(envs', p, stack[p][i]) /\ stack[p][i].stage = "load"
           /\ i = 1 => stack[p][i].env = IF p = Main THEN 1 ELSE 0
           /\ i > 1 => stack[p][i].env > 1
  BY LowerKept
<1> HIDE DEF s
<1>5. \A i \in 1 .. n : s[i].env = stack[p][i].env
  BY <1>1, <1>2
<1>6. Follows(p, s)
  <2>1. \A i \in 1 .. n : \A j \in 1 .. n : s[i].env # 0 /\ s[i].env = s[j].env => i = j
    BY <1>1, <1>5 DEF Alone
  <2>2. \A i \in 1 .. n : \E j \in DOMAIN stack[p] : stack[p][j].env = s[i].env
    BY <1>1, <1>5
  <2> HIDE DEF n
  <2> QED BY <1>2, <2>1, <2>2 DEF Follows
<1>7. StackOK(envs', p \in failing', p, s)
  <2> SUFFICES ASSUME NEW i \in 1 .. n
               PROVE  /\ ActOK(envs', p, s[i])
                      /\ i < n => s[i].stage = "load"
                      /\ i = n /\ s[i].stage = "load" => p \in failing'
                      /\ i = n /\ s[i].stage = "declare" => p \notin failing'
                      /\ i = 1 => s[i].env = IF p = Main THEN 1 ELSE 0
                      /\ i > 1 => s[i].env > 1
    BY <1>2 DEF StackOK
  <2>1. CASE i < n
    BY <2>1, <1>1, <1>2, <1>4
  <2>2. CASE i = n
    BY <2>2, <1>1, <1>2, <1>5 DEF StackOK
  <2> QED BY <2>1, <2>2, <1>1
<1> QED BY <1>1, <1>2, <1>3, <1>6, <1>7, LoadStep

LEMMA SameTop ==
  ASSUME LoadInv, NEW p \in Proc, stack[p] # <<>>
  PROVE  stack = [stack EXCEPT ![p] = Append(Front(stack[p]), Top(p))]
<1> DEFINE t == stack[p]
<1>1. /\ t \in Seq(ActRec) /\ t # <<>> /\ Len(t) \in Nat /\ Len(t) >= 1 /\ Top(p) = t[Len(t)]
      /\ Top(p) \in ActRec
  BY TopFacts
<1> HIDE DEF t
<1>2. /\ Append(Front(t), Top(p)) \in Seq(ActRec)
      /\ Len(Append(Front(t), Top(p))) = Len(t)
      /\ \A i \in 1 .. Len(t) - 1 : Append(Front(t), Top(p))[i] = t[i]
      /\ Append(Front(t), Top(p))[Len(t)] = Top(p)
  BY <1>1, ReplaceTop
<1>3. \A i \in 1 .. Len(t) : Append(Front(t), Top(p))[i] = t[i]
  BY <1>1, <1>2
<1> DEFINE u == Append(Front(t), Top(p))
<1> HIDE DEF u
<1>4. u = t
  BY <1>1, <1>2, <1>3, SeqEqual DEF u
<1>5. stack \in [Proc -> Seq(ActRec)]
  BY DEF LoadInv, Shape
<1> QED BY <1>4, <1>5 DEF t, u

LEMMA FillsSame ==
  ASSUME LoadInv, NEW d
  PROVE  Fills(d, envs)
<1>1. envs \in Seq(EnvRec) /\ Len(envs) \in Nat
  BY LenProperties DEF LoadInv, Shape
<1>2. Grown(envs, envs)
  BY <1>1 DEF Grown
<1>3. Others(envs, envs, d)
  BY DEF Others
<1>4. \A e \in 1 .. Len(envs) : EnvOK(envs, e)
  BY DEF LoadInv
<1> QED BY <1>1, <1>2, <1>3, <1>4 DEF Fills

\* A step whose statement fails; the innermost activation stays.
LEMMA FailKeeps ==
  ASSUME LoadInv, NEW p \in Proc, stack[p] # <<>>, Top(p).stage # "declare",
         program' = program, stack' = stack, cache' = cache, fatal' = fatal, Fails(p),
         Fills(Top(p).env, envs'), Top(p).env # 0 => envs'[Top(p).env].st = "run"
  PROVE  LoadInv'
<1>1. /\ Shape /\ Top(p) \in ActRec /\ ActOK(envs, p, Top(p)) /\ envs \in Seq(EnvRec)
  BY TopFacts
<1>2. stack' = [stack EXCEPT ![p] = Append(Front(stack[p]), Top(p))]
  BY SameTop
<1>3. Top(p).env # 0 => envs'[Top(p).env].st = envs[Top(p).env].st
  BY <1>1 DEF ActOK
<1>4. ActOK(envs', p, Top(p))
  BY <1>1, <1>3, ActStays DEF Fills
<1>5. /\ failing' \subseteq Proc /\ \A q \in Proc : q # p => (q \in failing' <=> q \in failing)
      /\ p \in failing' /\ fatal' \in BOOLEAN
  BY <1>1 DEF Fails, Shape
<1>6. cache' \in [Module -> 0 .. Len(envs')]
  <2>1. Len(envs) \in Nat /\ Len(envs') \in Nat /\ Len(envs) <= Len(envs')
    BY DEF Fills, Grown
  <2>2. 0 .. Len(envs) \subseteq 0 .. Len(envs')
    BY <2>1
  <2>3. cache \in [Module -> 0 .. Len(envs)]
    BY <1>1 DEF Shape
  <2> QED BY <2>2, <2>3
<1> DEFINE a == Top(p)
<1>7. /\ a \in ActRec /\ a.env = Top(p).env /\ ActOK(envs', p, a) /\ a.stage # "declare"
      /\ stack' = [stack EXCEPT ![p] = Append(Front(stack[p]), a)]
  BY <1>1, <1>2, <1>4
<1> HIDE DEF a
<1> QED BY <1>5, <1>6, <1>7, TopStep

\* The activation after its statement.
LEMMA GoOnOK ==
  ASSUME Shape, NEW F, NEW p \in Proc, NEW a \in ActRec, ActOK(F, p, a), a.stage # "declare",
         a.pc \in DOMAIN Source(F, p, a),
         Source(F, p, a)[a.pc].op \in {"decl", "named"} => Ready(F, a.env, Source(F, p, a)[a.pc].name)
  PROVE  GoOn(a) \in ActRec /\ GoOn(a).env = a.env /\ GoOn(a).stage = "exec" /\ ActOK(F, p, GoOn(a))
<1> DEFINE b == GoOn(a)
<1>1. NoTemp \in [Name -> Collected] /\ \A n \in Name : CollectedOK(F, NoTemp[n]) /\ NoTemp[n].k = "none"
  BY DEF NoTemp, NoValue, Collected, CollectedOK
<1>2. a.pc \in Nat \ {0} /\ a.pc + 1 \in Nat \ {0}
  BY DEF ActRec
<1>3. b \in ActRec /\ b.env = a.env /\ b.stage = "exec" /\ b.pc = a.pc + 1 /\ b.temp = NoTemp /\ b.got = 0
  BY <1>1, <1>2 DEF ActRec, GoOn
<1> HIDE DEF b
<1>4. Source(F, p, b) = Source(F, p, a)
  BY <1>3 DEF Source
<1>5. Executed(F, p, a)
  BY DEF ActOK
<1>6. Executed(F, p, b)
  <2> SUFFICES ASSUME NEW i \in 1 .. a.pc, i \in DOMAIN Source(F, p, a),
                      Source(F, p, a)[i].op \in {"decl", "named"}
               PROVE  Ready(F, a.env, Source(F, p, a)[i].name)
    BY <1>2, <1>3, <1>4 DEF Executed
  <2>1. CASE i = a.pc
    BY <2>1
  <2>2. CASE i # a.pc
    <3>1. i \in 1 .. a.pc - 1
      BY <2>2, <1>2
    <3> QED BY <3>1, <1>5 DEF Executed
  <2> QED BY <2>1, <2>2
<1>7. 0 \in 0 .. Len(F) /\ b.env \in 0 .. Len(F)
  BY <1>3 DEF ActOK
<1>8. ActOK(F, p, b)
  BY <1>1, <1>3, <1>6, <1>7 DEF ActOK, Importing, Loading
<1> QED BY <1>3, <1>8 DEF b

----------------------------------------------------------------------------
(* Values and bindings *)

\* Environment e with bindings B and state st.
With(e, B, st) == [envs EXCEPT ![e] = [mod |-> envs[e].mod, bind |-> B, st |-> st]]

\* Bindings B may replace those of environment e when its state becomes st.
MayBecome(e, B, st) ==
  /\ B \in [Name -> BindingRec] /\ st \in {"run", "done", "failed"}
  /\ \A n \in Name : /\ BindingOK(envs, B[n], st)
                     /\ Has(envs, e, n) => B[n].val.k # "none"
                     /\ Ready(envs, e, n) => B[n].val.k \notin {"none", "uninit"}
  /\ st = "done" /\ e # 1 => Complete(envs[e].mod, B)

LEMMA WriteEnv ==
  ASSUME LoadInv, NEW e \in 1 .. Len(envs), envs[e].st = "run", NEW B, NEW st, MayBecome(e, B, st)
  PROVE  /\ Fills(e, With(e, B, st)) /\ Len(With(e, B, st)) = Len(envs)
         /\ With(e, B, st)[e].st = st /\ With(e, B, st)[e].bind = B
<1> DEFINE F == With(e, B, st)
           new == [mod |-> envs[e].mod, bind |-> B, st |-> st]
<1>1. /\ envs \in Seq(EnvRec) /\ Len(envs) \in Nat /\ DOMAIN envs = 1 .. Len(envs)
      /\ \A d \in 1 .. Len(envs) : envs[d] \in EnvRec
  BY SeqElements DEF LoadInv, Shape
<1>2. new \in EnvRec
  BY <1>1 DEF EnvRec, MayBecome
<1>3. new.mod = envs[e].mod /\ new.bind = B /\ new.st = st
  OBVIOUS
<1> HIDE DEF new
<1>4. /\ F \in Seq(EnvRec) /\ Len(F) = Len(envs) /\ F[e] = new
      /\ \A d \in 1 .. Len(envs) : d # e => F[d] = envs[d]
  BY <1>1, <1>2 DEF With, new
<1> HIDE DEF F
<1>5. \A d \in 1 .. Len(envs), n \in Name : /\ Has(envs, d, n) => Has(F, d, n)
                                            /\ Ready(envs, d, n) => Ready(F, d, n)
  BY <1>3, <1>4 DEF MayBecome, Has, Ready
<1>6. Grown(envs, F)
  <2>1. Len(F) \in Nat /\ Len(F) >= Len(envs)
    BY <1>1, <1>4
  <2>2. \A d \in 1 .. Len(envs) : F[d].mod = envs[d].mod
    BY <1>3, <1>4
  <2>3. \A d \in 1 .. Len(envs) : envs[d].st = "done" =>
          F[d].st = "done" /\ \A n \in Name : IsGroup(envs[d].bind[n]) => IsGroup(F[d].bind[n])
    BY <1>4
  <2> QED BY <1>1, <1>5, <2>1, <2>2, <2>3 DEF Grown
<1>7. Others(envs, F, e)
  BY <1>4 DEF Others
<1>8. \A d \in 1 .. Len(F) : EnvOK(F, d)
  <2>1. \A b, s : BindingOK(envs, b, s) /\ b \in BindingRec => BindingOK(F, b, s)
    <3> SUFFICES ASSUME NEW b \in BindingRec, NEW s, BindingOK(envs, b, s) PROVE BindingOK(F, b, s)
      OBVIOUS
    <3>1. ASSUME b.val.k = "ref" PROVE b.val.env \in 1 .. Len(F) /\ Has(F, b.val.env, b.val.name)
      <4>1. b.val.name \in Name
        BY <3>1 DEF BindingRec, Slot, Held
      <4>2. b.val.env \in 1 .. Len(envs) /\ Has(envs, b.val.env, b.val.name)
        BY <3>1 DEF BindingOK
      <4> QED BY <4>1, <4>2, <1>4, <1>5
    <3> QED BY <3>1 DEF BindingOK
  <2>2. EnvOK(F, e)
    <3>1. \A n \in Name : BindingOK(envs, B[n], st) /\ B[n] \in BindingRec
      BY DEF MayBecome
    <3>2. st = "done" /\ e # 1 => Complete(F[e].mod, F[e].bind)
      BY <1>3, <1>4 DEF MayBecome
    <3> QED BY <1>3, <1>4, <2>1, <3>1, <3>2 DEF EnvOK
  <2>3. ASSUME NEW d \in 1 .. Len(envs), d # e PROVE EnvOK(F, d)
    <3>1. F[d] = envs[d] /\ EnvOK(envs, d) /\ \A n \in Name : envs[d].bind[n] \in BindingRec
      BY <2>3, <1>1, <1>4 DEF LoadInv, EnvRec
    <3> QED BY <2>1, <3>1 DEF EnvOK
  <2> QED BY <1>4, <2>2, <2>3
<1>9. Fills(e, F)
  BY <1>4, <1>6, <1>7, <1>8 DEF Fills
<1> QED BY <1>3, <1>4, <1>9 DEF F

LEMMA EnvType ==
  ASSUME LoadInv, NEW e \in 1 .. Len(envs)
  PROVE  /\ envs[e] \in EnvRec /\ envs[e].bind \in [Name -> BindingRec] /\ envs[e].mod \in Module
         /\ EnvOK(envs, e)
<1>1. envs[e] \in EnvRec
  BY SeqElements DEF LoadInv, Shape
<1> QED BY <1>1 DEF LoadInv, EnvRec

LEMMA BindType ==
  ASSUME LoadInv, NEW e \in 1 .. Len(envs), NEW n \in Name
  PROVE  /\ envs[e] \in EnvRec /\ envs[e].bind \in [Name -> BindingRec] /\ envs[e].mod \in Module
         /\ envs[e].bind[n] \in BindingRec /\ BindingOK(envs, envs[e].bind[n], envs[e].st)
<1>1. envs[e] \in EnvRec
  BY SeqElements DEF LoadInv, Shape
<1>2. EnvOK(envs, e)
  BY DEF LoadInv
<1> QED BY <1>1, <1>2 DEF EnvOK, EnvRec

LEMMA OverFns ==
  ASSUME NEW f \in Fns, NEW g \in Fns
  PROVE  Over(f, g) \in Fns /\ DOMAIN Over(f, g) = DOMAIN f \cup DOMAIN g
<1>1. PICK S \in SUBSET Nat : f \in [S -> Position]
  BY DEF Fns
<1>2. PICK T \in SUBSET Nat : g \in [T -> Position]
  BY DEF Fns
<1>3. Over(f, g) \in [S \cup T -> Position]
  BY <1>1, <1>2 DEF Over
<1>4. S \cup T \in SUBSET Nat
  OBVIOUS
<1> QED BY <1>1, <1>2, <1>3, <1>4 DEF Fns, Over

LEMMA RestrictFns ==
  ASSUME NEW f \in Fns, NEW S, S \subseteq DOMAIN f
  PROVE  Restrict(f, S) \in Fns /\ DOMAIN Restrict(f, S) = S
<1>1. PICK T \in SUBSET Nat : f \in [T -> Position]
  BY DEF Fns
<1>2. Restrict(f, S) \in [S -> Position] /\ S \in SUBSET Nat
  BY <1>1 DEF Restrict
<1> QED BY <1>2 DEF Fns

\* What can be bound: a value, or a function that is about to join a group.
Incoming(v) ==
  /\ v \in Held \cup [k : {"fn"}, sig : Nat, at : Position]
  /\ v.k # "uninit"
  /\ v.k = "ref" => v.env \in 1 .. Len(envs) /\ Has(envs, v.env, v.name)

LEMMA FnsOf ==
  ASSUME NEW v, Incoming(v), NEW b \in BindingRec
  PROVE  /\ Callable(v) => NewFns(v) \in Fns
         /\ OldFns(b) \in Fns /\ OldDelegates(b) \in SUBSET (Nat \X Name)
         /\ v.k # "none"
         /\ v.k # "fn" => v \in Slot
<1>1. v.k = "fn" => [sig \in {v.sig} |-> v.at] \in [{v.sig} -> Position] /\ {v.sig} \in SUBSET Nat
  BY DEF Incoming, Held
<1>2. v.k = "group" => v.fns \in Fns
  BY DEF Incoming, Held
<1>3. << >> \in [{} -> Position]
  OBVIOUS
<1>4. << >> \in Fns
  BY <1>3 DEF Fns
<1>5. b.val.k = "group" => b.val.fns \in Fns /\ b.val.delegates \in SUBSET (Nat \X Name)
  BY DEF BindingRec, Slot, Held
<1>6. Callable(v) => NewFns(v) \in Fns
  BY <1>1, <1>2 DEF Callable, NewFns, Fns
<1>7. v.k # "none" /\ (v.k # "fn" => v \in Slot)
  BY DEF Incoming, Held, Slot
<1> QED BY <1>4, <1>5, <1>6, <1>7 DEF OldFns, OldDelegates

\* A binding that has a value, in a module that is loading.
Settled(b) == b \in BindingRec /\ BindingOK(envs, b, "run") /\ b.val.k \notin {"none", "uninit"}

LEMMA DefinedOK ==
  ASSUME NEW b \in BindingRec, NEW v, Incoming(v), NEW mut \in BOOLEAN, NEW import \in BOOLEAN
  PROVE  Settled(Defined(b, v, mut, FALSE, import))
<1> DEFINE c == Defined(b, v, mut, FALSE, import)
           val == IF Callable(v) THEN Group(Over(NewFns(v), OldFns(b)), OldDelegates(b)) ELSE v
<1>1. val \in Slot /\ val.k \notin {"none", "uninit"} /\ (val.k = "ref" => val = v)
  <2>1. CASE Callable(v)
    <3> DEFINE f == Over(NewFns(v), OldFns(b))
               d == OldDelegates(b)
    <3>1. f \in Fns /\ d \in SUBSET (Nat \X Name)
      BY <2>1, FnsOf, OverFns
    <3>2. val = Group(f, d)
      BY <2>1
    <3> HIDE DEF f, d, val
    <3> QED BY <3>1, <3>2 DEF Group, Slot, Held
  <2>2. CASE ~Callable(v)
    <3>1. v.k # "fn" /\ v \in Slot /\ v.k # "none" /\ v.k # "uninit"
      BY <2>2, FnsOf DEF Callable, Incoming
    <3> QED BY <2>2, <3>1
  <2> QED BY <2>1, <2>2
<1>2. /\ c.val = val /\ c.export = FALSE /\ c.import = import
      /\ c.mut = IF b = NoBinding THEN mut ELSE b.mut
      /\ c = [val |-> c.val, mut |-> c.mut, export |-> c.export, import |-> c.import]
  BY DEF Defined
<1> HIDE DEF c, val
<1>3. c \in BindingRec
  <2>1. c.mut \in BOOLEAN
    BY <1>2 DEF BindingRec
  <2> QED BY <1>1, <1>2, <2>1 DEF BindingRec
<1>4. BindingOK(envs, c, "run")
  BY <1>1, <1>2 DEF BindingOK, Incoming
<1> QED BY <1>1, <1>2, <1>3, <1>4 DEF Settled, c

LEMMA RemainsOK ==
  ASSUME NEW b \in BindingRec, BindingOK(envs, b, "run"), NEW v, Incoming(v),
         NEW import \in BOOLEAN, Refused(b, v), NEW c \in Remains(b, v, import)
  PROVE  /\ c \in BindingRec /\ BindingOK(envs, c, "run")
         /\ b.val.k # "none" => c.val.k # "none"
         /\ b.val.k \notin {"none", "uninit"} => c.val.k \notin {"none", "uninit"}
<1>1. CASE Immutable(b, v)
  <2>1. c = b
    BY <1>1 DEF Remains
  <2> QED BY <2>1
<1>2. CASE ~Immutable(b, v)
  <2>1. Clashes(b, v)
    BY <1>2 DEF Refused
  <2>2. Callable(v) /\ b.val.k = "group" /\ OldFns(b) = b.val.fns
    <3>1. Callable(v) /\ DOMAIN NewFns(v) \cap DOMAIN OldFns(b) # {}
      BY <2>1 DEF Clashes
    <3>2. b.val.k = "group"
      <4> SUFFICES ASSUME b.val.k # "group" PROVE FALSE
        OBVIOUS
      <4>1. OldFns(b) = << >>
        BY DEF OldFns
      <4>2. DOMAIN OldFns(b) = {}
        BY <4>1
      <4> QED BY <3>1, <4>2
    <3> QED BY <3>1, <3>2 DEF OldFns
  <2>3. PICK sigs \in SUBSET (DOMAIN NewFns(v) \ DOMAIN OldFns(b)) :
          c = [b EXCEPT !.export = FALSE, !.import = import,
                        !.val.fns = Over(Restrict(NewFns(v), sigs), @)]
    BY <1>2 DEF Remains
  <2> DEFINE f == Over(Restrict(NewFns(v), sigs), b.val.fns)
             g == [b.val EXCEPT !.fns = f]
  <2>4. f \in Fns
    <3>1. NewFns(v) \in Fns /\ b.val.fns \in Fns
      BY <2>2, FnsOf
    <3>2. Restrict(NewFns(v), sigs) \in Fns
      BY <3>1, RestrictFns
    <3> QED BY <3>1, <3>2, OverFns
  <2> HIDE DEF f
  <2>5. /\ b.val \in [k : {"group"}, fns : Fns, delegates : SUBSET (Nat \X Name)]
        /\ b.mut \in BOOLEAN /\ b.export \in BOOLEAN /\ b.import \in BOOLEAN
    BY <2>2 DEF BindingRec, Slot, Held
  <2>6. g \in [k : {"group"}, fns : Fns, delegates : SUBSET (Nat \X Name)]
    BY <2>4, <2>5
  <2>7. g \in Slot /\ g.k = "group"
    BY <2>6 DEF Slot, Held
  <2>8. c = [b EXCEPT !.export = FALSE, !.import = import, !.val = g]
    BY <2>3, <2>5 DEF f, BindingRec
  <2> HIDE DEF g
  <2>9. c \in BindingRec /\ c.val = g /\ c.export = FALSE
    BY <2>7, <2>8 DEF BindingRec
  <2> QED BY <2>7, <2>9 DEF BindingOK
<1> QED BY <1>1, <1>2

\* A function joins the group that is there.
LEMMA OverloadOK ==
  ASSUME NEW b \in BindingRec, BindingOK(envs, b, "run"), NEW v, Incoming(v), v.k = "fn", IsGroup(b)
  PROVE  Settled([b EXCEPT !.val.fns = Over(NewFns(v), @)])
<1> DEFINE f == Over(NewFns(v), b.val.fns)
           g == [b.val EXCEPT !.fns = f]
           c == [b EXCEPT !.val.fns = Over(NewFns(v), @)]
<1>1. /\ b.val \in [k : {"group"}, fns : Fns, delegates : SUBSET (Nat \X Name)]
      /\ b.mut \in BOOLEAN /\ b.export \in BOOLEAN /\ b.import \in BOOLEAN
  BY DEF BindingRec, Slot, Held, IsGroup
<1>2. f \in Fns
  <2>1. NewFns(v) \in Fns
    BY FnsOf DEF Callable
  <2> QED BY <1>1, <2>1, OverFns
<1> HIDE DEF f
<1>3. g \in [k : {"group"}, fns : Fns, delegates : SUBSET (Nat \X Name)]
  BY <1>1, <1>2
<1>4. g \in Slot /\ g.k = "group"
  BY <1>3 DEF Slot, Held
<1>5. c = [b EXCEPT !.val = g]
  BY <1>1 DEF f, BindingRec
<1> HIDE DEF g, c
<1>6. c \in BindingRec /\ c.val = g /\ c.export = b.export
  BY <1>4, <1>5 DEF BindingRec
<1>7. BindingOK(envs, c, "run")
  BY <1>1, <1>4, <1>6 DEF BindingOK, IsGroup
<1> QED BY <1>4, <1>6, <1>7 DEF Settled, c

----------------------------------------------------------------------------
(* Following references *)

LEMMA LeastElement ==
  ASSUME NEW T, T \subseteq Nat, T # {}
  PROVE  \E m \in T : \A i \in T : m <= i
<1> DEFINE R == OpToRel(<, Nat)
<1>1. IsWellFoundedOn(R, Nat)
  BY NatLessThanWellFounded
<1>2. \A x, y \in Nat : x < y => <<x, y>> \in R
  BY DEF OpToRel
<1> HIDE DEF R
<1>3. PICK m \in T : \A i \in T : ~(<<i, m>> \in R)
  BY <1>1, WFMin
<1>4. \A i \in T : i \in Nat /\ m \in Nat /\ ~(i < m)
  BY <1>2, <1>3
<1>5. \A i \in T : m <= i
  BY <1>4
<1> QED BY <1>5

Follow(w) == IF w.k = "ref" THEN envs[w.env].bind[w.name].val ELSE w

\* f[i] is what i steps from v lead to.
IsChain(f, v, h) == f = [i \in 0 .. h |-> IF i = 0 THEN v ELSE Follow(f[i - 1])]

LEMMA ChainExists ==
  ASSUME NEW v, NEW h \in Nat
  PROVE  \E f : IsChain(f, v, h)
<1> DEFINE Bad == {i \in Nat : ~ \E f : IsChain(f, v, i)}
<1> SUFFICES ASSUME Bad # {} PROVE FALSE
  OBVIOUS
<1>1. PICK m \in Bad : \A i \in Bad : m <= i
  BY LeastElement
<1>2. m \in Nat /\ ~ \E f : IsChain(f, v, m)
  OBVIOUS
<1>3. CASE m = 0
  <2> DEFINE f == [i \in 0 .. 0 |-> v]
  <2>1. f = [i \in 0 .. 0 |-> IF i = 0 THEN v ELSE Follow(f[i - 1])]
    OBVIOUS
  <2> HIDE DEF f
  <2> QED BY <1>2, <1>3, <2>1 DEF IsChain
<1>4. CASE m # 0
  <2>1. m - 1 \in Nat /\ m - 1 \notin Bad
    BY <1>1, <1>2, <1>4
  <2>2. PICK f : IsChain(f, v, m - 1)
    BY <2>1
  <2> DEFINE g == [i \in 0 .. m |-> IF i = m THEN Follow(f[m - 1]) ELSE f[i]]
  <2>3. \A i \in 0 .. m - 1 : f[i] = IF i = 0 THEN v ELSE Follow(f[i - 1])
    BY <2>2 DEF IsChain
  <2>4. \A i \in 0 .. m : g[i] = IF i = 0 THEN v ELSE Follow(g[i - 1])
    <3> SUFFICES ASSUME NEW i \in 0 .. m PROVE g[i] = IF i = 0 THEN v ELSE Follow(g[i - 1])
      OBVIOUS
    <3>1. CASE i = m
      <4>1. g[i] = Follow(f[m - 1]) /\ i - 1 \in 0 .. m /\ i - 1 # m
        BY <1>2, <1>4, <3>1
      <4>2. g[i - 1] = f[m - 1]
        BY <4>1, <3>1
      <4> QED BY <1>4, <3>1, <4>1, <4>2
    <3>2. CASE i # m
      <4>1. g[i] = f[i] /\ i \in 0 .. m - 1
        BY <1>2, <3>2
      <4>2. CASE i = 0
        BY <2>3, <4>1, <4>2
      <4>3. CASE i # 0
        <5>1. i - 1 \in 0 .. m /\ i - 1 # m
          BY <1>2, <3>2, <4>3
        <5>2. g[i - 1] = f[i - 1]
          BY <5>1
        <5> QED BY <2>3, <4>1, <4>3, <5>2
      <4> QED BY <4>2, <4>3
    <3> QED BY <3>1, <3>2
  <2>5. IsChain(g, v, m)
    <3>1. g = [i \in 0 .. m |-> g[i]]
      OBVIOUS
    <3> HIDE DEF g
    <3> QED BY ONLY <2>4, <3>1 DEF IsChain
  <2> QED BY <1>2, <2>5
<1> QED BY <1>3, <1>4

\* What a binding that exists may hold, references included.
Sound(w) == /\ w \in Held
            /\ w.k = "ref" => w.env \in 1 .. Len(envs) /\ Has(envs, w.env, w.name)

LEMMA SlotSound ==
  ASSUME LoadInv, NEW e \in 1 .. Len(envs), NEW n \in Name, Has(envs, e, n)
  PROVE  Sound(envs[e].bind[n].val)
<1>1. envs[e].bind[n] \in BindingRec /\ BindingOK(envs, envs[e].bind[n], envs[e].st)
  BY BindType
<1> QED BY <1>1 DEF Sound, Has, BindingOK, BindingRec, Slot

LEMMA FollowSound ==
  ASSUME LoadInv, NEW w, Sound(w)
  PROVE  Sound(Follow(w)) /\ (w.k # "ref" => Follow(w) = w)
<1>1. CASE w.k = "ref"
  <2>1. w.env \in 1 .. Len(envs) /\ w.name \in Name /\ Has(envs, w.env, w.name)
    BY <1>1 DEF Sound, Held
  <2> QED BY <1>1, <2>1, SlotSound DEF Follow
<1>2. CASE w.k # "ref"
  BY <1>2 DEF Follow
<1> QED BY <1>1, <1>2

LEMMA HopsType ==
  ASSUME LoadInv
  PROVE  Hops \in Nat
<1>1. Len(envs) \in Nat
  BY LenProperties DEF LoadInv, Shape
<1>2. Cardinality(Name) \in Nat
  BY ModulesAssumption, FS_CardinalityType
<1> QED BY <1>1, <1>2 DEF Hops

LEMMA ResolveSound ==
  ASSUME LoadInv, NEW v, Sound(v)
  PROVE  Sound(Resolve(v)) /\ (v.k # "ref" => Resolve(v) = v)
<1> DEFINE f == CHOOSE f : IsChain(f, v, Hops)
<1>1. Resolve(v) = f[Hops]
  BY DEF Resolve, IsChain, Follow
<1>2. IsChain(f, v, Hops) /\ Hops \in Nat
  BY ChainExists, HopsType
<1> HIDE DEF f
<1>3. \A i \in 0 .. Hops : f[i] = IF i = 0 THEN v ELSE Follow(f[i - 1])
  BY <1>2 DEF IsChain
<1> DEFINE Bad == {i \in 0 .. Hops : ~(Sound(f[i]) /\ (v.k # "ref" => f[i] = v))}
<1>4. Bad = {}
  <2> SUFFICES ASSUME Bad # {} PROVE FALSE
    OBVIOUS
  <2>1. PICK m \in Bad : \A i \in Bad : m <= i
    <3>1. Bad \subseteq Nat /\ Bad # {}
      BY <1>2
    <3> HIDE DEF Bad
    <3> QED BY <3>1, LeastElement
  <2>2. m \in 0 .. Hops /\ ~(Sound(f[m]) /\ (v.k # "ref" => f[m] = v))
    OBVIOUS
  <2>3. CASE m = 0
    BY <1>3, <2>2, <2>3
  <2>4. CASE m # 0
    <3>1. m - 1 \in 0 .. Hops /\ m - 1 \notin Bad
      BY <1>2, <2>1, <2>2, <2>4
    <3>2. Sound(f[m - 1]) /\ (v.k # "ref" => f[m - 1] = v)
      BY <3>1
    <3>3. f[m] = Follow(f[m - 1])
      BY <1>3, <2>2, <2>4
    <3> HIDE DEF Bad
    <3> QED BY <2>2, <3>2, <3>3, FollowSound
  <2> QED BY <2>3, <2>4
<1>5. Hops \in 0 .. Hops
  BY <1>2
<1> QED BY <1>1, <1>4, <1>5

----------------------------------------------------------------------------
(* Every step preserves the invariant *)

LEMMA SetTopKeeps ==
  ASSUME LoadInv, NEW p \in Proc, stack[p] # <<>>, NEW a \in ActRec, a.env = Top(p).env,
         SetTop(p, a), UNCHANGED <<program, fatal>>, Fills(Top(p).env, envs'),
         cache' = cache, failing' \in {failing, failing \cup {p}, failing \ {p}},
         a.stage \notin {"load", "declare"}, ActOK(envs', p, a)
  PROVE  LoadInv'
<1>1. Shape
  BY DEF LoadInv
<1>2. cache' \in [Module -> 0 .. Len(envs')]
  <2>1. Len(envs) \in Nat /\ Len(envs') \in Nat /\ Len(envs) <= Len(envs')
    BY DEF Fills, Grown
  <2>2. 0 .. Len(envs) \subseteq 0 .. Len(envs')
    BY <2>1
  <2> QED BY <1>1, <2>2 DEF Shape
<1>3. failing' \subseteq Proc /\ \A q \in Proc : q # p => (q \in failing' <=> q \in failing)
  BY <1>1 DEF Shape
<1>4. fatal' \in BOOLEAN
  BY <1>1 DEF Shape
<1> QED BY <1>2, <1>3, <1>4, TopStep DEF SetTop

LEMMA Restage ==
  ASSUME NEW F, NEW p, NEW a, NEW b, ActOK(F, p, a), a.stage # "declare", b.stage # "declare",
         b.env = a.env, b.pc = a.pc, b.temp = a.temp, b.got \in 0 .. Len(F),
         b.stage \in Importing => /\ a.pc \in DOMAIN Source(F, p, a)
                                  /\ Source(F, p, a)[a.pc].op \in {"star", "named", "try"},
         b.stage \in Loading => b.todo # <<>>,
         b.stage = "merge" => b.got # 0
  PROVE  ActOK(F, p, b)
<1>1. Source(F, p, b) = Source(F, p, a)
  BY DEF Source
<1>2. Executed(F, p, b)
  BY <1>1 DEF ActOK, Executed
<1> QED BY <1>1, <1>2 DEF ActOK

LEMMA ImportKeeps ==
  ASSUME LoadInv, NEW p \in Proc, Import(p)
  PROVE  LoadInv'
<1> DEFINE a == Top(p)
           b == [a EXCEPT !.stage = "check", !.todo = Current(p).from]
<1>1. stack[p] # <<>> /\ a.stage = "exec" /\ a.pc <= Len(Code(p)) /\ Current(p).op \in {"star", "named", "try"}
  BY DEF Import, Stage, Active
<1>2. /\ a \in ActRec /\ ActOK(envs, p, a) /\ Code(p) = Source(envs, p, a)
      /\ DOMAIN Code(p) = 1 .. Len(Code(p)) /\ Len(Code(p)) \in Nat
      /\ \A i \in DOMAIN Code(p) : Code(p)[i] \in Stmt
  BY <1>1, TopFacts
<1>3. a.pc \in DOMAIN Code(p)
  BY <1>1, <1>2 DEF ActRec
<1>4. Current(p).from \in Seq(Module) /\ Current(p).from # <<>>
  BY <1>1, <1>2, <1>3, StmtFields DEF Current
<1>5. /\ b \in ActRec /\ b.env = a.env /\ b.pc = a.pc /\ b.temp = a.temp /\ b.got = a.got /\ b.stage = "check"
      /\ b.todo = Current(p).from
  BY <1>2, <1>4 DEF ActRec, Importing, Loading
<1>6. SetTop(p, b) /\ UNCHANGED <<program, fatal, cache, failing, envs>>
  BY DEF Import
<1> HIDE DEF a, b
<1>7. ActOK(envs, p, b)
  <2>1. a.got \in 0 .. Len(envs)
    BY <1>2 DEF ActOK
  <2>2. Source(envs, p, a)[a.pc].op \in {"star", "named", "try"} /\ a.pc \in DOMAIN Source(envs, p, a)
    BY <1>1, <1>2, <1>3 DEF Current, a
  <2> QED BY <1>1, <1>2, <1>4, <1>5, <2>1, <2>2, Restage DEF Loading
<1>8. Fills(a.env, envs') /\ ActOK(envs', p, b)
  BY <1>6, <1>7, FillsSame
<1> QED BY <1>1, <1>5, <1>6, <1>8, SetTopKeeps DEF a

LEMMA CheckCacheKeeps ==
  ASSUME LoadInv, NEW p \in Proc, CheckCache(p)
  PROVE  LoadInv'
<1> DEFINE a == Top(p)
           e == cache[Head(a.todo)]
           b == [a EXCEPT !.stage = IF e = 0 THEN "put" ELSE "merge", !.got = e]
<1>1. stack[p] # <<>> /\ a.stage = "check"
  BY DEF CheckCache, Stage, Active
<1>2. a \in ActRec /\ ActOK(envs, p, a) /\ Shape
  BY <1>1, TopFacts
<1>3. a.todo # <<>> /\ a.todo \in Seq(Module)
  BY <1>1, <1>2 DEF ActOK, ActRec, Loading
<1>4. e \in 0 .. Len(envs)
  <2>1. Head(a.todo) \in Module
    BY <1>3, HeadTailProperties
  <2> QED BY <1>2, <2>1 DEF Shape
<1>5. SetTop(p, b) /\ UNCHANGED <<program, fatal, cache, failing, envs>>
  BY DEF CheckCache
<1>6. Len(envs) \in Nat
  BY <1>1, TopFacts
<1> HIDE DEF e
<1>7. /\ b \in ActRec /\ b.env = a.env /\ b.pc = a.pc /\ b.temp = a.temp /\ b.got = e
      /\ b.stage \in {"put", "merge"} /\ b.todo = a.todo /\ (b.stage = "merge" => e # 0)
  <2> DEFINE st == IF e = 0 THEN "put" ELSE "merge"
  <2>1. b = [a EXCEPT !.stage = st, !.got = e] /\ e \in Nat
    BY <1>4, <1>6
  <2>2. st \in {"put", "merge"} /\ (st = "merge" => e # 0)
    OBVIOUS
  <2> HIDE DEF st, b, a
  <2> QED BY <1>2, <2>1, <2>2 DEF ActRec, Importing, Loading
<1> HIDE DEF a, b
<1>8. ActOK(envs, p, b)
  <2>1. Source(envs, p, a)[a.pc].op \in {"star", "named", "try"} /\ a.pc \in DOMAIN Source(envs, p, a)
    BY <1>1, <1>2 DEF ActOK, Importing, Loading
  <2> QED BY <1>1, <1>2, <1>3, <1>4, <1>7, <2>1, Restage DEF Loading
<1>9. Fills(a.env, envs') /\ ActOK(envs', p, b)
  BY <1>5, <1>8, FillsSame
<1> QED BY <1>1, <1>5, <1>7, <1>9, SetTopKeeps DEF a

LEMMA FailSameKeeps ==
  ASSUME LoadInv, NEW p \in Proc, stack[p] # <<>>, Top(p).stage # "declare",
         Fails(p), UNCHANGED <<program, cache, envs, stack, fatal>>
  PROVE  LoadInv'
<1>1. Top(p).env # 0 => envs'[Top(p).env].st = "run"
  BY TopFacts DEF ActOK
<1>2. Fills(Top(p).env, envs')
  BY FillsSame
<1> QED BY <1>1, <1>2, FailKeeps

LEMMA IgnoreImportKeeps ==
  ASSUME LoadInv, NEW p \in Proc, IgnoreImport(p)
  PROVE  LoadInv'
<1> DEFINE a == Top(p)
           b == GoOn(a)
<1>1. stack[p] # <<>> /\ a.stage = "bind" /\ Current(p).op = "try"
  BY DEF IgnoreImport, Stage, Active
<1>2. a \in ActRec /\ ActOK(envs, p, a) /\ Shape /\ Code(p) = Source(envs, p, a)
  BY <1>1, TopFacts
<1>3. a.pc \in DOMAIN Source(envs, p, a) /\ Source(envs, p, a)[a.pc].op = "try"
  BY <1>1, <1>2 DEF ActOK, Importing, Current
<1>4. SetTop(p, b) /\ UNCHANGED <<program, fatal, cache, failing, envs>>
  BY DEF IgnoreImport
<1> HIDE DEF a
<1>5. b \in ActRec /\ b.env = a.env /\ b.stage = "exec" /\ ActOK(envs, p, b)
  BY <1>1, <1>2, <1>3, GoOnOK
<1> HIDE DEF b
<1>6. Fills(a.env, envs') /\ ActOK(envs', p, b)
  BY <1>4, <1>5, FillsSame
<1> QED BY <1>1, <1>4, <1>5, <1>6, SetTopKeeps DEF a

\* The value of a binding that a "use" reads.
LEMMA UseKeeps ==
  ASSUME LoadInv, NEW p \in Proc, Use(p)
  PROVE  LoadInv'
<1> DEFINE a == Top(p)
           n == Current(p).name
           v == Binding(p, n).val
<1>1. stack[p] # <<>> /\ a.stage = "exec" /\ a.pc <= Len(Code(p)) /\ Current(p).op = "use"
  BY DEF Use, At, Stage, Active
<1>2. /\ a \in ActRec /\ ActOK(envs, p, a) /\ Shape /\ Code(p) = Source(envs, p, a)
      /\ DOMAIN Code(p) = 1 .. Len(Code(p)) /\ Len(Code(p)) \in Nat
      /\ \A i \in DOMAIN Code(p) : Code(p)[i] \in Stmt /\ (a.env = 0 => Code(p)[i].op = "try")
      /\ Len(envs) \in Nat
  BY <1>1, TopFacts
<1>3. a.pc \in DOMAIN Code(p) /\ Current(p) = Code(p)[a.pc]
  BY <1>1, <1>2 DEF ActRec, Current
<1>4. n \in Name /\ a.env # 0 /\ Current(p) \in Stmt
  BY <1>1, <1>2, <1>3, StmtFields
<1>5. a.env \in 1 .. Len(envs)
  BY <1>2, <1>4 DEF ActOK
<1>6. v # NoValue => Sound(v)
  <2>1. envs[a.env].bind[n] \in BindingRec
    BY <1>4, <1>5, BindType
  <2>2. v # NoValue => v.k # "none"
    BY <2>1 DEF BindingRec, Slot, Held, NoValue, Binding
  <2> QED BY <1>4, <1>5, <2>2, SlotSound DEF Has, Binding
<1>7. UNCHANGED <<program, fatal, cache, envs>>
  BY DEF Use
<1>8. PICK b : /\ SetTop(p, b) /\ failing' \in {failing, failing \cup {p}}
               /\ \/ b = [a EXCEPT !.last = IF v = NoValue THEN "notFound" ELSE "early"]
                  \/ b = [a EXCEPT !.stage = "spin"]
                  \/ v # NoValue /\ Resolve(v).k # "ref" /\ b = [GoOn(a) EXCEPT !.last = Resolve(v).k]
  <2>1. CASE v = NoValue \/ Faults(v)
    BY <2>1 DEF Use, Fails
  <2>2. CASE ~(v = NoValue \/ Faults(v)) /\ Resolve(v).k = "ref"
    BY <2>2 DEF Use
  <2>3. CASE ~(v = NoValue \/ Faults(v)) /\ Resolve(v).k # "ref"
    BY <2>3 DEF Use
  <2> QED BY <2>1, <2>2, <2>3
<1> HIDE DEF v, a
<1>9. b \in ActRec /\ b.env = a.env /\ b.stage \notin {"load", "declare"} /\ ActOK(envs, p, b)
  <2>1. CASE b = [a EXCEPT !.last = IF v = NoValue THEN "notFound" ELSE "early"]
    <3>1. /\ b \in ActRec /\ b.env = a.env /\ b.pc = a.pc /\ b.temp = a.temp /\ b.got = a.got
          /\ b.stage = "exec"
      BY <2>1, <1>1, <1>2 DEF ActRec
    <3>2. b.got \in 0 .. Len(envs)
      BY <1>2, <3>1 DEF ActOK
    <3> QED BY <1>1, <1>2, <3>1, <3>2, Restage DEF Importing, Loading
  <2>2. CASE b = [a EXCEPT !.stage = "spin"]
    <3>1. /\ b \in ActRec /\ b.env = a.env /\ b.pc = a.pc /\ b.temp = a.temp /\ b.got = a.got
          /\ b.stage = "spin"
      BY <2>2, <1>2 DEF ActRec
    <3>2. b.got \in 0 .. Len(envs)
      BY <1>2, <3>1 DEF ActOK
    <3> QED BY <1>1, <1>2, <3>1, <3>2, Restage DEF Importing, Loading
  <2>3. CASE v # NoValue /\ Resolve(v).k # "ref" /\ b = [GoOn(a) EXCEPT !.last = Resolve(v).k]
    <3> DEFINE g == GoOn(a)
    <3>1. g \in ActRec /\ g.env = a.env /\ g.stage = "exec" /\ ActOK(envs, p, g)
      BY <1>1, <1>2, <1>3, GoOnOK
    <3>2. Resolve(v).k \in {"uninit", "nil", "lit", "group"}
      BY <2>3, <1>6, ResolveSound DEF Sound, Held
    <3>3. b = [g EXCEPT !.last = Resolve(v).k]
      BY <2>3
    <3> HIDE DEF g
    <3>4. /\ b \in ActRec /\ b.env = g.env /\ b.pc = g.pc /\ b.temp = g.temp /\ b.got = g.got
          /\ b.stage = "exec"
      BY <3>1, <3>2, <3>3 DEF ActRec
    <3>5. b.got \in 0 .. Len(envs)
      BY <3>1, <3>4 DEF ActOK
    <3>6. ActOK(envs, p, b)
      BY <3>1, <3>4, <3>5, Restage DEF Importing, Loading
    <3> QED BY <3>1, <3>4, <3>6
  <2> QED BY <1>8, <2>1, <2>2, <2>3
<1>10. Fills(a.env, envs') /\ ActOK(envs', p, b)
  BY <1>7, <1>9, FillsSame
<1> QED BY <1>1, <1>7, <1>8, <1>9, <1>10, SetTopKeeps DEF a

----------------------------------------------------------------------------
(* A module is made, and its names are declared *)

LEMMA BindingKept ==
  ASSUME NEW E, NEW F, Grown(E, F), NEW b \in BindingRec, NEW st, BindingOK(E, b, st)
  PROVE  BindingOK(F, b, st)
<1>1. ASSUME b.val.k = "ref" PROVE b.val.env \in 1 .. Len(F) /\ Has(F, b.val.env, b.val.name)
  <2>1. b.val.name \in Name
    BY <1>1 DEF BindingRec, Slot, Held
  <2>2. b.val.env \in 1 .. Len(E) /\ Has(E, b.val.env, b.val.name)
    BY <1>1 DEF BindingOK
  <2> QED BY <2>1, <2>2 DEF Grown
<1> QED BY <1>1 DEF BindingOK

LEMMA NoBindingOK ==
  ASSUME NEW E, NEW st
  PROVE  NoBinding \in BindingRec /\ BindingOK(E, NoBinding, st)
<1>1. NoValue \in Slot
  BY DEF NoValue, Slot
<1> QED BY <1>1 DEF NoBinding, NoValue, BindingRec, BindingOK

LEMMA NewEnv ==
  ASSUME LoadInv, NEW m \in Module, NEW d,
         NEW F, F = Append(envs, [mod |-> m, bind |-> Empty, st |-> "run"])
  PROVE  /\ Fills(d, F) /\ Len(F) = Len(envs) + 1
         /\ F[Len(envs) + 1].bind = Empty /\ F[Len(envs) + 1].st = "run" /\ F[Len(envs) + 1].mod = m
<1> DEFINE new == [mod |-> m, bind |-> Empty, st |-> "run"]
           n == Len(envs)
<1>1. new \in EnvRec /\ new.mod = m /\ new.bind = Empty /\ new.st = "run"
  BY NoBindingOK DEF EnvRec, Empty
<1>2. envs \in Seq(EnvRec) /\ n \in Nat /\ \A e \in 1 .. n : envs[e] \in EnvRec /\ EnvOK(envs, e)
  BY SeqElements DEF LoadInv, Shape
<1>3. F = Append(envs, new)
  OBVIOUS
<1> HIDE DEF new
<1>4. F \in Seq(EnvRec) /\ Len(F) = n + 1 /\ (\A e \in 1 .. n : F[e] = envs[e]) /\ F[n + 1] = new
  BY <1>1, <1>2, <1>3, AppendParts
<1>5. Grown(envs, F)
  BY <1>2, <1>4 DEF Grown, Has, Ready
<1>6. Others(envs, F, d)
  BY <1>4 DEF Others
<1>7. \A e \in 1 .. Len(F) : EnvOK(F, e)
  <2> SUFFICES ASSUME NEW e \in 1 .. n + 1 PROVE EnvOK(F, e)
    BY <1>4
  <2>1. CASE e = n + 1
    <3>1. \A x \in Name : F[e].bind[x] = NoBinding
      BY <2>1, <1>1, <1>4 DEF Empty
    <3> QED BY <2>1, <3>1, <1>1, <1>4, NoBindingOK DEF EnvOK
  <2>2. CASE e # n + 1
    <3>1. e \in 1 .. n
      BY <2>2, <1>2
    <3>2. F[e] = envs[e] /\ EnvOK(envs, e) /\ \A x \in Name : envs[e].bind[x] \in BindingRec
      BY <3>1, <1>2, <1>4 DEF EnvRec
    <3>3. \A x \in Name : BindingOK(F, F[e].bind[x], F[e].st)
      BY <1>5, <3>2, BindingKept DEF EnvOK
    <3> QED BY <3>2, <3>3 DEF EnvOK
  <2> QED BY <2>1, <2>2
<1> QED BY <1>1, <1>4, <1>5, <1>6, <1>7 DEF Fills

LEMMA PutKeeps ==
  ASSUME LoadInv, NEW p \in Proc, Put(p)
  PROVE  LoadInv'
<1> DEFINE a == Top(p)
           t == stack[p]
           n == Len(t)
           m == Head(a.todo)
           e == Len(envs) + 1
           b == [a EXCEPT !.stage = "load"]
           new == Activation(e, "declare")
           s == Append(Append(Front(t), b), new)
<1>1. t # <<>> /\ a.stage = "put" /\ p \notin failing
  BY DEF Put, Stage, Active
<1>2. /\ Shape /\ t \in Seq(ActRec) /\ envs \in Seq(EnvRec) /\ Len(envs) \in Nat
      /\ n \in Nat /\ n >= 1 /\ a = t[n] /\ a \in ActRec /\ ActOK(envs, p, a)
      /\ DOMAIN t = 1 .. n /\ Alone /\ StackOK(envs, p \in failing, p, t)
  BY <1>1, TopFacts, SeqElements DEF LoadInv
<1>3. m \in Module
  <2>1. a.todo # <<>> /\ a.todo \in Seq(Module)
    BY <1>1, <1>2 DEF ActOK, ActRec, Loading
  <2> QED BY <2>1, HeadTailProperties
<1>4. /\ cache' = [cache EXCEPT ![m] = e] /\ UNCHANGED <<program, failing, fatal>>
      /\ envs' = Append(envs, [mod |-> m, bind |-> Empty, st |-> "run"])
      /\ stack' = [stack EXCEPT ![p] = s]
  BY DEF Put, Cached
<1>5. \A d : Fills(d, envs')
  BY <1>3, <1>4, NewEnv
<1>6. Len(envs') = e /\ envs'[e].bind = Empty /\ envs'[e].st = "run"
  BY <1>3, <1>4, NewEnv
<1>7. cache' \in [Module -> 0 .. Len(envs')]
  <2>1. cache \in [Module -> 0 .. Len(envs)] /\ 0 .. Len(envs) \subseteq 0 .. e /\ e \in 0 .. e
    BY <1>2 DEF Shape
  <2> HIDE DEF e, m
  <2> QED BY <1>4, <1>6, <2>1
<1>8. /\ b \in ActRec /\ b.env = a.env /\ b.pc = a.pc /\ b.temp = a.temp /\ b.got = a.got
      /\ b.stage = "load" /\ b.todo = a.todo
  BY <1>2 DEF ActRec, Importing, Loading
<1>9. new \in ActRec /\ new.env = e /\ new.stage = "declare" /\ new.pc = 1 /\ new.got = 0 /\ new.temp = NoTemp
  <2>1. NoTemp \in [Name -> Collected] /\ <<>> \in Seq(Module) /\ e \in Nat
    BY <1>2 DEF NoTemp, NoValue, Collected
  <2> HIDE DEF e
  <2> QED BY <2>1 DEF Activation, ActRec
<1> HIDE DEF b, new
<1>10. /\ s \in Seq(ActRec) /\ s # <<>> /\ Len(s) = n + 1 /\ DOMAIN s = 1 .. n + 1
       /\ \A i \in 1 .. n - 1 : s[i] = t[i]
       /\ s[n] = b /\ s[n + 1] = new
  <2> DEFINE r == Append(Front(t), b)
  <2> HIDE DEF a, t
  <2>1. /\ r \in Seq(ActRec) /\ Len(r) = n /\ (\A i \in 1 .. n - 1 : r[i] = t[i]) /\ r[n] = b
    BY <1>1, <1>2, <1>8, ReplaceTop DEF t
  <2> HIDE DEF r
  <2>2. /\ Append(r, new) \in Seq(ActRec) /\ Append(r, new) # <<>>
        /\ Len(Append(r, new)) = n + 1 /\ DOMAIN Append(r, new) = 1 .. n + 1
        /\ \A i \in 1 .. n : Append(r, new)[i] = r[i]
        /\ Append(r, new)[n + 1] = new
    BY <1>9, <2>1, AppendParts
  <2>3. \A i \in 1 .. n - 1 : i \in 1 .. n
    BY <1>2
  <2>4. n \in 1 .. n
    BY <1>2
  <2> DEFINE u == Append(r, new)
  <2>5. s = u
    BY DEF r
  <2> HIDE DEF u, n, s
  <2>6. u[n] = b /\ \A i \in 1 .. n - 1 : u[i] = t[i]
    BY <2>1, <2>2, <2>3, <2>4 DEF u
  <2> QED BY <2>2, <2>5, <2>6 DEF u
<1> HIDE DEF s
<1>11. ActOK(envs', p, b)
  <2>1. ActOK(envs, p, b)
    <3>1. Source(envs, p, a)[a.pc].op \in {"star", "named", "try"} /\ a.pc \in DOMAIN Source(envs, p, a)
          /\ a.todo # <<>> /\ a.got \in 0 .. Len(envs)
      BY <1>1, <1>2 DEF ActOK, Importing, Loading
    <3> HIDE DEF a
    <3> QED BY <1>1, <1>2, <1>8, <3>1, Restage
  <2>2. b.env # 0 => envs'[b.env].st = envs[b.env].st
    <3>1. b.env # 0 => b.env \in 1 .. Len(envs) /\ b.env # e
      BY <1>2, <2>1 DEF ActOK
    <3>2. Others(envs, envs', e)
      BY <1>5 DEF Fills
    <3> QED BY <3>1, <3>2 DEF Others
  <2>3. Grown(envs, envs')
    BY <1>5 DEF Fills
  <2> QED BY <1>2, <1>8, <2>1, <2>2, <2>3, ActStays
<1>12. ActOK(envs', p, new)
  <2>1. \A x \in Name : CollectedOK(envs', new.temp[x]) /\ new.temp[x].k = "none"
    BY <1>9 DEF NoTemp, NoValue, CollectedOK
  <2>2. e \in 0 .. Len(envs') /\ 0 \in 0 .. Len(envs') /\ e # 0
    BY <1>2, <1>6
  <2> QED BY <1>6, <1>9, <2>1, <2>2 DEF ActOK, Importing, Loading
<1>13. \A i \in 1 .. n - 1 :
           /\ ActOK(envs', p, t[i]) /\ t[i].stage = "load"
           /\ i = 1 => t[i].env = IF p = Main THEN 1 ELSE 0
           /\ i > 1 => t[i].env > 1
  BY <1>1, <1>5, LowerKept
<1>14. /\ \A i \in 1 .. n : s[i].env = t[i].env /\ t[i].env \in 0 .. Len(envs)
       /\ s[n + 1].env = e
  <2>1. \A i \in 1 .. n : t[i].env \in 0 .. Len(envs)
    BY <1>2 DEF StackOK, ActOK
  <2>2. \A i \in 1 .. n : s[i].env = t[i].env
    BY <1>2, <1>8, <1>10
  <2> QED BY <1>9, <1>10, <2>1, <2>2
<1>15. Follows(p, s)
  <2>1. ASSUME NEW i \in 1 .. n + 1, NEW j \in 1 .. n + 1, s[i].env # 0, s[i].env = s[j].env
        PROVE  i = j
    <3>1. CASE i \in 1 .. n /\ j \in 1 .. n
      BY <1>2, <1>14, <2>1, <3>1 DEF Alone
    <3>2. CASE i = n + 1 \/ j = n + 1
      <4>1. (i \in 1 .. n \/ i = n + 1) /\ (j \in 1 .. n \/ j = n + 1)
        BY <1>2
      <4> QED BY <1>2, <1>14, <2>1, <3>2, <4>1
    <3> QED BY <1>2, <3>1, <3>2
  <2>2. \A i \in 1 .. n + 1 : (\E j \in 1 .. n : t[j].env = s[i].env) \/ s[i].env > Len(envs)
    <3> SUFFICES ASSUME NEW i \in 1 .. n + 1
                 PROVE  (\E j \in 1 .. n : t[j].env = s[i].env) \/ s[i].env > Len(envs)
      OBVIOUS
    <3>1. i \in 1 .. n \/ i = n + 1
      BY <1>2
    <3> QED BY <1>2, <1>14, <3>1
  <2> QED BY <1>2, <1>10, <2>1, <2>2 DEF Follows
<1>16. StackOK(envs', p \in failing', p, s)
  <2> SUFFICES ASSUME NEW i \in 1 .. n + 1
               PROVE  /\ ActOK(envs', p, s[i])
                      /\ i < n + 1 => s[i].stage = "load"
                      /\ i = n + 1 /\ s[i].stage = "load" => p \in failing'
                      /\ i = n + 1 /\ s[i].stage = "declare" => p \notin failing'
                      /\ i = 1 => s[i].env = IF p = Main THEN 1 ELSE 0
                      /\ i > 1 => s[i].env > 1
    BY <1>10 DEF StackOK
  <2>1. CASE i \in 1 .. n - 1
    BY <2>1, <1>2, <1>10, <1>13
  <2>2. CASE i = n
    BY <2>2, <1>2, <1>8, <1>10, <1>11 DEF StackOK
  <2>3. CASE i = n + 1
    <3>1. Len(envs) >= 1
      BY <1>2 DEF Shape
    <3> QED BY <2>3, <3>1, <1>1, <1>2, <1>4, <1>9, <1>10, <1>12
  <2>4. i \in 1 .. n - 1 \/ i = n \/ i = n + 1
    BY <1>2
  <2> QED BY <2>1, <2>2, <2>3, <2>4
<1>17. /\ failing' \subseteq Proc /\ \A q \in Proc : q # p => (q \in failing' <=> q \in failing)
       /\ fatal' \in BOOLEAN
  BY <1>2, <1>4 DEF Shape
<1>18. Fills(0, envs') /\ Own(p, 0)
  BY <1>5 DEF Own
<1>19. program' = program /\ stack' = [stack EXCEPT ![p] = s] /\ p \in failing' => s # <<>>
  BY <1>4, <1>10
<1> QED BY <1>4, <1>7, <1>10, <1>15, <1>16, <1>17, <1>18, <1>19, LoadStep

\* A set of positions has a first and a last one.
LEMMA Ends ==
  ASSUME NEW n \in Nat, NEW I \in SUBSET (1 .. n), I # {}
  PROVE  (\E i \in I : \A j \in I : i <= j) /\ (\E i \in I : \A j \in I : i >= j)
<1>1. \E i \in I : \A j \in I : i <= j
  <2>1. I \subseteq Nat
    OBVIOUS
  <2> QED BY <2>1, LeastElement
<1>2. \E i \in I : \A j \in I : i >= j
  <2> DEFINE T == {n - i : i \in I}
  <2>1. T \subseteq Nat /\ T # {}
    <3>1. \A i \in I : n - i \in Nat
      OBVIOUS
    <3>2. PICK i \in I : TRUE
      OBVIOUS
    <3>3. n - i \in T
      OBVIOUS
    <3> QED BY <3>1, <3>3
  <2> HIDE DEF T
  <2>2. PICK m \in T : \A x \in T : m <= x
    BY <2>1, LeastElement
  <2> USE DEF T
  <2>3. PICK i \in I : m = n - i
    OBVIOUS
  <2>4. ASSUME NEW j \in I PROVE i >= j
    <3>1. n - j \in T
      OBVIOUS
    <3>2. m <= n - j /\ i \in 1 .. n /\ j \in 1 .. n
      BY <2>2, <3>1
    <3> HIDE DEF T
    <3> QED BY <2>3, <3>2
  <2> QED BY <2>4
<1> QED BY <1>1, <1>2

LEMMA PredeclaredOK ==
  ASSUME Shape, NEW m \in Module, NEW n \in Name
  PROVE  Predeclared(m, n) \in BindingRec /\ BindingOK(envs, Predeclared(m, n), "run")
<1>1. CASE Decls(m, n) = {}
  BY <1>1, NoBindingOK DEF Predeclared
<1>2. CASE Decls(m, n) # {}
  <2> DEFINE D == Decls(m, n)
             first == CHOOSE i \in D : \A j \in D : i <= j
             last == CHOOSE i \in D : \A j \in D : i >= j
  <2>1. program[m] \in Seq(Stmt)
    BY DEF Shape
  <2>2. /\ Len(program[m]) \in Nat /\ D \in SUBSET (1 .. Len(program[m]))
        /\ \A i \in D : program[m][i] \in Stmt /\ program[m][i].op \in {"decl", "named"}
    BY <2>1, SeqElements DEF Decls
  <2> HIDE DEF D
  <2>3. first \in D /\ last \in D
    BY <1>2, <2>2, Ends DEF D
  <2>4. program[m][first].mut \in BOOLEAN /\ program[m][last].export \in BOOLEAN
    BY <2>2, <2>3, StmtFields
  <2>5. Predeclared(m, n) = [val |-> Uninit, import |-> FALSE, mut |-> program[m][first].mut,
                             export |-> program[m][last].export]
    BY <1>2 DEF Predeclared, D
  <2> HIDE DEF first, last
  <2>6. Uninit \in Slot /\ Uninit.k = "uninit"
    BY DEF Uninit, Slot, Held
  <2> QED BY <2>4, <2>5, <2>6 DEF BindingRec, BindingOK
<1> QED BY <1>1, <1>2

LEMMA BindIsWith ==
  ASSUME LoadInv, NEW e \in 1 .. Len(envs), NEW B
  PROVE  [envs EXCEPT ![e].bind = B] = With(e, B, envs[e].st)
<1>1. envs \in Seq(EnvRec) /\ envs[e] \in EnvRec
  BY EnvType DEF LoadInv, Shape
<1>2. [envs[e] EXCEPT !.bind = B] = [mod |-> envs[e].mod, bind |-> B, st |-> envs[e].st]
  BY <1>1 DEF EnvRec
<1> QED BY <1>2 DEF With

LEMMA StateIsWith ==
  ASSUME LoadInv, NEW e \in 1 .. Len(envs), NEW st
  PROVE  [envs EXCEPT ![e].st = st] = With(e, envs[e].bind, st)
<1>1. envs \in Seq(EnvRec) /\ envs[e] \in EnvRec
  BY EnvType DEF LoadInv, Shape
<1>2. [envs[e] EXCEPT !.st = st] = [mod |-> envs[e].mod, bind |-> envs[e].bind, st |-> st]
  BY <1>1 DEF EnvRec
<1> QED BY <1>2 DEF With

LEMMA DoneIsWith ==
  ASSUME LoadInv, NEW e \in 1 .. Len(envs), NEW B
  PROVE  [envs EXCEPT ![e].st = "done", ![e].bind = B] = With(e, B, "done")
<1>1. envs[e] \in EnvRec /\ e \in DOMAIN envs
  BY EnvType, SeqElements DEF LoadInv, Shape
<1> DEFINE F == [envs EXCEPT ![e].st = "done"]
           r == envs[e]
           q == [mod |-> r.mod, bind |-> r.bind, st |-> "done"]
<1>2. [r EXCEPT !.st = "done"] = q
  <2> HIDE DEF r
  <2> QED BY <1>1 DEF EnvRec, r
<1>3. [q EXCEPT !.bind = B] = [mod |-> r.mod, bind |-> B, st |-> "done"]
  <2> HIDE DEF r
  <2> QED OBVIOUS
<1>4. F[e] = q /\ [envs EXCEPT ![e].st = "done", ![e].bind = B] = [F EXCEPT ![e].bind = B]
  BY <1>1, <1>2
<1> HIDE DEF q
<1>5. [F EXCEPT ![e].bind = B] = [F EXCEPT ![e] = [F[e] EXCEPT !.bind = B]]
  OBVIOUS
<1>6. [F EXCEPT ![e] = [F[e] EXCEPT !.bind = B]] = [envs EXCEPT ![e] = [F[e] EXCEPT !.bind = B]]
  OBVIOUS
<1> HIDE DEF F
<1> QED BY <1>3, <1>4, <1>5, <1>6 DEF With, r

LEMMA DeclareKeeps ==
  ASSUME LoadInv, NEW p \in Proc, Declare(p)
  PROVE  LoadInv'
<1> DEFINE a == Top(p)
           e == a.env
           m == envs[e].mod
           B == [n \in Name |-> Predeclared(m, n)]
           b == [a EXCEPT !.stage = "exec"]
<1>1. stack[p] # <<>> /\ a.stage = "declare"
  BY DEF Declare, Stage, Active
<1>2. a \in ActRec /\ ActOK(envs, p, a) /\ Shape /\ Len(envs) \in Nat
  BY <1>1, TopFacts
<1>3. e \in 1 .. Len(envs) /\ envs[e].st = "run" /\ envs[e].bind = Empty /\ a.pc = 1
  BY <1>1, <1>2 DEF ActOK
<1>4. /\ envs' = With(e, B, "run") /\ SetTop(p, b)
      /\ UNCHANGED <<program, cache, failing, fatal>>
  <2>1. [envs EXCEPT ![e].bind = B] = With(e, B, "run")
    BY <1>3, BindIsWith
  <2> QED BY <2>1 DEF Declare
<1>5. MayBecome(e, B, "run")
  <2>1. m \in Module
    BY <1>3, EnvType
  <2>2. \A n \in Name : B[n] \in BindingRec /\ BindingOK(envs, B[n], "run")
    BY <1>2, <2>1, PredeclaredOK
  <2>3. \A n \in Name : ~Has(envs, e, n) /\ ~Ready(envs, e, n)
    BY <1>3 DEF Has, Ready, Empty, NoBinding, NoValue
  <2> QED BY <2>2, <2>3 DEF MayBecome
<1> HIDE DEF B
<1>6. /\ Fills(e, envs') /\ envs'[e].st = "run" /\ Len(envs') = Len(envs)
  BY <1>3, <1>4, <1>5, WriteEnv
<1>7. /\ b \in ActRec /\ b.env = a.env /\ b.pc = 1 /\ b.temp = a.temp /\ b.got = a.got /\ b.stage = "exec"
  BY <1>2, <1>3 DEF ActRec
<1> HIDE DEF b, a
<1>8. ActOK(envs', p, b)
  <2>1. Executed(envs', p, b)
    BY <1>7 DEF Executed
  <2>2. \A n \in Name : CollectedOK(envs', b.temp[n]) /\ (b.temp[n].k # "none" => b.temp[n].name = n)
    <3> SUFFICES ASSUME NEW n \in Name
                 PROVE CollectedOK(envs', b.temp[n]) /\ (b.temp[n].k # "none" => b.temp[n].name = n)
      OBVIOUS
    <3>1. a.temp[n] \in Collected /\ CollectedOK(envs, a.temp[n]) /\ (a.temp[n].k # "none" => a.temp[n].name = n)
      BY <1>2 DEF ActRec, ActOK
    <3>2. CollectedOK(envs', a.temp[n])
      BY <1>6, <3>1, CollectedKept DEF Fills
    <3> QED BY <1>7, <3>1, <3>2
  <2>3. b.env \in 0 .. Len(envs') /\ b.got \in 0 .. Len(envs') /\ b.env # 0
    BY <1>2, <1>3, <1>6, <1>7 DEF ActOK
  <2> QED BY <1>6, <1>7, <2>1, <2>2, <2>3 DEF ActOK, Importing, Loading
<1> QED BY <1>1, <1>4, <1>6, <1>7, <1>8, SetTopKeeps DEF a

----------------------------------------------------------------------------
(* The exports of a module are collected *)

\* The bindings of environment d after an import has made some of their
\* functions delegates.
Extension(p, d, b) ==
  [n \in Name |-> IF /\ n \in Exported(Top(p).got) /\ IsGroup(envs[Top(p).got].bind[n])
                     /\ Top(p).temp[n].k = "group" /\ Top(p).temp[n].env = d
                  THEN Extended(b[n], Top(p).got, n) ELSE b[n]]

LEMMA ExtensionOK ==
  ASSUME LoadInv, NEW p \in Proc, stack[p] # <<>>, Top(p).stage = "merge",
         NEW d \in 1 .. Len(envs), NEW n \in Name
  PROVE  LET b == envs[d].bind[n]
             c == Extension(p, d, envs[d].bind)[n]
         IN  /\ c \in BindingRec /\ c.val.k = b.val.k /\ c.export = b.export
             /\ c # b => b.val.k = "group" /\ envs[d].st = "done"
             /\ BindingOK(envs, c, envs[d].st)
<1> DEFINE b == envs[d].bind[n]
           c == Extension(p, d, envs[d].bind)[n]
           a == Top(p)
           g == a.got
           v == a.temp[n]
<1>1. b \in BindingRec /\ BindingOK(envs, b, envs[d].st)
  BY BindType
<1>2. a \in ActRec /\ ActOK(envs, p, a)
  BY TopFacts
<1>3. CASE n \in Exported(g) /\ IsGroup(envs[g].bind[n]) /\ v.k = "group" /\ v.env = d
  <2>1. c = [b EXCEPT !.val.delegates = @ \cup {<<g, n>>}]
    BY <1>3 DEF Extension, Extended
  <2>2. b.val.k = "group" /\ envs[d].st = "done"
    <3>1. CollectedOK(envs, v) /\ v.name = n
      BY <1>2, <1>3 DEF ActOK
    <3> QED BY <1>3, <3>1 DEF CollectedOK, IsGroup
  <2> DEFINE x == [b.val EXCEPT !.delegates = @ \cup {<<g, n>>}]
  <2>3. /\ b.val \in [k : {"group"}, fns : Fns, delegates : SUBSET (Nat \X Name)]
        /\ b.mut \in BOOLEAN /\ b.export \in BOOLEAN /\ b.import \in BOOLEAN
    BY <1>1, <2>2 DEF BindingRec, Slot, Held
  <2>4. <<g, n>> \in Nat \X Name
    BY <1>2 DEF ActRec
  <2> HIDE DEF g
  <2>5. x \in [k : {"group"}, fns : Fns, delegates : SUBSET (Nat \X Name)]
    BY <2>3, <2>4
  <2>6. c = [b EXCEPT !.val = x]
    BY <1>1, <2>1, <2>3 DEF BindingRec
  <2>7. x \in Slot /\ x.k = "group"
    BY <2>5 DEF Slot, Held
  <2> HIDE DEF x, c, b
  <2>8. c \in BindingRec /\ c.val = x /\ c.export = b.export
    BY <1>1, <2>6, <2>7 DEF BindingRec
  <2>9. BindingOK(envs, c, envs[d].st)
    BY <1>1, <2>2, <2>7, <2>8 DEF BindingOK
  <2> QED BY <2>2, <2>7, <2>8, <2>9 DEF b, c
<1>4. CASE ~(n \in Exported(g) /\ IsGroup(envs[g].bind[n]) /\ v.k = "group" /\ v.env = d)
  <2>1. c = b
    BY <1>4 DEF Extension, Extended
  <2> QED BY <1>1, <2>1
<1> QED BY <1>3, <1>4

LEMMA DelegatedOK ==
  ASSUME LoadInv, NEW p \in Proc, stack[p] # <<>>, Top(p).stage = "merge", NEW u
  PROVE  /\ Fills(u, Delegated(p)) /\ Len(Delegated(p)) = Len(envs)
         /\ \A d \in 1 .. Len(envs) : /\ Delegated(p)[d].st = envs[d].st
                                      /\ \A n \in Name : Delegated(p)[d].bind[n].val.k = envs[d].bind[n].val.k
<1> DEFINE F == Delegated(p)
           n == Len(envs)
<1>1. /\ envs \in Seq(EnvRec) /\ n \in Nat /\ DOMAIN envs = 1 .. n
      /\ \A d \in 1 .. n : envs[d] \in EnvRec
  BY SeqElements DEF LoadInv, Shape
<1>2. F = [d \in 1 .. n |-> [envs[d] EXCEPT !.bind = Extension(p, d, envs[d].bind)]]
  BY <1>1 DEF Delegated, Extension, Extended
<1>3. ASSUME NEW d \in 1 .. n
      PROVE  /\ F[d] \in EnvRec /\ F[d].mod = envs[d].mod /\ F[d].st = envs[d].st
             /\ F[d].bind = Extension(p, d, envs[d].bind)
  <2> DEFINE B == Extension(p, d, envs[d].bind)
  <2>1. B \in [Name -> BindingRec]
    <3>1. \A x \in Name : B[x] \in BindingRec
      BY ExtensionOK
    <3>2. B = [x \in Name |-> B[x]]
      BY DEF Extension, Extended
    <3> HIDE DEF B
    <3> QED BY <3>1, <3>2
  <2>2. F[d] = [envs[d] EXCEPT !.bind = B]
    BY <1>2
  <2> HIDE DEF B, F
  <2>3. F[d] \in EnvRec /\ F[d].mod = envs[d].mod /\ F[d].st = envs[d].st /\ F[d].bind = B
    BY <1>1, <2>1, <2>2 DEF EnvRec
  <2> QED BY <2>3 DEF B
<1>4. F \in [1 .. n -> EnvRec]
  <2>1. F = [d \in 1 .. n |-> F[d]]
    BY <1>2
  <2> HIDE DEF F
  <2> QED BY <1>3, <2>1
<1> HIDE DEF F
<1>5. F \in Seq(EnvRec) /\ Len(F) = n
  BY <1>1, <1>4, IsASeq, LenProperties
<1>6. \A d \in 1 .. n, x \in Name :
        /\ F[d].bind[x] \in BindingRec /\ F[d].bind[x].val.k = envs[d].bind[x].val.k
        /\ F[d].bind[x].export = envs[d].bind[x].export
        /\ F[d].bind[x] # envs[d].bind[x] => envs[d].bind[x].val.k = "group"
        /\ BindingOK(envs, F[d].bind[x], envs[d].st)
  BY <1>3, ExtensionOK
<1>7. Grown(envs, F)
  <2>1. \A d \in 1 .. n : \A x \in Name : /\ Has(envs, d, x) => Has(F, d, x)
                                          /\ Ready(envs, d, x) => Ready(F, d, x)
                                          /\ IsGroup(envs[d].bind[x]) => IsGroup(F[d].bind[x])
    BY <1>6 DEF Has, Ready, IsGroup
  <2> QED BY <1>1, <1>3, <1>5, <2>1 DEF Grown
<1>8. Others(envs, F, u)
  <2>0. \A d \in 1 .. Len(envs) : F[d].st = envs[d].st
    BY <1>3
  <2>1. ASSUME NEW d \in 1 .. Len(envs), envs[d].bind = Empty PROVE F[d].bind = Empty
    <3>1. \A x \in Name : envs[d].bind[x].val.k = "none"
      BY <2>1 DEF Empty, NoBinding, NoValue
    <3>2. \A x \in Name : F[d].bind[x] = envs[d].bind[x]
      BY <1>6, <3>1
    <3>3. F[d].bind \in [Name -> BindingRec] /\ envs[d].bind \in [Name -> BindingRec]
      BY <1>1, <1>3 DEF EnvRec
    <3> QED BY <2>1, <3>2, <3>3
  <2> QED BY <2>0, <2>1 DEF Others
<1>9. \A d \in 1 .. Len(F) : EnvOK(F, d)
  <2> SUFFICES ASSUME NEW d \in 1 .. n PROVE EnvOK(F, d)
    BY <1>5
  <2>1. \A x \in Name : BindingOK(F, F[d].bind[x], F[d].st)
    BY <1>3, <1>6, <1>7, BindingKept
  <2>2. F[d].st = "done" /\ d # 1 => Complete(F[d].mod, F[d].bind)
    <3>1. EnvOK(envs, d)
      BY EnvType
    <3>2. \A m : Exports(m) \subseteq Name
      BY DEF Exports
    <3> QED BY <1>3, <1>6, <3>1, <3>2 DEF EnvOK, Complete
  <2> QED BY <2>1, <2>2 DEF EnvOK
<1>10. Fills(u, F)
  BY <1>5, <1>7, <1>8, <1>9 DEF Fills
<1> QED BY <1>3, <1>5, <1>6, <1>10 DEF F

\* What an import collects for a name.
LEMMA MergedOK ==
  ASSUME LoadInv, NEW p \in Proc, stack[p] # <<>>, Top(p).stage = "merge", NEW n \in Name
  PROVE  /\ Merged(p, n) \in Collected /\ CollectedOK(envs, Merged(p, n))
         /\ Merged(p, n).k # "none" => Merged(p, n).name = n
<1> DEFINE a == Top(p)
           e == a.got
           b == envs[e].bind[n]
<1>1. a \in ActRec /\ ActOK(envs, p, a) /\ Len(envs) \in Nat
  BY TopFacts
<1>2. e \in 1 .. Len(envs)
  BY <1>1 DEF ActOK
<1>3. b \in BindingRec /\ BindingOK(envs, b, envs[e].st)
  BY <1>2, BindType
<1>4. CASE n \notin Exported(e) \/ a.temp[n] # NoValue
  <2>1. Merged(p, n) = a.temp[n]
    BY <1>4 DEF Merged
  <2>2. a.temp[n] \in Collected
    BY <1>1 DEF ActRec
  <2> HIDE DEF a
  <2>3. CollectedOK(envs, a.temp[n]) /\ (a.temp[n].k # "none" => a.temp[n].name = n)
    BY <1>1 DEF ActOK
  <2> QED BY <2>1, <2>2, <2>3
<1>5. CASE n \in Exported(e) /\ a.temp[n] = NoValue
  <2>1. b.export
    BY <1>5 DEF Exported
  <2>2. Has(envs, e, n) /\ (IsGroup(b) => envs[e].st = "done")
    <3>1. NoBinding.export = FALSE
      BY DEF NoBinding
    <3>2. b # NoBinding
      BY <2>1, <3>1
    <3>3. b.val.k # "none" /\ (IsGroup(b) => envs[e].st = "done")
      <4> HIDE DEF b
      <4> QED BY <1>3, <2>1, <3>2 DEF BindingOK, IsGroup
    <3> QED BY <3>3 DEF Has
  <2>3. Merged(p, n) = IF IsGroup(b) THEN [k |-> "group", env |-> e, name |-> n]
                       ELSE [k |-> "ref", env |-> e, name |-> n]
    BY <1>5 DEF Merged, ToExporter, Ref
  <2> HIDE DEF b
  <2> DEFINE v == Merged(p, n)
  <2>4. v.k \in {"group", "ref"} /\ v.env = e /\ v.name = n /\ v \in Collected /\ (v.k = "group" => IsGroup(b))
    BY <1>2, <1>1, <2>3 DEF Collected
  <2> HIDE DEF v
  <2>5. CollectedOK(envs, v)
    BY <1>2, <2>2, <2>4 DEF CollectedOK, b
  <2> QED BY <2>4, <2>5 DEF v
<1> QED BY <1>4, <1>5

LEMMA MergeKeeps ==
  ASSUME LoadInv, NEW p \in Proc, Merge(p)
  PROVE  LoadInv'
<1> DEFINE a == Top(p)
           temp == [n \in Name |-> Merged(p, n)]
           st == IF Len(a.todo) = 1 THEN "bind" ELSE "check"
           b == [a EXCEPT !.temp = temp, !.todo = Tail(@), !.got = 0, !.stage = st]
<1>1. stack[p] # <<>> /\ a.stage = "merge"
  BY DEF Merge, Stage, Active
<1>2. a \in ActRec /\ ActOK(envs, p, a) /\ Shape /\ Len(envs) \in Nat
  BY <1>1, TopFacts
<1>3. /\ envs' = Delegated(p) /\ SetTop(p, b)
      /\ UNCHANGED <<program, cache, failing, fatal>>
  BY DEF Merge
<1>4. /\ Fills(a.env, envs') /\ Len(envs') = Len(envs)
      /\ \A d \in 1 .. Len(envs) : envs'[d].st = envs[d].st
  BY <1>1, <1>3, DelegatedOK
<1>5. a.todo \in Seq(Module) /\ a.todo # <<>>
  BY <1>1, <1>2 DEF ActRec, ActOK, Loading
<1>6. Tail(a.todo) \in Seq(Module) /\ (Len(a.todo) # 1 => Tail(a.todo) # <<>>)
  <2>1. /\ Tail(a.todo) \in Seq(Module) /\ Len(Tail(a.todo)) = Len(a.todo) - 1 /\ Len(a.todo) \in Nat
    BY <1>5, HeadTailProperties, LenProperties
  <2>2. Tail(a.todo) = <<>> => Len(Tail(a.todo)) = 0
    BY EmptySeq
  <2> QED BY <2>1, <2>2
<1>7. temp \in [Name -> Collected]
  <2>1. \A n \in Name : temp[n] \in Collected
    BY <1>1, MergedOK
  <2>2. temp = [n \in Name |-> temp[n]]
    OBVIOUS
  <2> HIDE DEF temp
  <2> QED BY <2>1, <2>2
<1>8. \A n \in Name : CollectedOK(envs', temp[n]) /\ (temp[n].k # "none" => temp[n].name = n)
  <2> SUFFICES ASSUME NEW n \in Name
               PROVE  CollectedOK(envs', temp[n]) /\ (temp[n].k # "none" => temp[n].name = n)
    OBVIOUS
  <2>1. temp[n] \in Collected /\ CollectedOK(envs, temp[n]) /\ (temp[n].k # "none" => temp[n].name = n)
    BY <1>1, MergedOK
  <2> HIDE DEF temp
  <2>2. CollectedOK(envs', temp[n])
    BY <1>4, <2>1, CollectedKept DEF Fills
  <2> QED BY <2>1, <2>2
<1>9. st \in {"bind", "check"} /\ (st = "check" => Len(a.todo) # 1)
  OBVIOUS
<1> HIDE DEF temp, st
<1>10. /\ b \in ActRec /\ b.env = a.env /\ b.pc = a.pc /\ b.temp = temp /\ b.got = 0 /\ b.stage = st
       /\ b.todo = Tail(a.todo)
  BY <1>2, <1>6, <1>7, <1>9 DEF ActRec, Importing, Loading
<1> HIDE DEF b, a
<1>11. ActOK(envs', p, a)
  <2>1. a.env # 0 => envs'[a.env].st = envs[a.env].st
    BY <1>2, <1>4 DEF ActOK
  <2>2. Grown(envs, envs') /\ envs \in Seq(EnvRec)
    BY <1>2, <1>4 DEF Fills, Shape
  <2> QED BY <1>1, <1>2, <2>1, <2>2, ActStays
<1>12. ActOK(envs', p, b)
  <2>1. Source(envs', p, b) = Source(envs', p, a)
    BY <1>10 DEF Source
  <2>2. Executed(envs', p, b)
    BY <1>1, <1>10, <1>11, <2>1 DEF ActOK, Executed
  <2>3. 0 \in 0 .. Len(envs')
    BY <1>2, <1>4
  <2>4. a.pc \in DOMAIN Source(envs', p, a) /\ Source(envs', p, a)[a.pc].op \in {"star", "named", "try"}
    BY <1>1, <1>11 DEF ActOK, Importing, Loading
  <2>5. b.env \in 0 .. Len(envs') /\ (IF b.env = 0 THEN p # Main ELSE envs'[b.env].st = "run")
    BY <1>10, <1>11 DEF ActOK
  <2>6. b.stage \in Loading => b.todo # <<>>
    BY <1>6, <1>9, <1>10 DEF Loading
  <2> QED BY <1>8, <1>9, <1>10, <2>1, <2>2, <2>3, <2>4, <2>5, <2>6 DEF ActOK
<1> QED BY <1>1, <1>3, <1>4, <1>9, <1>10, <1>12, SetTopKeeps DEF a

----------------------------------------------------------------------------
(* A load ends *)

LEMMA PopKeeps ==
  ASSUME LoadInv, NEW p \in Proc, stack[p] # <<>>, NEW s \in Seq(ActRec),
         NEW h \in Nat, h = Len(stack[p]) - 1, Len(s) = h,
         \A i \in 1 .. h - 1 : s[i] = stack[p][i],
         h >= 1 => /\ s[h].env = stack[p][h].env /\ ActOK(envs', p, s[h])
                   /\ s[h].stage # "declare" /\ (s[h].stage = "load" => p \in failing'),
         program' = program, stack' = [stack EXCEPT ![p] = s], Fills(Top(p).env, envs'),
         cache' = cache, fatal' = fatal, failing' \in {failing, failing \ {p}},
         p \in failing' => s # <<>>
  PROVE  LoadInv'
<1> DEFINE t == stack[p]
           n == Len(t)
<1>1. /\ Shape /\ t \in Seq(ActRec) /\ n \in Nat /\ n >= 1 /\ DOMAIN t = 1 .. n /\ Alone
      /\ Own(p, Top(p).env) /\ StackOK(envs, p \in failing, p, t)
  BY TopFacts, SeqElements DEF LoadInv
<1>2. DOMAIN s = 1 .. h /\ h = n - 1
  BY SeqElements
<1>3. \A i \in 1 .. n - 1 :
           /\ ActOK(envs', p, t[i]) /\ t[i].stage = "load"
           /\ i = 1 => t[i].env = IF p = Main THEN 1 ELSE 0
           /\ i > 1 => t[i].env > 1
  BY LowerKept
<1>4. \A i \in 1 .. h : s[i].env = t[i].env /\ i \in DOMAIN t
  <2> SUFFICES ASSUME NEW i \in 1 .. h PROVE s[i].env = t[i].env /\ i \in DOMAIN t
    OBVIOUS
  <2>1. i \in 1 .. n
    BY <1>1, <1>2
  <2>2. i \in 1 .. h - 1 \/ i = h
    OBVIOUS
  <2> QED BY <1>1, <2>1, <2>2
<1> HIDE DEF t, n
<1>5. Follows(p, s)
  <2>1. \A i, j \in 1 .. h : s[i].env # 0 /\ s[i].env = s[j].env => i = j
    <3> SUFFICES ASSUME NEW i \in 1 .. h, NEW j \in 1 .. h, s[i].env # 0, s[i].env = s[j].env
                 PROVE  i = j
      OBVIOUS
    <3>1. i \in DOMAIN stack[p] /\ j \in DOMAIN stack[p]
      BY <1>4 DEF t
    <3>2. stack[p][i].env # 0 /\ stack[p][i].env = stack[p][j].env
      BY <1>4 DEF t
    <3> QED BY <1>1, <3>1, <3>2 DEF Alone
  <2> QED BY <1>2, <1>4, <2>1 DEF Follows, t
<1>6. StackOK(envs', p \in failing', p, s)
  <2> SUFFICES ASSUME NEW i \in 1 .. h
               PROVE  /\ ActOK(envs', p, s[i])
                      /\ i < h => s[i].stage = "load"
                      /\ i = h /\ s[i].stage = "load" => p \in failing'
                      /\ i = h /\ s[i].stage = "declare" => p \notin failing'
                      /\ i = 1 => s[i].env = IF p = Main THEN 1 ELSE 0
                      /\ i > 1 => s[i].env > 1
    BY <1>2 DEF StackOK
  <2>1. /\ ActOK(envs', p, t[i]) /\ t[i].stage = "load" /\ s[i].env = t[i].env
        /\ i = 1 => t[i].env = IF p = Main THEN 1 ELSE 0
        /\ i > 1 => t[i].env > 1
    BY <1>1, <1>2, <1>3, <1>4
  <2>2. CASE i = h
    BY <2>1, <2>2
  <2>3. CASE i # h
    <3>1. i \in 1 .. h - 1
      BY <2>3
    <3>2. s[i] = t[i]
      BY <3>1 DEF t
    <3> QED BY <2>1, <2>3, <3>2
  <2> QED BY <2>2, <2>3
<1>7. cache' \in [Module -> 0 .. Len(envs')]
  <2>1. Len(envs) \in Nat /\ Len(envs') \in Nat /\ Len(envs) <= Len(envs')
    BY DEF Fills, Grown
  <2>2. 0 .. Len(envs) \subseteq 0 .. Len(envs')
    BY <2>1
  <2> QED BY <1>1, <2>2 DEF Shape
<1>8. /\ failing' \subseteq Proc /\ \A q \in Proc : q # p => (q \in failing' <=> q \in failing)
      /\ fatal' \in BOOLEAN
  BY <1>1 DEF Shape
<1> QED BY <1>1, <1>5, <1>6, <1>7, <1>8, LoadStep

\* The end of activation a fills its environment with bindings B.
LEMMA EndFills ==
  ASSUME LoadInv, NEW p \in Proc, stack[p] # <<>>, Top(p).env # 0, NEW B, NEW st,
         MayBecome(Top(p).env, B, st), envs' = With(Top(p).env, B, st)
  PROVE  Fills(Top(p).env, envs')
<1>1. ActOK(envs, p, Top(p)) /\ Len(envs) \in Nat
  BY TopFacts
<1>2. Top(p).env \in 1 .. Len(envs) /\ envs[Top(p).env].st = "run"
  BY <1>1 DEF ActOK
<1> QED BY <1>2, WriteEnv

LEMMA SameBindings ==
  ASSUME LoadInv, NEW e \in 1 .. Len(envs), envs[e].st = "run", NEW st \in {"run", "done", "failed"},
         st = "done" => e = 1
  PROVE  MayBecome(e, envs[e].bind, st)
<1>1. envs[e].bind \in [Name -> BindingRec] /\ EnvOK(envs, e)
  BY EnvType
<1>2. \A n \in Name : BindingOK(envs, envs[e].bind[n], st)
  BY <1>1 DEF EnvOK, BindingOK
<1> QED BY <1>1, <1>2 DEF MayBecome, Has, Ready

\* A module that has been executed exports what it says.
LEMMA ReexportedOK ==
  ASSUME LoadInv, NEW p \in Proc, stack[p] # <<>>, Top(p).env # 0, Top(p).stage = "exec",
         Top(p).pc > Len(Code(p))
  PROVE  MayBecome(Top(p).env, Reexported(Top(p).env), "done")
<1> DEFINE a == Top(p)
           e == a.env
           B == Reexported(e)
           m == envs[e].mod
<1>1. /\ a \in ActRec /\ ActOK(envs, p, a) /\ Len(envs) \in Nat
      /\ Code(p) = Source(envs, p, a) /\ DOMAIN Code(p) = 1 .. Len(Code(p)) /\ Len(Code(p)) \in Nat
  BY TopFacts
<1>2. e \in 1 .. Len(envs) /\ envs[e].st = "run"
  BY <1>1 DEF ActOK
<1>3. envs[e].bind \in [Name -> BindingRec] /\ EnvOK(envs, e)
  BY <1>2, EnvType
<1>4. ASSUME NEW n \in Name
      PROVE  /\ B[n] \in BindingRec /\ B[n].val = envs[e].bind[n].val
             /\ BindingOK(envs, B[n], "done")
             /\ n \in Exports(m) /\ envs[e].bind[n] # NoBinding => B[n].export
  <2> DEFINE b == envs[e].bind[n]
  <2>1. B[n] = IF n \in Exports(m) /\ b # NoBinding THEN [b EXCEPT !.export = TRUE] ELSE b
    BY DEF Reexported, Bound
  <2>2. b \in BindingRec /\ BindingOK(envs, b, "run")
    BY <1>2, <1>3 DEF EnvOK
  <2> HIDE DEF b, B, m
  <2>3. B[n] \in BindingRec /\ B[n].val = b.val /\ (n \in Exports(m) /\ b # NoBinding => B[n].export)
    BY <2>1, <2>2 DEF BindingRec
  <2>4. BindingOK(envs, B[n], "done")
    <3>1. b.val.k = "none" => B[n] = NoBinding
      BY <2>1, <2>2 DEF BindingOK
    <3> QED BY <2>2, <2>3, <3>1 DEF BindingOK
  <2> QED BY <2>3, <2>4 DEF b
<1>5. B \in [Name -> BindingRec]
  <2>1. B = [n \in Name |-> B[n]]
    BY DEF Reexported
  <2> HIDE DEF B
  <2> QED BY <1>4, <2>1
<1>6. Complete(m, B)
  <2> SUFFICES ASSUME NEW n \in Exports(m)
               PROVE  B[n].export /\ B[n].val.k \notin {"none", "uninit"}
    BY DEF Complete
  <2>1. n \in Name /\ \E i \in Decls(m, n) : program[m][i].export
    BY DEF Exports
  <2>2. PICK i \in DOMAIN program[m] : program[m][i].op \in {"decl", "named"} /\ program[m][i].name = n
    BY <2>1 DEF Decls
  <2>3. Code(p) = program[m]
    BY <1>1, <1>2 DEF Source
  <2>4. i \in 1 .. a.pc - 1 /\ i \in DOMAIN Source(envs, p, a) /\ Source(envs, p, a)[i] = program[m][i]
    <3>1. a.pc \in Nat /\ a.pc > Len(Code(p)) /\ i \in 1 .. Len(Code(p))
      BY <1>1, <2>2, <2>3 DEF ActRec
    <3> QED BY <1>1, <2>2, <2>3, <3>1
  <2>5. Executed(envs, p, a)
    BY <1>1 DEF ActOK
  <2>6. Ready(envs, e, n)
    BY <2>2, <2>4, <2>5 DEF Executed
  <2>7. envs[e].bind[n].val.k \notin {"none", "uninit"} /\ envs[e].bind[n] # NoBinding
    BY <2>6 DEF Ready, NoBinding, NoValue
  <2> HIDE DEF B, m
  <2> QED BY <1>4, <2>1, <2>7
<1>7. \A n \in Name : /\ Has(envs, e, n) => B[n].val.k # "none"
                      /\ Ready(envs, e, n) => B[n].val.k \notin {"none", "uninit"}
  BY <1>4 DEF Has, Ready
<1> HIDE DEF B
<1>8. MayBecome(e, B, "done")
  BY <1>4, <1>5, <1>6, <1>7 DEF MayBecome
<1> QED BY <1>8 DEF B

LEMMA FinishKeeps ==
  ASSUME LoadInv, NEW p \in Proc, Finish(p)
  PROVE  LoadInv'
<1> DEFINE a == Top(p)
           t == stack[p]
           n == Len(t)
           rest == Front(t)
<1>1. t # <<>> /\ a.stage = "exec" /\ a.pc > Len(Code(p)) /\ p \notin failing
  BY DEF Finish, Stage, Active
<1>2. /\ Shape /\ t \in Seq(ActRec) /\ envs \in Seq(EnvRec) /\ Len(envs) \in Nat
      /\ n \in Nat /\ n >= 1 /\ a = t[n] /\ a \in ActRec /\ ActOK(envs, p, a)
      /\ DOMAIN t = 1 .. n /\ StackOK(envs, p \in failing, p, t)
  BY <1>1, TopFacts, SeqElements DEF LoadInv
<1>3. rest \in Seq(ActRec) /\ Len(rest) = n - 1 /\ \A i \in 1 .. n - 1 : rest[i] = t[i]
  BY <1>1, <1>2, StackParts
<1>4. a.env # 0 => a.env \in 1 .. Len(envs) /\ envs[a.env].st = "run"
  BY <1>2 DEF ActOK
<1>5. UNCHANGED <<program, cache, failing, fatal>>
  BY DEF Finish
<1>6. CASE rest = <<>>
  <2>1. n = 1
    <3>1. Len(rest) = 0
      BY <1>6
    <3> HIDE DEF n, rest, t, a
    <3> QED BY <1>2, <1>3, <3>1
  <2>2. a.env \in {0, 1}
    BY <1>2, <2>1 DEF StackOK
  <2>3. /\ stack' = [stack EXCEPT ![p] = <<>>]
        /\ envs' = IF a.env = 0 THEN envs ELSE [envs EXCEPT ![a.env].st = "done"]
    BY <1>6 DEF Finish
  <2>4. Fills(a.env, envs')
    <3>1. CASE a.env = 0
      BY <2>3, <3>1, FillsSame
    <3>2. CASE a.env # 0
      <4>1. envs' = With(a.env, envs[a.env].bind, "done") /\ MayBecome(a.env, envs[a.env].bind, "done")
        BY <1>4, <2>2, <2>3, <3>2, StateIsWith, SameBindings
      <4> QED BY <1>1, <3>2, <4>1, EndFills
    <3> QED BY <3>1, <3>2
  <2> DEFINE s == <<>>
             h == 0
  <2>5. /\ s \in Seq(ActRec) /\ h \in Nat /\ h = Len(stack[p]) - 1 /\ Len(s) = h /\ ~(h >= 1)
        /\ stack' = [stack EXCEPT ![p] = s] /\ \A i \in 1 .. h - 1 : s[i] = stack[p][i]
    BY <2>1, <2>3
  <2>6. p \notin failing' /\ failing' = failing
    BY <1>1, <1>5
  <2> HIDE DEF s, h
  <2> QED BY <1>1, <1>5, <2>4, <2>5, <2>6, PopKeeps
<1>7. CASE rest # <<>>
  <2> DEFINE h == n - 1
             w == Last(rest)
             b == [w EXCEPT !.stage = "merge", !.got = a.env]
             s == Append(Front(rest), b)
  <2>1. h \in Nat /\ h >= 1 /\ h = Len(rest) /\ w = t[h] /\ w \in ActRec
    <3>1. Len(rest) \in Nat /\ Len(rest) >= 1 /\ w = rest[Len(rest)] /\ w \in ActRec
      BY <1>3, <1>7, StackParts
    <3>2. h \in Nat /\ h >= 1 /\ h = Len(rest) /\ rest[h] = t[h]
      <4> HIDE DEF n, rest, t, a, w
      <4>1. h = Len(rest) /\ h \in 1 .. n - 1
        BY <1>2, <1>3, <3>1
      <4> QED BY <1>2, <1>3, <3>1, <4>1
    <3> HIDE DEF n, rest, t, a, w, h
    <3> QED BY <3>1, <3>2
  <2>2. a.env > 1 /\ a.env # 0 /\ a.env \in Nat
    <3>1. n \in DOMAIN t /\ n > 1
      BY <1>2, <2>1
    <3> HIDE DEF n, t, a
    <3>2. a.env > 1
      BY <1>2, <3>1 DEF StackOK
    <3>3. a.env \in Nat
      BY <1>2 DEF ActRec
    <3> QED BY <3>2, <3>3
  <2>3. /\ stack' = [stack EXCEPT ![p] = s]
        /\ envs' = [envs EXCEPT ![a.env].st = "done", ![a.env].bind = Reexported(a.env)]
    BY <1>7 DEF Finish
  <2>4. envs' = With(a.env, Reexported(a.env), "done")
    <3> DEFINE B == Reexported(a.env)
    <3>1. envs' = [envs EXCEPT ![a.env].st = "done", ![a.env].bind = B]
      BY <2>3
    <3>2. a.env \in 1 .. Len(envs)
      BY <1>4, <2>2
    <3> HIDE DEF B, a
    <3> QED BY <3>1, <3>2, DoneIsWith DEF B
  <2>5. MayBecome(a.env, Reexported(a.env), "done")
    BY <1>1, <2>2, ReexportedOK
  <2>6. Fills(a.env, envs') /\ Len(envs') = Len(envs)
    <3>1. Len(envs') = Len(envs)
      BY <1>4, <2>2, <2>4, <2>5, WriteEnv
    <3> DEFINE B == Reexported(a.env)
    <3>2. MayBecome(Top(p).env, B, "done") /\ envs' = With(Top(p).env, B, "done") /\ Top(p).env # 0
          /\ stack[p] # <<>>
      BY <1>1, <2>2, <2>4, <2>5
    <3> HIDE DEF B
    <3>3. Fills(Top(p).env, envs')
      BY <3>2, EndFills
    <3> QED BY <3>1, <3>3
  <2>7. /\ ActOK(envs', p, t[h]) /\ t[h].stage = "load"
    <3>1. \A i \in 1 .. n - 1 : ActOK(envs', p, t[i]) /\ t[i].stage = "load"
      BY <1>1, <2>6, LowerKept
    <3>2. h \in 1 .. n - 1
      BY <2>1, <1>2
    <3> HIDE DEF h, n, t
    <3> QED BY <3>1, <3>2
  <2>8. b \in ActRec /\ b.env = w.env /\ b.pc = w.pc /\ b.temp = w.temp /\ b.got = a.env /\ b.stage = "merge"
        /\ b.todo = w.todo
    BY <2>1, <2>2 DEF ActRec, Importing, Loading
  <2> HIDE DEF b
  <2>9. ActOK(envs', p, b)
    <3>1. /\ Source(envs', p, w)[w.pc].op \in {"star", "named", "try"} /\ w.pc \in DOMAIN Source(envs', p, w)
          /\ w.todo # <<>>
      BY <2>1, <2>7 DEF ActOK, Importing, Loading
    <3>2. b.got \in 0 .. Len(envs')
      BY <1>4, <2>2, <2>6, <2>8, <1>2
    <3> HIDE DEF w, a
    <3> QED BY <2>1, <2>2, <2>7, <2>8, <3>1, <3>2, Restage
  <2>10. /\ s \in Seq(ActRec) /\ s # <<>> /\ Len(s) = h /\ s[h] = b
         /\ \A i \in 1 .. h - 1 : s[i] = t[i]
    <3>1. /\ s \in Seq(ActRec) /\ s # <<>> /\ Len(s) = h /\ s[h] = b
          /\ \A i \in 1 .. h - 1 : s[i] = rest[i]
      <4> HIDE DEF rest, h, w
      <4>0. rest \in Seq(ActRec) /\ rest # <<>> /\ b \in ActRec
        BY <1>3, <1>7, <2>8
      <4>1. /\ s \in Seq(ActRec) /\ s # <<>> /\ Len(s) = Len(rest) /\ s[Len(rest)] = b
            /\ \A i \in 1 .. Len(rest) - 1 : s[i] = rest[i]
        BY ONLY <4>0, ReplaceTop
      <4> HIDE DEF s
      <4> QED BY <2>1, <4>1
    <3>2. \A i \in 1 .. h - 1 : rest[i] = t[i]
      BY <1>2, <1>3
    <3> HIDE DEF s
    <3> QED BY <3>1, <3>2
  <2> HIDE DEF s
  <2>11. /\ \A i \in 1 .. h - 1 : s[i] = stack[p][i]
         /\ s[h].env = stack[p][h].env /\ ActOK(envs', p, s[h])
         /\ s[h].stage # "declare" /\ (s[h].stage = "load" => p \in failing')
    BY <2>1, <2>8, <2>9, <2>10
  <2>12. h = Len(stack[p]) - 1 /\ stack[p] # <<>>
    BY <1>1
  <2> HIDE DEF h, t, a, n
  <2> QED BY <1>5, <2>1, <2>3, <2>6, <2>10, <2>11, <2>12, PopKeeps DEF a
<1> QED BY <1>6, <1>7

LEMMA UnwindKeeps ==
  ASSUME LoadInv, NEW p \in Proc, Unwind(p)
  PROVE  LoadInv'
<1> DEFINE a == Top(p)
           t == stack[p]
           n == Len(t)
           rest == Front(t)
           handled == a.pc <= Len(Code(p)) /\ a.stage # "exec" /\ Current(p).op = "try"
<1>1. p \in failing /\ t # <<>>
  BY DEF Unwind, LoadInv
<1>2. /\ Shape /\ t \in Seq(ActRec) /\ envs \in Seq(EnvRec) /\ Len(envs) \in Nat
      /\ n \in Nat /\ n >= 1 /\ a \in ActRec /\ ActOK(envs, p, a) /\ a.stage # "declare"
      /\ Code(p) = Source(envs, p, a) /\ DOMAIN Code(p) = 1 .. Len(Code(p)) /\ Len(Code(p)) \in Nat
      /\ StackOK(envs, p \in failing, p, t)
  BY <1>1, TopFacts DEF LoadInv
<1>3. UNCHANGED <<program, cache, fatal>>
  BY DEF Unwind
<1>4. CASE handled
  <2> DEFINE b == GoOn(a)
  <2>1. SetTop(p, b) /\ failing' = failing \ {p} /\ envs' = envs
    BY <1>4 DEF Unwind
  <2>2. a.pc \in DOMAIN Code(p) /\ Source(envs, p, a)[a.pc].op = "try"
    BY <1>2, <1>4 DEF ActRec, Current
  <2> HIDE DEF a
  <2>3. b \in ActRec /\ b.env = a.env /\ b.stage = "exec" /\ ActOK(envs, p, b)
    BY <1>2, <2>2, GoOnOK
  <2> HIDE DEF b
  <2>4. Fills(a.env, envs') /\ ActOK(envs', p, b)
    BY <2>1, <2>3, FillsSame
  <2> QED BY <1>1, <1>3, <2>1, <2>3, <2>4, SetTopKeeps DEF a
<1>5. CASE ~handled
  <2>1. /\ stack' = [stack EXCEPT ![p] = rest]
        /\ envs' = IF a.env = 0 THEN envs ELSE [envs EXCEPT ![a.env].st = "failed"]
        /\ failing' = IF rest = <<>> THEN failing \ {p} ELSE failing
    BY <1>5 DEF Unwind
  <2>2. Fills(a.env, envs')
    <3>1. CASE a.env = 0
      BY <2>1, <3>1, FillsSame
    <3>2. CASE a.env # 0
      <4>1. a.env \in 1 .. Len(envs) /\ envs[a.env].st = "run"
        BY <1>2, <3>2 DEF ActOK
      <4>2. envs' = With(a.env, envs[a.env].bind, "failed") /\ MayBecome(a.env, envs[a.env].bind, "failed")
        BY <2>1, <3>2, <4>1, StateIsWith, SameBindings
      <4> QED BY <1>1, <3>2, <4>2, EndFills
    <3> QED BY <3>1, <3>2
  <2>3. rest \in Seq(ActRec) /\ Len(rest) = n - 1 /\ \A i \in 1 .. n - 1 : rest[i] = t[i]
    BY <1>1, <1>2, StackParts
  <2> DEFINE h == n - 1
  <2>4. h \in Nat /\ h = Len(stack[p]) - 1 /\ Len(rest) = h
    BY <1>2, <2>3
  <2>5. \A i \in 1 .. n - 1 : ActOK(envs', p, t[i]) /\ t[i].stage = "load"
    BY <1>1, <2>2, LowerKept
  <2>6. /\ failing' \in {failing, failing \ {p}}
        /\ p \in failing' => rest # <<>>
        /\ h >= 1 => p \in failing'
    <3>1. h >= 1 => rest # <<>>
      <4>1. rest = <<>> => Len(rest) = 0
        OBVIOUS
      <4> HIDE DEF rest, h
      <4> QED BY <2>4, <4>1
    <3> HIDE DEF rest, h
    <3> QED BY <1>1, <2>1, <3>1
  <2> HIDE DEF rest
  <2>7. /\ \A i \in 1 .. h - 1 : rest[i] = stack[p][i]
        /\ h >= 1 => /\ rest[h].env = stack[p][h].env /\ ActOK(envs', p, rest[h])
                     /\ rest[h].stage # "declare" /\ (rest[h].stage = "load" => p \in failing')
    <3>1. \A i \in 1 .. h - 1 : i \in 1 .. n - 1
      BY <2>4
    <3>2. h >= 1 => h \in 1 .. n - 1
      BY <2>4
    <3> HIDE DEF h, n
    <3> QED BY <2>3, <2>5, <2>6, <3>1, <3>2
  <2> HIDE DEF h, n, a
  <2> QED BY <1>1, <1>3, <2>1, <2>2, <2>3, <2>4, <2>6, <2>7, PopKeeps DEF a
<1> QED BY <1>4, <1>5

----------------------------------------------------------------------------
(* Statements that bind names *)

\* The innermost activation of p, at a statement that binds names of its own
\* environment.
LEMMA AtStatement ==
  ASSUME LoadInv, NEW p \in Proc, stack[p] # <<>>, Top(p).pc \in DOMAIN Code(p),
         Code(p)[Top(p).pc].op # "try"
  PROVE  /\ Top(p).env \in 1 .. Len(envs) /\ envs[Top(p).env].st = "run"
         /\ Code(p)[Top(p).pc] \in Stmt
<1>1. /\ ActOK(envs, p, Top(p)) /\ Len(envs) \in Nat /\ Code(p)[Top(p).pc] \in Stmt
      /\ Top(p).env = 0 => Code(p)[Top(p).pc].op = "try"
  BY TopFacts
<1>2. Top(p).env # 0
  BY <1>1
<1> QED BY <1>1, <1>2 DEF ActOK

\* Bindings of the innermost environment that may replace the old ones.
Rebinds(p, B) ==
  /\ B \in [Name -> BindingRec]
  /\ \A n \in Name : /\ BindingOK(envs, B[n], "run")
                     /\ Binding(p, n).val.k # "none" => B[n].val.k # "none"
                     /\ Binding(p, n).val.k \notin {"none", "uninit"} => B[n].val.k \notin {"none", "uninit"}

LEMMA RebindFills ==
  ASSUME LoadInv, NEW p \in Proc, stack[p] # <<>>, Top(p).env \in 1 .. Len(envs),
         envs[Top(p).env].st = "run", NEW B, Rebinds(p, B),
         envs' = [envs EXCEPT ![Top(p).env].bind = B]
  PROVE  /\ Fills(Top(p).env, envs') /\ Len(envs') = Len(envs)
         /\ envs'[Top(p).env].st = "run" /\ envs'[Top(p).env].bind = B
<1> DEFINE e == Top(p).env
<1>1. envs' = With(e, B, "run")
  BY BindIsWith
<1>2. MayBecome(e, B, "run")
  BY DEF MayBecome, Rebinds, Binding, Has, Ready
<1>3. e \in 1 .. Len(envs) /\ envs[e].st = "run"
  OBVIOUS
<1> HIDE DEF e
<1>4. /\ Fills(e, With(e, B, "run")) /\ Len(With(e, B, "run")) = Len(envs)
      /\ With(e, B, "run")[e].st = "run" /\ With(e, B, "run")[e].bind = B
  BY <1>2, <1>3, WriteEnv
<1>5. Fills(e, envs') /\ Len(envs') = Len(envs) /\ envs'[e].st = "run" /\ envs'[e].bind = B
  BY ONLY <1>1, <1>4
<1> QED BY <1>5 DEF e

\* The statement is refused.
LEMMA RefuseKeeps ==
  ASSUME LoadInv, NEW p \in Proc, stack[p] # <<>>, Top(p).pc \in DOMAIN Code(p),
         Code(p)[Top(p).pc].op # "try", Top(p).stage # "declare",
         NEW B, Rebinds(p, B), envs' = [envs EXCEPT ![Top(p).env].bind = B],
         Fails(p), UNCHANGED <<program, cache, stack, fatal>>
  PROVE  LoadInv'
<1>1. Top(p).env \in 1 .. Len(envs) /\ envs[Top(p).env].st = "run"
  BY AtStatement
<1>2. Fills(Top(p).env, envs') /\ envs'[Top(p).env].st = "run"
  BY <1>1, RebindFills
<1> QED BY <1>2, FailKeeps

\* The statement is done, and the name that it declares has a value.
LEMMA BindKeeps ==
  ASSUME LoadInv, NEW p \in Proc, stack[p] # <<>>, Top(p).pc \in DOMAIN Code(p),
         Code(p)[Top(p).pc].op # "try", Top(p).stage # "declare",
         NEW B, Rebinds(p, B), envs' = [envs EXCEPT ![Top(p).env].bind = B],
         Code(p)[Top(p).pc].op \in {"decl", "named"} =>
           B[Code(p)[Top(p).pc].name].val.k \notin {"none", "uninit"},
         SetTop(p, GoOn(Top(p))), UNCHANGED <<program, cache, failing, fatal>>
  PROVE  LoadInv'
<1> DEFINE a == Top(p)
           b == GoOn(a)
<1>1. a.env \in 1 .. Len(envs) /\ envs[a.env].st = "run"
  BY AtStatement
<1>2. Fills(a.env, envs') /\ envs'[a.env].st = "run" /\ envs'[a.env].bind = B
  BY <1>1, RebindFills
<1>3. /\ Shape /\ a \in ActRec /\ ActOK(envs, p, a) /\ envs \in Seq(EnvRec)
      /\ Code(p) = Source(envs, p, a)
  BY TopFacts
<1> HIDE DEF a
<1>4. ActOK(envs', p, a)
  <2>1. Grown(envs, envs') /\ a.stage # "declare"
    BY <1>2 DEF Fills, a
  <2> QED BY <1>1, <1>2, <1>3, <2>1, ActStays
<1>5. Source(envs', p, a) = Code(p)
  <2>1. Grown(envs, envs') /\ a.env \in 0 .. Len(envs)
    BY <1>2, <1>3 DEF Fills, ActOK
  <2> QED BY <1>3, <2>1, SourceKept
<1>6. Code(p)[a.pc].op \in {"decl", "named"} => Ready(envs', a.env, Code(p)[a.pc].name)
  BY <1>2 DEF Ready, a
<1>7. a.pc \in DOMAIN Source(envs', p, a) /\ a.stage # "declare"
      /\ (Source(envs', p, a)[a.pc].op \in {"decl", "named"} => Ready(envs', a.env, Source(envs', p, a)[a.pc].name))
  BY <1>5, <1>6 DEF a
<1>8. b \in ActRec /\ b.env = a.env /\ b.stage = "exec" /\ ActOK(envs', p, b)
  BY <1>3, <1>4, <1>7, GoOnOK
<1>9. SetTop(p, b)
  BY DEF a
<1> HIDE DEF b
<1> QED BY <1>2, <1>8, <1>9, SetTopKeeps DEF a

\* The bindings of p's environment with c for name n.
WithOne(p, n, c) == [envs[Top(p).env].bind EXCEPT ![n] = c]

LEMMA OneBinding ==
  ASSUME LoadInv, NEW p \in Proc, stack[p] # <<>>, Top(p).env \in 1 .. Len(envs),
         envs[Top(p).env].st = "run", NEW n \in Name, NEW c \in BindingRec, BindingOK(envs, c, "run"),
         Binding(p, n).val.k # "none" => c.val.k # "none",
         Binding(p, n).val.k \notin {"none", "uninit"} => c.val.k \notin {"none", "uninit"}
  PROVE  /\ Rebinds(p, WithOne(p, n, c)) /\ WithOne(p, n, c)[n] = c
         /\ SetBinding(p, n, c) => envs' = [envs EXCEPT ![Top(p).env].bind = WithOne(p, n, c)]
<1> DEFINE e == Top(p).env
           old == envs[e].bind
           B == [old EXCEPT ![n] = c]
<1>1. old \in [Name -> BindingRec] /\ EnvOK(envs, e) /\ envs[e] \in EnvRec
  BY EnvType
<1>2. \A x \in Name : BindingOK(envs, old[x], "run")
  BY <1>1 DEF EnvOK
<1>3. Binding(p, n) = old[n] /\ \A x \in Name : Binding(p, x) = old[x]
  BY DEF Binding
<1>4. SetBinding(p, n, c) => envs' = [envs EXCEPT ![e].bind = B]
  BY DEF SetBinding
<1> HIDE DEF old
<1>5. B[n] = c /\ B \in [Name -> BindingRec] /\ \A x \in Name : x # n => B[x] = old[x]
  BY <1>1
<1> HIDE DEF B
<1>6. Rebinds(p, B)
  BY <1>2, <1>3, <1>5 DEF Rebinds
<1> QED BY <1>4, <1>5, <1>6 DEF B, old, WithOne

LEMMA SoundIncoming ==
  ASSUME NEW v, Sound(v), v.k # "uninit"
  PROVE  Incoming(v)
BY DEF Sound, Incoming

LEMMA StoreKeeps ==
  ASSUME LoadInv, NEW p \in Proc, stack[p] # <<>>, Top(p).pc \in DOMAIN Code(p),
         Code(p)[Top(p).pc].op \in {"decl", "named"}, Top(p).stage # "declare",
         NEW n, n = Code(p)[Top(p).pc].name, NEW v, Incoming(v), NEW mut \in BOOLEAN,
         Store(p, n, v, mut), UNCHANGED <<program, cache, fatal>>
  PROVE  LoadInv'
<1> DEFINE e == Top(p).env
           x == Code(p)[Top(p).pc]
           b == Binding(p, n)
           overload == v.k = "fn" /\ IsGroup(b)
<1>1. e \in 1 .. Len(envs) /\ envs[e].st = "run" /\ x \in Stmt
  BY AtStatement
<1>2. n \in Name
  <2> HIDE DEF x
  <2>1. x.op \in {"decl", "named"} /\ n = x.name
    BY DEF x
  <2> QED BY <1>1, <2>1, StmtFields
<1>3. b \in BindingRec /\ BindingOK(envs, b, "run")
  BY <1>1, <1>2, BindType DEF Binding
<1>4. CASE ~overload /\ Refused(b, v)
  <2>1. PICK c \in Remains(b, v, FALSE) : SetBinding(p, n, c)
    BY <1>4 DEF Store
  <2>2. Fails(p) /\ UNCHANGED stack
    BY <1>4 DEF Store
  <2>3. /\ c \in BindingRec /\ BindingOK(envs, c, "run")
        /\ b.val.k # "none" => c.val.k # "none"
        /\ b.val.k \notin {"none", "uninit"} => c.val.k \notin {"none", "uninit"}
    <3>1. FALSE \in BOOLEAN
      OBVIOUS
    <3> HIDE DEF b
    <3> QED BY <1>3, <1>4, <2>1, <3>1, RemainsOK
  <2> DEFINE B == WithOne(p, n, c)
  <2>4. Rebinds(p, B) /\ envs' = [envs EXCEPT ![e].bind = B]
    BY <1>1, <1>2, <2>1, <2>3, OneBinding
  <2> HIDE DEF B
  <2> QED BY <2>2, <2>4, RefuseKeeps
<1>5. CASE ~(~overload /\ Refused(b, v))
  <2> DEFINE c == IF overload THEN [b EXCEPT !.val.fns = Over(NewFns(v), @)]
                  ELSE Defined(b, v, mut, FALSE, FALSE)
  <2>1. SetBinding(p, n, c) /\ SetTop(p, GoOn(Top(p))) /\ UNCHANGED failing
    BY <1>5 DEF Store
  <2>2. Settled(c)
    <3>1. CASE overload
      <4>1. Settled([b EXCEPT !.val.fns = Over(NewFns(v), @)])
        <5> HIDE DEF b
        <5> QED BY <1>3, <3>1, OverloadOK
      <4> QED BY <3>1, <4>1
    <3>2. CASE ~overload
      <4>1. Settled(Defined(b, v, mut, FALSE, FALSE))
        <5> HIDE DEF b
        <5> QED BY <1>3, DefinedOK
      <4> QED BY <3>2, <4>1
    <3> QED BY <3>1, <3>2
  <2> HIDE DEF c, overload
  <2>3. c \in BindingRec /\ BindingOK(envs, c, "run") /\ c.val.k \notin {"none", "uninit"}
    BY <2>2 DEF Settled
  <2> DEFINE B == WithOne(p, n, c)
  <2>4. Rebinds(p, B) /\ envs' = [envs EXCEPT ![e].bind = B] /\ B[n] = c
    <3>1. /\ Binding(p, n).val.k # "none" => c.val.k # "none"
          /\ Binding(p, n).val.k \notin {"none", "uninit"} => c.val.k \notin {"none", "uninit"}
      BY <2>3
    <3> QED BY <1>1, <1>2, <2>1, <2>3, <3>1, OneBinding
  <2> HIDE DEF B
  <2>5. B[x.name].val.k \notin {"none", "uninit"} /\ x.op # "try"
    BY <2>3, <2>4
  <2> QED BY <2>1, <2>4, <2>5, BindKeeps
<1> QED BY <1>4, <1>5

LEMMA DeclStepKeeps ==
  ASSUME LoadInv, NEW p \in Proc, DeclStep(p)
  PROVE  LoadInv'
<1> DEFINE a == Top(p)
           x == Code(p)[a.pc]
           at == <<a.env, a.pc>>
           v == IF x.sig = 0 THEN Lit(at) ELSE Fn(x.sig, at)
<1>1. stack[p] # <<>> /\ a.stage = "exec" /\ a.pc <= Len(Code(p)) /\ x.op = "decl"
  BY DEF DeclStep, At, Stage, Active, Current
<1>2. /\ a \in ActRec /\ DOMAIN Code(p) = 1 .. Len(Code(p)) /\ Len(Code(p)) \in Nat
  BY <1>1, TopFacts
<1>3. a.pc \in DOMAIN Code(p) /\ at \in Position
  BY <1>1, <1>2 DEF ActRec, Position
<1>4. Store(p, x.name, v, x.mut) /\ UNCHANGED <<program, cache, fatal>>
  BY DEF DeclStep, Current
<1>5. x \in Stmt
  BY <1>1, <1>3, TopFacts
<1> HIDE DEF x, at
<1>6. x.sig \in Nat /\ x.mut \in BOOLEAN
  BY <1>1, <1>5, StmtFields
<1>7. Incoming(v)
  <2>1. CASE x.sig = 0
    <3>1. v = [k |-> "lit", at |-> at]
      BY <2>1 DEF Lit
    <3> HIDE DEF v
    <3>2. v \in Held /\ v.k = "lit"
      BY <1>3, <3>1 DEF Held
    <3> QED BY <3>2 DEF Incoming
  <2>2. CASE x.sig # 0
    <3>1. v = [k |-> "fn", sig |-> x.sig, at |-> at]
      BY <2>2 DEF Fn
    <3> HIDE DEF v
    <3>2. v \in [k : {"fn"}, sig : Nat, at : Position] /\ v.k = "fn"
      BY <1>3, <1>6, <3>1
    <3> QED BY <3>2 DEF Incoming
  <2> QED BY <2>1, <2>2
<1> HIDE DEF v
<1> DEFINE n == x.name
<1>8. n = Code(p)[Top(p).pc].name /\ Code(p)[Top(p).pc].op \in {"decl", "named"}
  BY <1>1 DEF x
<1>9. Store(p, n, v, x.mut)
  BY <1>4
<1> HIDE DEF n
<1> QED BY <1>1, <1>3, <1>4, <1>6, <1>7, <1>8, <1>9, StoreKeeps

\* A value of the map that import returns.
LEMMA MapValueOK ==
  ASSUME LoadInv, NEW v \in Collected, CollectedOK(envs, v), v.k # "none"
  PROVE  Sound(MapValue(v)) /\ MapValue(v).k # "uninit"
<1>1. v.env \in 1 .. Len(envs) /\ v.name \in Name /\ Has(envs, v.env, v.name)
  BY DEF Collected, CollectedOK
<1>2. CASE v.k = "group"
  <2>1. IsGroup(envs[v.env].bind[v.name]) /\ MapValue(v) = envs[v.env].bind[v.name].val
    BY <1>2 DEF CollectedOK, MapValue
  <2>2. Sound(envs[v.env].bind[v.name].val)
    BY <1>1, SlotSound
  <2> QED BY <2>1, <2>2 DEF IsGroup
<1>3. CASE v.k # "group"
  <2>1. v.k = "ref" /\ MapValue(v) = v /\ v \in [k : {"ref"}, env : Nat, name : Name]
    BY <1>3 DEF Collected, MapValue
  <2> QED BY <1>1, <2>1 DEF Sound, Held
<1> QED BY <1>2, <1>3

\* What `val {n} = import(...)` binds.
NamedValue(p, n) == LET v == MapValue(Top(p).temp[n])
                    IN  IF v = NoValue THEN Nil ELSE Resolve(v)

LEMMA NamedIncoming ==
  ASSUME LoadInv, NEW p \in Proc, stack[p] # <<>>, NEW n \in Name, ~Faults(MapValue(Top(p).temp[n]))
  PROVE  Incoming(NamedValue(p, n)) /\ NamedValue(p, n) \in Held
<1> DEFINE a == Top(p)
           v == MapValue(a.temp[n])
           w == IF v = NoValue THEN Nil ELSE Resolve(v)
<1>0. ~Faults(v)
  OBVIOUS
<1>1. a.temp[n] \in Collected /\ CollectedOK(envs, a.temp[n])
  BY TopFacts DEF ActRec, ActOK
<1>2. CASE a.temp[n].k = "none"
  <2>1. v = NoValue
    <3>1. a.temp[n] = [k |-> "none"]
      BY <1>1, <1>2 DEF Collected
    <3>2. MapValue(a.temp[n]) = a.temp[n]
      BY <1>2 DEF MapValue
    <3> QED BY <3>1, <3>2 DEF NoValue
  <2>2. w = Nil
    BY <2>1
  <2>3. Nil \in Held /\ Nil.k = "nil"
    BY DEF Nil, Held
  <2>4. Incoming(w) /\ w \in Held
    BY <2>2, <2>3 DEF Incoming
  <2> QED BY <2>4 DEF NamedValue
<1>3. CASE a.temp[n].k # "none"
  <2>1. Sound(v) /\ v.k # "uninit"
    <3> DEFINE u == a.temp[n]
    <3>1. u \in Collected /\ CollectedOK(envs, u) /\ u.k # "none"
      BY <1>1, <1>3
    <3> HIDE DEF u
    <3>2. Sound(MapValue(u)) /\ MapValue(u).k # "uninit"
      BY <3>1, MapValueOK
    <3> QED BY <3>2 DEF u
  <2>2. v # NoValue
    <3>1. v.k # "none"
      <4> HIDE DEF v
      <4> QED BY <2>1 DEF Sound, Held
    <3> QED BY <3>1 DEF NoValue
  <2>3. w = Resolve(v)
    BY <2>2
  <2> HIDE DEF v, w
  <2>4. Sound(w) /\ (v.k # "ref" => w = v)
    BY <2>1, <2>3, ResolveSound
  <2>5. w.k # "uninit"
    <3>1. CASE v.k # "ref"
      BY <2>1, <2>4, <3>1
    <3>2. CASE v.k = "ref"
      <4>1. w # Uninit
        BY <1>0, <2>3, <3>2 DEF Faults
      <4> QED BY <2>4, <4>1 DEF Sound, Held, Uninit
    <3> QED BY <3>1, <3>2
  <2>6. Incoming(w) /\ w \in Held
    BY <2>4, <2>5, SoundIncoming DEF Sound
  <2> QED BY <2>6 DEF NamedValue, w, v
<1> QED BY <1>2, <1>3

LEMMA BindNamedKeeps ==
  ASSUME LoadInv, NEW p \in Proc, BindNamed(p)
  PROVE  LoadInv'
<1> DEFINE a == Top(p)
           x == Code(p)[a.pc]
           v == MapValue(a.temp[x.name])
           w == IF v = NoValue THEN Nil ELSE Resolve(v)
<1>1. stack[p] # <<>> /\ a.stage = "bind" /\ x.op = "named"
  BY DEF BindNamed, Stage, Active, Current
<1>2. /\ a \in ActRec /\ ActOK(envs, p, a) /\ Code(p) = Source(envs, p, a)
  BY <1>1, TopFacts
<1>3. a.pc \in DOMAIN Code(p)
  BY <1>1, <1>2 DEF ActOK, Importing
<1>4. x \in Stmt
  BY <1>1, <1>3, TopFacts
<1>5. UNCHANGED <<program, cache, fatal>>
  BY DEF BindNamed
<1>6. CASE Faults(v)
  <2>1. Fails(p) /\ UNCHANGED <<envs, stack>>
    BY <1>6 DEF BindNamed, Current
  <2>2. Top(p).stage # "declare"
    BY <1>1
  <2> QED BY <1>1, <1>5, <2>1, <2>2, FailSameKeeps
<1>7. CASE ~Faults(v)
  <2>1. Store(p, x.name, w, x.mut)
    BY <1>7 DEF BindNamed, Current
  <2> DEFINE n == x.name
             mut == x.mut
  <2>2. n \in Name /\ mut \in BOOLEAN
    <3> HIDE DEF x
    <3> QED BY <1>1, <1>4, StmtFields
  <2>3. Incoming(w)
    <3>1. w = NamedValue(p, n)
      BY DEF NamedValue
    <3>2. Incoming(NamedValue(p, n))
      BY <1>1, <1>7, <2>2, NamedIncoming
    <3> QED BY <3>1, <3>2
  <2> HIDE DEF v, w
  <2>4. /\ n = Code(p)[Top(p).pc].name /\ Code(p)[Top(p).pc].op \in {"decl", "named"}
        /\ Top(p).stage # "declare" /\ Store(p, n, w, mut) /\ Top(p).pc \in DOMAIN Code(p)
    BY <1>1, <1>3, <2>1
  <2> HIDE DEF n, mut
  <2> QED BY <1>1, <1>5, <2>2, <2>3, <2>4, StoreKeeps
<1> QED BY <1>6, <1>7

\* What `val {*} = import(...)` binds.
StarValues(p) == [n \in Name |-> MapValue(Top(p).temp[n])]
StarValue(p, n) == StarValues(p)[n]
StarNames(p) == {n \in Name : StarValue(p, n) # NoValue}
StarBound(p, some) ==
  [n \in Name |-> IF n \in some THEN Defined(Binding(p, n), StarValue(p, n), Current(p).mut, FALSE, TRUE)
                  ELSE Binding(p, n)]

LEMMA StarIncoming ==
  ASSUME LoadInv, NEW p \in Proc, stack[p] # <<>>, NEW n \in StarNames(p)
  PROVE  Incoming(StarValue(p, n))
<1> DEFINE u == Top(p).temp[n]
<1>1. n \in Name /\ MapValue(u) # NoValue
  BY DEF StarNames, StarValue, StarValues
<1>2. u \in Collected /\ CollectedOK(envs, u)
  BY <1>1, TopFacts DEF ActRec, ActOK
<1> HIDE DEF u
<1>3. u.k # "none"
  <2> SUFFICES ASSUME u.k = "none" PROVE FALSE
    OBVIOUS
  <2>1. u = [k |-> "none"]
    BY <1>2 DEF Collected
  <2>2. MapValue(u) = u
    BY DEF MapValue
  <2> QED BY <1>1, <2>1, <2>2 DEF NoValue
<1>4. Sound(MapValue(u)) /\ MapValue(u).k # "uninit"
  BY <1>2, <1>3, MapValueOK
<1> DEFINE w == MapValue(u)
<1> HIDE DEF w
<1>5. Incoming(w)
  BY <1>4, SoundIncoming DEF w
<1> QED BY <1>1, <1>5 DEF w, u, StarValue, StarValues

LEMMA StarRebinds ==
  ASSUME LoadInv, NEW p \in Proc, stack[p] # <<>>, Top(p).env \in 1 .. Len(envs),
         envs[Top(p).env].st = "run", Current(p).mut \in BOOLEAN,
         NEW some \in SUBSET StarNames(p)
  PROVE  Rebinds(p, StarBound(p, some)) /\ \A n \in Name : Binding(p, n) \in BindingRec /\ BindingOK(envs, Binding(p, n), "run")
<1> DEFINE B == StarBound(p, some)
<1>1. \A n \in Name : Binding(p, n) \in BindingRec /\ BindingOK(envs, Binding(p, n), "run")
  BY BindType DEF Binding
<1>2. ASSUME NEW n \in Name
      PROVE  /\ B[n] \in BindingRec /\ BindingOK(envs, B[n], "run")
             /\ Binding(p, n).val.k # "none" => B[n].val.k # "none"
             /\ Binding(p, n).val.k \notin {"none", "uninit"} => B[n].val.k \notin {"none", "uninit"}
  <2>1. CASE n \in some
    <3> DEFINE b == Binding(p, n)
               v == StarValue(p, n)
               mut == Current(p).mut
    <3>1. B[n] = Defined(b, v, mut, FALSE, TRUE)
      BY <2>1 DEF StarBound
    <3>2. Incoming(v) /\ b \in BindingRec /\ mut \in BOOLEAN /\ TRUE \in BOOLEAN
      BY <1>1, <2>1, StarIncoming
    <3> HIDE DEF b, v, mut, B
    <3>3. Settled(B[n])
      BY <3>1, <3>2, DefinedOK
    <3> QED BY <3>3 DEF Settled
  <2>2. CASE n \notin some
    <3>1. B[n] = Binding(p, n)
      BY <2>2 DEF StarBound
    <3> HIDE DEF B
    <3> QED BY <1>1, <3>1
  <2> QED BY <2>1, <2>2
<1>3. B = [n \in Name |-> B[n]]
  BY DEF StarBound
<1> HIDE DEF B
<1>4. Rebinds(p, B)
  BY <1>2, <1>3 DEF Rebinds
<1> QED BY <1>1, <1>4 DEF B

LEMMA BindStarKeeps ==
  ASSUME LoadInv, NEW p \in Proc, BindStar(p)
  PROVE  LoadInv'
<1> DEFINE a == Top(p)
           e == a.env
           x == Code(p)[a.pc]
           names == StarNames(p)
           refused == {n \in names : Refused(Binding(p, n), StarValue(p, n))}
<1>1. stack[p] # <<>> /\ a.stage = "bind" /\ x.op = "star"
  BY DEF BindStar, Stage, Active, Current
<1>2. /\ a \in ActRec /\ ActOK(envs, p, a) /\ Code(p) = Source(envs, p, a)
  BY <1>1, TopFacts
<1>3. a.pc \in DOMAIN Code(p)
  BY <1>1, <1>2 DEF ActOK, Importing
<1>4. x \in Stmt /\ e \in 1 .. Len(envs) /\ envs[e].st = "run" /\ x.op # "try"
  BY <1>1, <1>3, AtStatement
<1>5. Current(p).mut \in BOOLEAN
  <2>1. Current(p) = x
    BY DEF Current
  <2> HIDE DEF x
  <2> QED BY <1>1, <1>4, <2>1, StmtFields
<1>6. UNCHANGED <<program, cache, fatal>>
  BY DEF BindStar
<1>7. CASE refused = {}
  <2>1. envs' = [envs EXCEPT ![e].bind = StarBound(p, names)] /\ SetTop(p, GoOn(a)) /\ UNCHANGED failing
    BY <1>7 DEF BindStar, StarBound, StarNames, StarValue, StarValues
  <2> DEFINE B == StarBound(p, names)
  <2>2. Rebinds(p, B)
    BY <1>1, <1>4, <1>5, StarRebinds
  <2> HIDE DEF B
  <2>3. envs' = [envs EXCEPT ![Top(p).env].bind = B] /\ SetTop(p, GoOn(Top(p))) /\ UNCHANGED failing
    BY <2>1 DEF B
  <2>4. /\ Top(p).pc \in DOMAIN Code(p) /\ Code(p)[Top(p).pc].op # "try" /\ Top(p).stage # "declare"
        /\ ~(Code(p)[Top(p).pc].op \in {"decl", "named"})
    BY <1>1, <1>3
  <2> QED BY <1>1, <1>6, <2>2, <2>3, <2>4, BindKeeps
<1>8. CASE refused # {}
  <2>1. PICK n \in refused, some \in SUBSET (names \ refused) :
          \E b \in Remains(Binding(p, n), StarValue(p, n), TRUE) :
            envs' = [envs EXCEPT ![e].bind = [StarBound(p, some) EXCEPT ![n] = b]]
    BY <1>8 DEF BindStar, StarBound, StarNames, StarValue, StarValues
  <2>2. PICK c \in Remains(Binding(p, n), StarValue(p, n), TRUE) :
          envs' = [envs EXCEPT ![e].bind = [StarBound(p, some) EXCEPT ![n] = c]]
    BY <2>1
  <2>3. Fails(p) /\ UNCHANGED stack
    BY <1>8 DEF BindStar, StarBound, StarNames, StarValue, StarValues
  <2> DEFINE D == StarBound(p, some)
             b == Binding(p, n)
             v == StarValue(p, n)
             B == [D EXCEPT ![n] = c]
  <2>4. n \in names /\ n \in Name /\ Refused(b, v) /\ some \subseteq names
    BY DEF StarNames
  <2>5. Rebinds(p, D) /\ b \in BindingRec /\ BindingOK(envs, b, "run") /\ Incoming(v)
    BY <1>1, <1>4, <1>5, <2>4, StarRebinds, StarIncoming
  <2>6. c \in Remains(b, v, TRUE) /\ TRUE \in BOOLEAN
    OBVIOUS
  <2>7. envs' = [envs EXCEPT ![Top(p).env].bind = B]
    BY <2>2
  <2> HIDE DEF D, b, v, names, refused, e
  <2>8. /\ c \in BindingRec /\ BindingOK(envs, c, "run")
        /\ b.val.k # "none" => c.val.k # "none"
        /\ b.val.k \notin {"none", "uninit"} => c.val.k \notin {"none", "uninit"}
    BY <2>4, <2>5, <2>6, RemainsOK
  <2>9. Rebinds(p, B)
    <3>1. D \in [Name -> BindingRec]
      BY <2>5 DEF Rebinds
    <3>2. B \in [Name -> BindingRec] /\ B[n] = c /\ \A y \in Name : y # n => B[y] = D[y]
      BY <2>4, <2>8, <3>1
    <3> HIDE DEF B
    <3>3. ASSUME NEW y \in Name
          PROVE  /\ BindingOK(envs, B[y], "run")
                 /\ Binding(p, y).val.k # "none" => B[y].val.k # "none"
                 /\ Binding(p, y).val.k \notin {"none", "uninit"} => B[y].val.k \notin {"none", "uninit"}
      <4>1. CASE y = n
        BY <4>1, <2>8, <3>2 DEF b
      <4>2. CASE y # n
        BY <4>2, <2>5, <3>2 DEF Rebinds
      <4> QED BY <4>1, <4>2
    <3> QED BY <3>2, <3>3 DEF Rebinds
  <2> HIDE DEF B
  <2>10. /\ Top(p).pc \in DOMAIN Code(p) /\ Code(p)[Top(p).pc].op # "try" /\ Top(p).stage # "declare"
    BY <1>1, <1>3
  <2> QED BY <1>1, <1>6, <2>3, <2>7, <2>9, <2>10, RefuseKeeps
<1> QED BY <1>7, <1>8

----------------------------------------------------------------------------
(* The invariant holds *)

LEMMA LoadInit == Init => LoadInv
<1> SUFFICES ASSUME Init PROVE LoadInv
  OBVIOUS
<1> DEFINE first == [mod |-> MainModule, bind |-> Empty, st |-> "run"]
<1>1. first \in EnvRec /\ first.mod = MainModule /\ first.bind = Empty /\ first.st = "run"
  BY NoBindingOK, ModulesAssumption DEF EnvRec, Empty
<1>2. envs = <<first>>
  BY DEF Init
<1> HIDE DEF first
<1>3. envs \in Seq(EnvRec) /\ Len(envs) = 1 /\ envs[1] = first
  BY <1>1, <1>2
<1>4. NoTemp \in [Name -> Collected] /\ <<>> \in Seq(Module)
  BY DEF NoTemp, NoValue, Collected
<1>5. ASSUME NEW p \in Proc
      PROVE  /\ stack[p] \in Seq(ActRec) /\ Len(stack[p]) = 1 /\ DOMAIN stack[p] = {1}
             /\ stack[p][1].env = (IF p = Main THEN 1 ELSE 0) /\ stack[p][1].pc = 1
             /\ stack[p][1].stage = "exec" /\ stack[p][1].temp = NoTemp /\ stack[p][1].got = 0
             /\ stack[p] # <<>>
  <2> DEFINE e == IF p = Main THEN 1 ELSE 0
             a == Activation(e, "exec")
  <2>1. stack[p] = <<a>>
    BY DEF Init
  <2>2. e \in Nat
    OBVIOUS
  <2>3. /\ a \in ActRec /\ a.env = e /\ a.pc = 1 /\ a.stage = "exec" /\ a.temp = NoTemp /\ a.got = 0
    <3> HIDE DEF e
    <3> QED BY <1>4, <2>2 DEF Activation, ActRec, Importing, Loading
  <2> HIDE DEF a
  <2>4. stack[p] \in Seq(ActRec) /\ Len(stack[p]) = 1 /\ DOMAIN stack[p] = {1} /\ stack[p][1] = a
    BY <2>1, <2>3
  <2>5. stack[p] # <<>>
    BY <2>4
  <2> QED BY <2>3, <2>4, <2>5
<1>6. Shape
  <2>1. program \in [Module -> Seq(Stmt)]
    BY ModulesAssumption DEF Init
  <2>2. cache \in [Module -> 0 .. Len(envs)]
    BY <1>3 DEF Init
  <2>3. stack \in [Proc -> Seq(ActRec)]
    <3>1. stack = [p \in Proc |-> stack[p]]
      BY DEF Init
    <3> QED BY <1>5, <3>1
  <2>4. failing \subseteq Proc /\ fatal \in BOOLEAN
    BY DEF Init
  <2> QED BY <1>3, <2>1, <2>2, <2>3, <2>4 DEF Shape
<1>7. \A e \in 1 .. Len(envs) : EnvOK(envs, e)
  <2>1. \A n \in Name : envs[1].bind[n] = NoBinding
    BY <1>1, <1>3 DEF Empty
  <2>2. EnvOK(envs, 1)
    BY <2>1, <1>1, <1>3, NoBindingOK DEF EnvOK
  <2> QED BY <1>3, <2>2
<1>8. ASSUME NEW p \in Proc PROVE StackOK(envs, p \in failing, p, stack[p])
  <2> DEFINE a == stack[p][1]
  <2>1. ActOK(envs, p, a)
    <3>1. \A n \in Name : CollectedOK(envs, a.temp[n]) /\ a.temp[n].k = "none"
      BY <1>5 DEF NoTemp, NoValue, CollectedOK
    <3>2. Executed(envs, p, a)
      BY <1>5 DEF Executed
    <3>3. a.env \in 0 .. Len(envs) /\ a.got \in 0 .. Len(envs)
          /\ (IF a.env = 0 THEN p # Main ELSE envs[a.env].st = "run")
      BY <1>1, <1>3, <1>5
    <3>4. a.stage = "exec"
      BY <1>5
    <3> HIDE DEF a
    <3> QED BY <3>1, <3>2, <3>3, <3>4 DEF ActOK, Importing, Loading
  <2>2. a.stage = "exec" /\ a.env = (IF p = Main THEN 1 ELSE 0)
    BY <1>5
  <2>3. \A i \in DOMAIN stack[p] : i = 1
    BY <1>5
  <2>4. \A i \in DOMAIN stack[p] : stack[p][i] = a /\ ~(i < Len(stack[p])) /\ ~(i > 1)
    <3> SUFFICES ASSUME NEW i \in DOMAIN stack[p]
                 PROVE  stack[p][i] = a /\ ~(i < Len(stack[p])) /\ ~(i > 1)
      OBVIOUS
    <3>1. i = 1 /\ Len(stack[p]) = 1
      BY <1>5, <2>3
    <3> QED BY <3>1
  <2> HIDE DEF a
  <2> QED BY <2>1, <2>2, <2>4 DEF StackOK
<1>9. Alone
  <2> SUFFICES ASSUME NEW p \in Proc, NEW q \in Proc, stack[p][1].env # 0, stack[p][1].env = stack[q][1].env
               PROVE  p = q
    BY <1>5 DEF Alone
  <2> QED BY <1>5
<1>10. failing = {}
  BY DEF Init
<1> QED BY <1>6, <1>7, <1>8, <1>9, <1>10 DEF LoadInv

\* Only the process may have been ended.
LEMMA SameKeeps ==
  ASSUME LoadInv, UNCHANGED <<program, cache, envs, stack, failing>>, fatal' \in BOOLEAN
  PROVE  LoadInv'
<1>1. Main \in Proc
  BY ModulesAssumption
<1> DEFINE s == stack[Main]
<1>2. Shape /\ stack \in [Proc -> Seq(ActRec)] /\ Alone /\ StackOK(envs, Main \in failing, Main, s)
      /\ (Main \in failing => s # <<>>)
  BY <1>1 DEF LoadInv, Shape
<1>3. s \in Seq(ActRec) /\ stack' = [stack EXCEPT ![Main] = s]
  BY <1>1, <1>2
<1>4. Follows(Main, s)
  BY <1>1, <1>2 DEF Follows, Alone
<1>5. Fills(0, envs') /\ Own(Main, 0)
  BY FillsSame DEF Own
<1>6. cache' \in [Module -> 0 .. Len(envs')] /\ failing' \subseteq Proc
  BY <1>2 DEF Shape
<1> HIDE DEF s
<1> QED BY <1>1, <1>2, <1>3, <1>4, <1>5, <1>6, LoadStep

LEMMA StepKeeps ==
  ASSUME LoadInv, NEW p \in Proc, Step(p)
  PROVE  LoadInv'
<1>1. CASE ReadFails(p)
  <2>1. stack[p] # <<>> /\ Top(p).stage # "declare"
    BY <1>1 DEF ReadFails, Stage, Active
  <2> QED BY <1>1, <2>1, FailSameKeeps DEF ReadFails
<1>2. CASE FailStep(p)
  <2>1. stack[p] # <<>> /\ Top(p).stage # "declare"
    BY <1>2 DEF FailStep, At, Stage, Active
  <2> QED BY <1>2, <2>1, FailSameKeeps DEF FailStep
<1> QED BY <1>1, <1>2, ImportKeeps, CheckCacheKeeps, PutKeeps, DeclareKeeps, FinishKeeps,
           UnwindKeeps, MergeKeeps, BindStarKeeps, IgnoreImportKeeps, DeclStepKeeps,
           BindNamedKeeps, UseKeeps DEF Step

LEMMA NextKeeps ==
  ASSUME LoadInv, [Next]_vars
  PROVE  LoadInv'
<1>1. ASSUME NEW p \in Proc, NEW q \in Proc, MapRace(p, q) PROVE LoadInv'
  BY <1>1, SameKeeps DEF MapRace
<1>2. CASE UNCHANGED vars
  <2>1. fatal' \in BOOLEAN
    BY <1>2 DEF LoadInv, Shape, vars
  <2> QED BY <1>2, <2>1, SameKeeps DEF vars
<1>3. Ended => UNCHANGED vars
  BY DEF Ended
<1> QED BY <1>1, <1>2, <1>3, StepKeeps DEF Next

\* The runtime's maps and every load in progress keep their shape, whatever
\* modules import, export, redefine or fail to load, and however many
\* goroutines import at the same time.
THEOREM Loads == Spec => []LoadInv
<1>1. Init => LoadInv
  BY LoadInit
<1>2. LoadInv /\ [Next]_vars => LoadInv'
  BY NextKeeps
<1> QED BY <1>1, <1>2, PTL DEF Spec

\* The state has the shape of the runtime's maps and of LoadModule's locals.
THEOREM TypeCorrect == Spec => []TypeOK
<1>1. LoadInv => TypeOK
  <2> SUFFICES ASSUME LoadInv PROVE TypeOK
    OBVIOUS
  <2>1. Shape
    BY DEF LoadInv
  <2>2. \A e \in DOMAIN envs : /\ envs[e].mod \in Module /\ envs[e].st \in {"run", "done", "failed"}
                               /\ DOMAIN envs[e].bind = Name
    <3> SUFFICES ASSUME NEW e \in DOMAIN envs
                 PROVE  /\ envs[e].mod \in Module /\ envs[e].st \in {"run", "done", "failed"}
                        /\ DOMAIN envs[e].bind = Name
      OBVIOUS
    <3>1. envs[e] \in EnvRec
      BY <2>1, SeqElements DEF Shape
    <3> QED BY <3>1 DEF EnvRec
  <2>3. \A p \in Proc : \A i \in DOMAIN stack[p] :
          LET a == stack[p][i]
          IN  /\ a.env \in 0 .. Len(envs) /\ a.got \in 0 .. Len(envs)
              /\ a.stage = "load" => i < Len(stack[p]) \/ p \in failing
              /\ a.stage = "merge" => a.got # 0 /\ a.todo # <<>>
    <3> SUFFICES ASSUME NEW p \in Proc, NEW i \in DOMAIN stack[p]
                 PROVE  LET a == stack[p][i]
                        IN  /\ a.env \in 0 .. Len(envs) /\ a.got \in 0 .. Len(envs)
                            /\ a.stage = "load" => i < Len(stack[p]) \/ p \in failing
                            /\ a.stage = "merge" => a.got # 0 /\ a.todo # <<>>
      OBVIOUS
    <3>1. StackOK(envs, p \in failing, p, stack[p]) /\ stack[p] \in Seq(ActRec)
      BY <2>1 DEF LoadInv, Shape
    <3>2. i < Len(stack[p]) \/ i = Len(stack[p])
      BY <3>1, SeqElements
    <3> QED BY <3>1, <3>2 DEF StackOK, ActOK, Loading
  <2> QED BY <2>1, <2>2, <2>3 DEF TypeOK, Shape
<1> QED BY <1>1, Loads, PTL

\* applyTopLevelExportMetadata at the end of a load: a module that is loaded
\* exports every name that it declares as exported, with a value, although
\* executing its declarations has cleared their export flags.
THEOREM ExportsAreComplete == Spec => []ExportsComplete
<1>1. LoadInv => ExportsComplete
  <2> SUFFICES ASSUME LoadInv, NEW e \in DOMAIN envs, envs[e].st = "done", e # 1,
                      NEW n \in Exports(envs[e].mod)
               PROVE  envs[e].bind[n].export /\ envs[e].bind[n].val \notin {NoValue, Uninit}
    BY DEF ExportsComplete
  <2>1. e \in 1 .. Len(envs)
    BY SeqElements DEF LoadInv, Shape
  <2>2. Complete(envs[e].mod, envs[e].bind)
    BY <2>1 DEF LoadInv, EnvOK
  <2>3. envs[e].bind[n].export /\ envs[e].bind[n].val.k \notin {"none", "uninit"}
    BY <2>2 DEF Complete
  <2> QED BY <2>3 DEF NoValue, Uninit
<1> QED BY <1>1, Loads, PTL

----------------------------------------------------------------------------
(* What a step leaves alone *)

\* The environments F are those that there are, and outside environment d no
\* function of a group is replaced.
Same(F, d) ==
  /\ Len(F) = Len(envs)
  /\ \A e \in 1 .. Len(envs) :
       /\ F[e].mod = envs[e].mod
       /\ e # d => \A n \in Name : IsGroup(envs[e].bind[n]) => F[e].bind[n].val.fns = envs[e].bind[n].val.fns

LEMMA WithSame ==
  ASSUME LoadInv, NEW e \in 1 .. Len(envs), NEW B, NEW st
  PROVE  Same(With(e, B, st), e)
<1> DEFINE F == With(e, B, st)
           r == [mod |-> envs[e].mod, bind |-> B, st |-> st]
<1>1. envs \in Seq(EnvRec) /\ DOMAIN envs = 1 .. Len(envs)
  BY SeqElements DEF LoadInv, Shape
<1>2. r.mod = envs[e].mod
  OBVIOUS
<1> HIDE DEF r
<1>3. Len(F) = Len(envs) /\ F[e] = r /\ \A d \in 1 .. Len(envs) : d # e => F[d] = envs[d]
  BY <1>1 DEF With, r
<1> HIDE DEF F
<1> QED BY <1>2, <1>3 DEF Same, F

LEMMA UnchangedSame ==
  ASSUME NEW d, envs' = envs
  PROVE  Same(envs', d)
BY DEF Same

LEMMA DelegatedSame ==
  ASSUME LoadInv, NEW p \in Proc, stack[p] # <<>>, Top(p).stage = "merge", NEW u
  PROVE  Same(Delegated(p), u)
<1> DEFINE F == Delegated(p)
           n == Len(envs)
<1>1. /\ envs \in Seq(EnvRec) /\ n \in Nat /\ DOMAIN envs = 1 .. n
      /\ \A d \in 1 .. n : envs[d] \in EnvRec
  BY SeqElements DEF LoadInv, Shape
<1>2. F = [d \in 1 .. n |-> [envs[d] EXCEPT !.bind = Extension(p, d, envs[d].bind)]]
  BY <1>1 DEF Delegated, Extension, Extended
<1>3. Len(F) = n
  BY DelegatedOK
<1>4. ASSUME NEW d \in 1 .. n
      PROVE  F[d].mod = envs[d].mod /\ F[d].bind = Extension(p, d, envs[d].bind)
  <2> DEFINE B == Extension(p, d, envs[d].bind)
  <2>1. F[d] = [envs[d] EXCEPT !.bind = B]
    BY <1>2
  <2> HIDE DEF B, F
  <2>2. F[d].mod = envs[d].mod /\ F[d].bind = B
    BY <1>1, <2>1 DEF EnvRec
  <2> QED BY <2>2 DEF B
<1>5. ASSUME NEW d \in 1 .. n, NEW x \in Name, IsGroup(envs[d].bind[x])
      PROVE  Extension(p, d, envs[d].bind)[x].val.fns = envs[d].bind[x].val.fns
  <2> DEFINE b == envs[d].bind[x]
             e == Top(p).got
             c == Extension(p, d, envs[d].bind)[x]
  <2>1. c = b \/ c = Extended(b, e, x)
    BY DEF Extension
  <2>2. b \in BindingRec /\ b.val.k = "group"
    BY <1>5, BindType DEF IsGroup
  <2> HIDE DEF b, c
  <2>3. b.val \in [k : {"group"}, fns : Fns, delegates : SUBSET (Nat \X Name)]
    BY <2>2 DEF BindingRec, Slot, Held
  <2>4. Extended(b, e, x).val.fns = b.val.fns
    <3> DEFINE w == [b.val EXCEPT !.delegates = @ \cup {<<e, x>>}]
    <3>1. Extended(b, e, x) = [b EXCEPT !.val = w]
      BY <2>2, <2>3 DEF Extended, BindingRec
    <3>2. w.fns = b.val.fns
      BY <2>3
    <3> HIDE DEF w
    <3> QED BY <2>2, <3>1, <3>2 DEF BindingRec
  <2>5. c.val.fns = b.val.fns
    BY <2>1, <2>4
  <2> QED BY <2>5 DEF b, c
<1> HIDE DEF F
<1> QED BY <1>3, <1>4, <1>5 DEF Same, F

LEMMA BindSame ==
  ASSUME LoadInv, NEW e \in 1 .. Len(envs), NEW B, envs' = [envs EXCEPT ![e].bind = B]
  PROVE  Same(envs', e)
<1> DEFINE st == envs[e].st
<1>1. envs' = With(e, B, st)
  BY BindIsWith
<1> HIDE DEF st
<1>2. Same(With(e, B, st), e)
  BY WithSame
<1> QED BY ONLY <1>1, <1>2

LEMMA StateSame ==
  ASSUME LoadInv, NEW e \in 1 .. Len(envs), NEW st, envs' = [envs EXCEPT ![e].st = st]
  PROVE  Same(envs', e)
<1> DEFINE B == envs[e].bind
<1>1. envs' = With(e, B, st)
  BY StateIsWith
<1> HIDE DEF B
<1>2. Same(With(e, B, st), e)
  BY WithSame
<1> QED BY ONLY <1>1, <1>2

LEMMA StoreSame ==
  ASSUME LoadInv, NEW p \in Proc, Top(p).env \in 1 .. Len(envs), NEW n, NEW v, NEW mut, Store(p, n, v, mut)
  PROVE  Same(envs', Top(p).env)
<1>1. PICK c : SetBinding(p, n, c)
  BY DEF Store
<1> DEFINE e == Top(p).env
           B == [envs[e].bind EXCEPT ![n] = c]
<1>2. envs' = [envs EXCEPT ![e].bind = B]
  BY <1>1 DEF SetBinding
<1> HIDE DEF B
<1> QED BY <1>2, BindSame

\* A step that begins no load leaves the cache alone and changes the
\* functions of no environment but the one its goroutine is filling.
LEMMA FinishSame ==
  ASSUME LoadInv, NEW p \in Proc, Finish(p)
  PROVE  Same(envs', Top(p).env)
<1> DEFINE e == Top(p).env
           B == Reexported(e)
<1>1. stack[p] # <<>>
  BY DEF Finish, Stage, Active
<1>2. ActOK(envs, p, Top(p)) /\ Len(envs) \in Nat
  BY <1>1, TopFacts
<1>3. e # 0 => e \in 1 .. Len(envs)
  BY <1>2 DEF ActOK
<1>4. \/ envs' = envs
      \/ e # 0 /\ envs' = [envs EXCEPT ![e].st = "done"]
      \/ envs' = [envs EXCEPT ![e].st = "done", ![e].bind = B]
  BY DEF Finish
<1>5. CASE envs' = envs
  BY <1>5, UnchangedSame
<1>6. CASE e # 0 /\ envs' = [envs EXCEPT ![e].st = "done"]
  BY <1>3, <1>6, StateSame
<1>7. CASE e # 0 /\ envs' = [envs EXCEPT ![e].st = "done", ![e].bind = B]
  <2>1. e \in 1 .. Len(envs)
    BY <1>3, <1>7
  <2> HIDE DEF B, e
  <2>2. envs' = With(e, B, "done")
    BY <1>7, <2>1, DoneIsWith
  <2>3. Same(With(e, B, "done"), e)
    BY <2>1, WithSame
  <2>4. Same(envs', e)
    BY ONLY <2>2, <2>3
  <2> QED BY <2>4 DEF e
<1>8. CASE e = 0 /\ envs' = [envs EXCEPT ![e].st = "done", ![e].bind = B]
  <2>1. 0 \notin DOMAIN envs
    BY <1>2, SeqElements DEF LoadInv, Shape
  <2> HIDE DEF B, e
  <2>2. envs' = envs
    BY <1>8, <2>1, SeqElements DEF LoadInv, Shape
  <2>3. Same(envs', e)
    BY <2>2, UnchangedSame
  <2> QED BY <2>3 DEF e
<1> QED BY <1>4, <1>5, <1>6, <1>7, <1>8

LEMMA UnwindSame ==
  ASSUME LoadInv, NEW p \in Proc, Unwind(p)
  PROVE  Same(envs', Top(p).env)
<1> DEFINE a == Top(p)
           rest == Front(stack[p])
           handled == a.pc <= Len(Code(p)) /\ a.stage # "exec" /\ Current(p).op = "try"
<1>1. stack[p] # <<>>
  BY DEF Unwind, LoadInv
<1>2. ActOK(envs, p, a) /\ Len(envs) \in Nat
  BY <1>1, TopFacts
<1>3. CASE handled
  <2>1. envs' = envs
    BY <1>3 DEF Unwind
  <2> QED BY <2>1, UnchangedSame
<1>4. CASE ~handled
  <2>1. envs' = IF a.env = 0 THEN envs ELSE [envs EXCEPT ![a.env].st = "failed"]
    BY <1>4 DEF Unwind
  <2>2. a.env # 0 => a.env \in 1 .. Len(envs)
    BY <1>2 DEF ActOK
  <2> QED BY <2>1, <2>2, UnchangedSame, StateSame
<1> QED BY <1>3, <1>4

LEMMA StepSame ==
  ASSUME LoadInv, NEW p \in Proc, Step(p), ~Put(p)
  PROVE  cache' = cache /\ Same(envs', Top(p).env)
<1> DEFINE e == Top(p).env
<1>1. stack[p] # <<>>
  BY DEF Step, Import, CheckCache, ReadFails, Declare, Finish, Unwind, Merge, BindStar, IgnoreImport,
         DeclStep, BindNamed, Use, FailStep, At, Stage, Active, LoadInv
<1>2. ActOK(envs, p, Top(p)) /\ Len(envs) \in Nat /\ Top(p) \in ActRec
  BY <1>1, TopFacts
<1>3. cache' = cache
  BY DEF Step, Import, CheckCache, ReadFails, Declare, Finish, Unwind, Merge, BindStar, IgnoreImport,
         DeclStep, BindNamed, Use, FailStep
<1>4. CASE Import(p) \/ CheckCache(p) \/ ReadFails(p) \/ IgnoreImport(p) \/ Use(p) \/ FailStep(p)
  <2>1. envs' = envs
    BY <1>4 DEF Import, CheckCache, ReadFails, IgnoreImport, Use, FailStep
  <2> QED BY <1>3, <2>1, UnchangedSame
<1>5. CASE Declare(p)
  <2> DEFINE B == [n \in Name |-> Predeclared(envs[e].mod, n)]
  <2>1. envs' = [envs EXCEPT ![e].bind = B] /\ e \in 1 .. Len(envs)
    BY <1>2, <1>5 DEF Declare, Stage, ActOK
  <2> HIDE DEF B
  <2> QED BY <1>3, <2>1, BindSame
<1>6. CASE Finish(p)
  BY <1>3, <1>6, FinishSame
<1>7. CASE Unwind(p)
  BY <1>3, <1>7, UnwindSame
<1>8. CASE Merge(p)
  <2>1. envs' = Delegated(p) /\ Top(p).stage = "merge"
    BY <1>8 DEF Merge, Stage
  <2>2. Same(Delegated(p), e)
    BY <1>1, <2>1, DelegatedSame
  <2> QED BY ONLY <1>3, <2>1, <2>2
<1>9. CASE BindStar(p) \/ BindNamed(p)
  <2>1. Top(p).stage = "bind" /\ Current(p).op \in {"star", "named"} /\ Current(p) = Code(p)[Top(p).pc]
    BY <1>9 DEF BindStar, BindNamed, Stage, Current
  <2>2. Top(p).pc \in DOMAIN Code(p)
    BY <1>1, <1>2, <2>1, TopFacts DEF ActOK, Importing
  <2>3. e \in 1 .. Len(envs)
    BY <1>1, <2>1, <2>2, AtStatement
  <2>4. CASE BindStar(p)
    <3>1. PICK B : envs' = [envs EXCEPT ![e].bind = B]
      BY <2>4 DEF BindStar
    <3> QED BY <1>3, <2>3, <3>1, BindSame
  <2>5. CASE BindNamed(p)
    <3>1. envs' = envs \/ \E n, v, mut : Store(p, n, v, mut)
      BY <2>5 DEF BindNamed
    <3> QED BY <1>3, <2>3, <3>1, UnchangedSame, StoreSame
  <2> QED BY <1>9, <2>4, <2>5
<1>10. CASE DeclStep(p)
  <2>1. Top(p).pc <= Len(Code(p)) /\ Current(p).op = "decl" /\ Current(p) = Code(p)[Top(p).pc]
    BY <1>10 DEF DeclStep, At, Current
  <2>2. Top(p).pc \in DOMAIN Code(p)
    <3>1. DOMAIN Code(p) = 1 .. Len(Code(p)) /\ Len(Code(p)) \in Nat /\ Top(p).pc \in Nat \ {0}
      BY <1>1, <1>2, TopFacts DEF ActRec
    <3> QED BY <2>1, <3>1
  <2>3. e \in 1 .. Len(envs)
    BY <1>1, <2>1, <2>2, AtStatement
  <2>4. PICK n, v, mut : Store(p, n, v, mut)
    BY <1>10 DEF DeclStep
  <2> QED BY <1>3, <2>3, <2>4, StoreSame
<1> QED BY <1>4, <1>5, <1>6, <1>7, <1>8, <1>9, <1>10 DEF Step

----------------------------------------------------------------------------
(* A module is executed at most once *)

LEMMA SetTopTop ==
  ASSUME LoadInv, NEW p \in Proc, stack[p] # <<>>, NEW a, SetTop(p, a)
  PROVE  Last(stack'[p]) = a
<1>1. stack \in [Proc -> Seq(ActRec)]
  BY DEF LoadInv, Shape
<1> DEFINE s == Front(stack[p])
           S == ActRec \cup {a}
<1>2. s \in Seq(ActRec)
  BY <1>1, StackParts
<1>3. stack'[p] = Append(s, a)
  BY <1>1 DEF SetTop
<1> HIDE DEF s
<1>4. s \in Seq(S) /\ a \in S
  BY <1>2, SeqElements, IsASeq DEF S
<1> HIDE DEF S
<1>5. /\ Append(s, a) \in Seq(S) /\ Append(s, a) # <<>> /\ Len(s) \in Nat
      /\ Len(Append(s, a)) = Len(s) + 1 /\ Append(s, a)[Len(s) + 1] = a
  BY <1>4, AppendParts
<1> DEFINE r == Append(s, a)
<1> HIDE DEF r
<1>6. Last(r) = a
  BY <1>5, StackParts DEF r
<1> QED BY <1>3, <1>6 DEF r

\* A load that is about to read and cache its module has not found it there.
Missing(c, s) == s # <<>> /\ Last(s).stage = "put" => c[Head(Last(s).todo)] = 0

LEMMA StepMissing ==
  ASSUME LoadInv, NEW p \in Proc, Step(p), ~Put(p), Missing(cache, stack[p])
  PROVE  Missing(cache, stack'[p])
<1> DEFINE a == Top(p)
           s == stack'[p]
<1>1. stack[p] # <<>>
  BY DEF Step, Import, CheckCache, ReadFails, Declare, Finish, Unwind, Merge, BindStar, IgnoreImport,
         DeclStep, BindNamed, Use, FailStep, At, Stage, Active, LoadInv
<1>2. a \in ActRec /\ stack[p] \in Seq(ActRec) /\ stack \in [Proc -> Seq(ActRec)]
  BY <1>1, TopFacts DEF Shape
<1>3. ASSUME NEW b, SetTop(p, b), b.stage # "put"
      PROVE  Missing(cache, s)
  BY <1>1, <1>3, SetTopTop DEF Missing
<1>4. ASSUME UNCHANGED stack
      PROVE  Missing(cache, s)
  BY <1>4
<1>5. ASSUME SetTop(p, GoOn(a))
      PROVE  Missing(cache, s)
  <2>1. GoOn(a).stage = "exec"
    BY <1>2 DEF GoOn, ActRec
  <2> QED BY <1>3, <1>5, <2>1
<1>6. CASE Import(p)
  <2> DEFINE b == [a EXCEPT !.stage = "check", !.todo = Current(p).from]
  <2>1. SetTop(p, b) /\ b.stage = "check"
    BY <1>2, <1>6 DEF Import, ActRec
  <2> HIDE DEF b, a
  <2> QED BY <1>3, <2>1
<1>7. CASE CheckCache(p)
  <2> DEFINE e == cache[Head(a.todo)]
             b == [a EXCEPT !.stage = IF e = 0 THEN "put" ELSE "merge", !.got = e]
  <2>1. SetTop(p, b)
    BY <1>7 DEF CheckCache
  <2>2. b.todo = a.todo /\ (b.stage = "put" => e = 0)
    BY <1>2 DEF ActRec
  <2>3. Last(s) = b
    BY <1>1, <2>1, SetTopTop
  <2> HIDE DEF b
  <2> QED BY <2>2, <2>3 DEF Missing
<1>8. CASE ReadFails(p) \/ FailStep(p)
  BY <1>4, <1>8 DEF ReadFails, FailStep
<1>9. CASE Declare(p)
  <2> DEFINE b == [a EXCEPT !.stage = "exec"]
  <2>1. SetTop(p, b) /\ b.stage = "exec"
    BY <1>2, <1>9 DEF Declare, ActRec
  <2> HIDE DEF b, a
  <2> QED BY <1>3, <2>1
<1>10. CASE Finish(p)
  <2> DEFINE rest == Front(stack[p])
             b == [Last(rest) EXCEPT !.stage = "merge", !.got = a.env]
             r == Front(rest)
             S == ActRec \cup {b}
  <2>1. CASE rest = <<>>
    <3>1. s = <<>>
      BY <1>2, <1>10, <2>1 DEF Finish
    <3> QED BY <3>1 DEF Missing
  <2>2. CASE rest # <<>>
    <3>1. stack' = [stack EXCEPT ![p] = Append(r, b)]
      BY <1>10, <2>2 DEF Finish
    <3>2. rest \in Seq(ActRec) /\ Last(rest) \in ActRec /\ r \in Seq(ActRec)
      BY <1>1, <1>2, <2>2, StackParts
    <3>3. b.stage = "merge"
      <4> DEFINE w == Last(rest)
      <4>1. w \in ActRec
        BY <3>2
      <4> HIDE DEF w, a
      <4>2. [w EXCEPT !.stage = "merge", !.got = a.env].stage = "merge"
        BY <4>1 DEF ActRec
      <4> QED BY <4>2 DEF w
    <3>4. s = Append(r, b)
      BY <1>2, <3>1
    <3> HIDE DEF b, r, s, rest, a
    <3>5. r \in Seq(S) /\ b \in S
      BY <3>2, SeqElements, IsASeq DEF S
    <3> HIDE DEF S
    <3>6. /\ Append(r, b) \in Seq(S) /\ Append(r, b) # <<>> /\ Len(r) \in Nat
          /\ Len(Append(r, b)) = Len(r) + 1 /\ Append(r, b)[Len(r) + 1] = b
      BY <3>5, AppendParts
    <3>7. Last(s) = b
      BY <3>4, <3>6, StackParts
    <3>8. Missing(cache, s)
      BY <3>3, <3>7 DEF Missing
    <3> QED BY <3>8 DEF s
  <2> QED BY <2>1, <2>2
<1>11. CASE Unwind(p)
  <2> DEFINE rest == Front(stack[p])
             n == Len(stack[p])
             handled == a.pc <= Len(Code(p)) /\ a.stage # "exec" /\ Current(p).op = "try"
  <2>1. CASE handled
    <3>1. SetTop(p, GoOn(a))
      BY <1>11, <2>1 DEF Unwind
    <3> QED BY <1>5, <3>1
  <2>2. CASE ~handled
    <3>1. s = rest
      BY <1>2, <1>11, <2>2 DEF Unwind
    <3>2. rest \in Seq(ActRec) /\ Len(rest) = n - 1 /\ n \in Nat /\ \A i \in 1 .. n - 1 : rest[i] = stack[p][i]
      BY <1>1, <1>2, StackParts
    <3>3. StackOK(envs, p \in failing, p, stack[p]) /\ DOMAIN stack[p] = 1 .. n
      BY <1>2, SeqElements DEF LoadInv
    <3>4. ASSUME rest # <<>> PROVE Last(rest).stage = "load"
      <4>1. Len(rest) >= 1 /\ Last(rest) = rest[Len(rest)]
        BY <3>2, <3>4, StackParts
      <4> HIDE DEF rest, n
      <4>2. n - 1 \in 1 .. n - 1 /\ n - 1 \in 1 .. n /\ Last(rest) = stack[p][n - 1]
        BY <3>2, <4>1
      <4> QED BY <3>3, <4>2 DEF StackOK, n
    <3> QED BY <3>1, <3>4 DEF Missing
  <2> QED BY <2>1, <2>2
<1>12. CASE Merge(p)
  <2> DEFINE T == [n \in Name |-> Merged(p, n)]
             st == IF Len(a.todo) = 1 THEN "bind" ELSE "check"
             b == [a EXCEPT !.temp = T, !.todo = Tail(a.todo), !.got = 0, !.stage = st]
  <2>1. SetTop(p, b)
    BY <1>12 DEF Merge
  <2> HIDE DEF T
  <2>2. b.stage # "put"
    <3>1. st # "put"
      OBVIOUS
    <3> HIDE DEF st, a
    <3> QED BY <1>2, <3>1 DEF ActRec
  <2> HIDE DEF b, a
  <2> QED BY <1>3, <2>1, <2>2
<1>13. CASE BindStar(p) \/ IgnoreImport(p) \/ DeclStep(p) \/ BindNamed(p)
  <2>1. SetTop(p, GoOn(a)) \/ UNCHANGED stack
    BY <1>13 DEF BindStar, IgnoreImport, DeclStep, BindNamed, Store
  <2> QED BY <1>4, <1>5, <2>1
<1>14. CASE Use(p)
  <2>1. a.stage = "exec"
    BY <1>14 DEF Use, At, Stage
  <2>2. \/ \E x : SetTop(p, [a EXCEPT !.last = x])
        \/ SetTop(p, [a EXCEPT !.stage = "spin"])
        \/ \E x : SetTop(p, [GoOn(a) EXCEPT !.last = x])
    BY <1>14 DEF Use
  <2>3. \A x : [a EXCEPT !.last = x].stage = "exec" /\ [GoOn(a) EXCEPT !.last = x].stage = "exec"
    BY <1>2, <2>1 DEF ActRec, GoOn
  <2>4. [a EXCEPT !.stage = "spin"].stage = "spin"
    BY <1>2 DEF ActRec
  <2> HIDE DEF a
  <2> QED BY <1>3, <2>2, <2>3, <2>4
<1> QED BY <1>6, <1>7, <1>8, <1>9, <1>10, <1>11, <1>12, <1>13, <1>14 DEF Step

\* Every evaluation is of a module that the cache then leads to.
OnceInv == /\ \A e \in 1 .. Len(envs) : cache[envs[e].mod] = e
           /\ \A p \in Proc : Missing(cache, stack[p])

LEMMA OnceInit == Init => OnceInv
<1> SUFFICES ASSUME Init PROVE OnceInv
  OBVIOUS
<1>1. Len(envs) = 1 /\ envs[1].mod = MainModule /\ cache[MainModule] = 1
  BY ModulesAssumption DEF Init
<1>2. \A p \in Proc : Last(stack[p]).stage = "exec"
  BY DEF Init, Last, Activation
<1> QED BY <1>1, <1>2 DEF OnceInv, Missing

LEMMA PutOnce ==
  ASSUME LoadInv, OnceInv, Proc = {Main}, NEW p \in Proc, Put(p)
  PROVE  OnceInv'
<1> DEFINE n == Len(envs)
           m == Head(Top(p).todo)
           new == [mod |-> m, bind |-> Empty, st |-> "run"]
           s == Append(Front(stack[p]), [Top(p) EXCEPT !.stage = "load"])
           b == Activation(n + 1, "declare")
<1>1. /\ stack[p] # <<>> /\ Top(p).stage = "put" /\ cache' = [cache EXCEPT ![m] = n + 1]
      /\ envs' = Append(envs, new) /\ stack' = [stack EXCEPT ![p] = Append(s, b)]
  BY DEF Put, Stage, Active, Cached
<1>2. /\ Top(p) \in ActRec /\ Top(p).todo # <<>> /\ envs \in Seq(EnvRec) /\ n \in Nat /\ stack[p] \in Seq(ActRec)
      /\ stack \in [Proc -> Seq(ActRec)] /\ cache \in [Module -> 0 .. n]
  BY <1>1, TopFacts DEF Shape, ActOK, Loading
<1>3. m \in Module /\ cache[m] = 0
  <2>1. Top(p).todo \in Seq(Module)
    BY <1>2 DEF ActRec
  <2>2. m \in Module
    BY <1>2, <2>1, HeadTailProperties
  <2>3. cache[m] = 0
    BY <1>1 DEF OnceInv, Missing, Top
  <2> QED BY <2>2, <2>3
<1>4. new.mod = m
  OBVIOUS
<1> HIDE DEF new, m
<1> DEFINE S == EnvRec \cup {new}
<1>5. envs \in Seq(S) /\ new \in S
  BY <1>2, SeqElements, IsASeq DEF S
<1> HIDE DEF S
<1>6. Len(envs') = n + 1 /\ envs'[n + 1] = new /\ \A e \in 1 .. n : envs'[e] = envs[e]
  BY <1>1, <1>5, AppendParts
<1>7. \A e \in 1 .. n : envs[e].mod \in Module /\ cache[envs[e].mod] = e
  <2>1. \A e \in 1 .. n : envs[e] \in EnvRec
    BY <1>2, SeqElements
  <2>2. \A e \in 1 .. n : envs[e].mod \in Module
    BY <2>1 DEF EnvRec
  <2> QED BY <2>2 DEF OnceInv
<1>8. \A e \in 1 .. n : envs[e].mod # m
  BY <1>2, <1>3, <1>7
<1>9. ASSUME NEW e \in 1 .. n + 1 PROVE cache'[envs'[e].mod] = e
  <2>1. CASE e = n + 1
    BY <1>1, <1>2, <1>3, <1>4, <1>6, <2>1
  <2>2. CASE e # n + 1
    <3>1. e \in 1 .. n
      BY <1>2, <2>2
    <3> QED BY <1>1, <1>2, <1>3, <1>6, <1>7, <1>8, <3>1
  <2> QED BY <2>1, <2>2
<1>10. Last(stack'[p]).stage = "declare"
  <2>1. b.stage = "declare"
    BY DEF Activation
  <2>2. stack'[p] = Append(s, b)
    BY <1>1, <1>2
  <2> DEFINE w == [Top(p) EXCEPT !.stage = "load"]
             T == ActRec \cup {w, b}
             r == Front(stack[p])
  <2>3. r \in Seq(ActRec)
    BY <1>1, <1>2, StackParts
  <2> HIDE DEF w, b, r
  <2>4. r \in Seq(T) /\ w \in T /\ b \in T
    BY <2>3, SeqElements, IsASeq DEF T
  <2> HIDE DEF T
  <2>5. s = Append(r, w)
    BY DEF r, w
  <2> HIDE DEF s
  <2>6. s \in Seq(T)
    BY <2>4, <2>5, AppendParts
  <2>7. /\ Append(s, b) \in Seq(T) /\ Append(s, b) # <<>> /\ Len(s) \in Nat
        /\ Len(Append(s, b)) = Len(s) + 1 /\ Append(s, b)[Len(s) + 1] = b
    BY <2>4, <2>6, AppendParts
  <2>8. Last(Append(s, b)) = b
    BY <2>7, StackParts
  <2> QED BY ONLY <2>1, <2>2, <2>8
<1>11. \A q \in Proc : q = p
  OBVIOUS
<1> QED BY <1>6, <1>9, <1>10, <1>11 DEF OnceInv, Missing

LEMMA StepOnce ==
  ASSUME LoadInv, OnceInv, Proc = {Main}, NEW p \in Proc, Step(p)
  PROVE  OnceInv'
<1>1. CASE Put(p)
  BY <1>1, PutOnce
<1>2. CASE ~Put(p)
  <2>1. cache' = cache /\ Same(envs', Top(p).env)
    BY <1>2, StepSame
  <2>2. Missing(cache, stack'[p])
    BY <1>2, StepMissing DEF OnceInv
  <2>3. \A q \in Proc : q = p
    OBVIOUS
  <2>4. \A e \in 1 .. Len(envs') : cache'[envs'[e].mod] = e
    BY <2>1 DEF Same, OnceInv
  <2> QED BY <2>1, <2>2, <2>3, <2>4 DEF OnceInv
<1> QED BY <1>1, <1>2

\* LoadModule caches a module before it executes it: its statements execute at
\* most once, whatever the cycles and failures of its imports, as long as no
\* task imports.  Two goroutines may both find a module missing.
THEOREM ExecutedOnce ==
  ASSUME Proc = {Main}
  PROVE  Spec => []AtMostOnce
<1>1. LoadInv /\ OnceInv => AtMostOnce
  <2> SUFFICES ASSUME LoadInv, OnceInv PROVE AtMostOnce
    OBVIOUS
  <2> QED BY SeqElements DEF LoadInv, Shape, OnceInv, AtMostOnce
<1>2. Init => OnceInv
  BY OnceInit
<1>3. LoadInv /\ OnceInv /\ [Next]_vars => OnceInv'
  <2> SUFFICES ASSUME LoadInv, OnceInv, [Next]_vars PROVE OnceInv'
    OBVIOUS
  <2>1. ASSUME UNCHANGED <<cache, envs, stack>> PROVE OnceInv'
    BY <2>1 DEF OnceInv, Missing
  <2>2. CASE \E p \in Proc : Step(p)
    BY <2>2, StepOnce
  <2>3. CASE \E p, q \in Proc : MapRace(p, q)
    BY <2>1, <2>3 DEF MapRace
  <2>4. CASE Ended \/ UNCHANGED vars
    BY <2>1, <2>4 DEF Ended, vars
  <2> QED BY <2>2, <2>3, <2>4 DEF Next
<1> QED BY <1>1, <1>2, <1>3, Loads, PTL DEF Spec

----------------------------------------------------------------------------
(* An import adds overloads *)

Keeps(old, new) == IsGroup(old) /\ IsGroup(new) =>
                     Restrict(new.val.fns, DOMAIN old.val.fns) = old.val.fns

LEMMA OverRestrict ==
  ASSUME NEW f \in Fns, NEW g \in Fns, DOMAIN f \cap DOMAIN g = {}
  PROVE  Restrict(Over(f, g), DOMAIN g) = g
<1>1. PICK T \in SUBSET Nat : g \in [T -> Position]
  BY DEF Fns
<1>2. DOMAIN g = T /\ \A s \in T : s \notin DOMAIN f
  BY <1>1
<1> DEFINE h == Over(f, g)
<1>3. \A s \in T : h[s] = g[s]
  BY <1>2 DEF Over
<1> HIDE DEF h
<1>4. Restrict(h, T) = [s \in T |-> h[s]]
  BY DEF Restrict
<1>5. [s \in T |-> h[s]] = [s \in T |-> g[s]]
  BY <1>3
<1>6. [s \in T |-> g[s]] = g
  BY <1>1
<1> QED BY <1>2, <1>4, <1>5, <1>6 DEF h

LEMMA SameFnsKept ==
  ASSUME NEW old \in BindingRec, NEW new, IsGroup(old) => new.val.fns = old.val.fns
  PROVE  Keeps(old, new)
<1> SUFFICES ASSUME IsGroup(old), new.val.fns = old.val.fns
             PROVE  Restrict(new.val.fns, DOMAIN old.val.fns) = old.val.fns
  BY DEF Keeps
<1> DEFINE f == old.val.fns
<1>1. f \in Fns
  BY DEF IsGroup, BindingRec, Slot, Held
<1> HIDE DEF f
<1>2. PICK T \in SUBSET Nat : f \in [T -> Position]
  BY <1>1 DEF Fns
<1>3. Restrict(f, DOMAIN f) = f
  BY <1>2 DEF Restrict
<1> QED BY <1>3 DEF f

LEMMA DefinedKeeps ==
  ASSUME NEW b \in BindingRec, NEW v, Incoming(v), ~Clashes(b, v), NEW mut, NEW import
  PROVE  Keeps(b, Defined(b, v, mut, FALSE, import))
<1> DEFINE c == Defined(b, v, mut, FALSE, import)
           f == NewFns(v)
           g == OldFns(b)
           d == OldDelegates(b)
<1> SUFFICES ASSUME IsGroup(b), IsGroup(c)
             PROVE  Restrict(c.val.fns, DOMAIN b.val.fns) = b.val.fns
  BY DEF Keeps
<1>1. g \in Fns /\ g = b.val.fns
  BY FnsOf DEF IsGroup, OldFns
<1>2. c.val = IF Callable(v) THEN Group(Over(f, g), d) ELSE v
  BY DEF Defined
<1>3. Callable(v)
  <2> SUFFICES ASSUME ~Callable(v) PROVE FALSE
    OBVIOUS
  <2>1. c.val = v
    BY <1>2
  <2> QED BY <2>1 DEF IsGroup, Callable
<1>4. f \in Fns /\ DOMAIN f \cap DOMAIN g = {}
  BY <1>3, FnsOf DEF Clashes
<1>5. c.val.fns = Over(f, g)
  <2>1. c.val = Group(Over(f, g), d)
    BY <1>2, <1>3
  <2> HIDE DEF c
  <2> QED BY <2>1 DEF Group
<1> HIDE DEF c, f, g
<1> QED BY <1>1, <1>4, <1>5, OverRestrict

LEMMA RemainsKeeps ==
  ASSUME NEW b \in BindingRec, NEW v, Incoming(v), NEW import,
         Refused(b, v), NEW c \in Remains(b, v, import)
  PROVE  Keeps(b, c)
<1>1. CASE Immutable(b, v)
  <2>1. c = b
    BY <1>1 DEF Remains
  <2> QED BY <2>1, SameFnsKept
<1>2. CASE ~Immutable(b, v)
  <2>1. Callable(v)
    BY <1>2 DEF Refused, Clashes
  <2>2. PICK sigs \in SUBSET (DOMAIN NewFns(v) \ DOMAIN OldFns(b)) :
          c = [b EXCEPT !.export = FALSE, !.import = import,
                        !.val.fns = Over(Restrict(NewFns(v), sigs), @)]
    BY <1>2 DEF Remains
  <2> SUFFICES ASSUME IsGroup(b)
               PROVE  Restrict(c.val.fns, DOMAIN b.val.fns) = b.val.fns
    BY DEF Keeps
  <2>3. /\ b.val \in [k : {"group"}, fns : Fns, delegates : SUBSET (Nat \X Name)]
        /\ OldFns(b) = b.val.fns
    BY DEF BindingRec, Slot, Held, IsGroup, OldFns
  <2> DEFINE r == Restrict(NewFns(v), sigs)
             f == Over(r, b.val.fns)
             g == [b.val EXCEPT !.fns = f]
  <2>4. NewFns(v) \in Fns
    BY <2>1, FnsOf
  <2>5. r \in Fns /\ DOMAIN r = sigs
    BY <2>4, RestrictFns
  <2>6. b.val.fns \in Fns /\ DOMAIN r \cap DOMAIN b.val.fns = {}
    BY <2>2, <2>3, <2>5
  <2>7. Restrict(f, DOMAIN b.val.fns) = b.val.fns
    <3> HIDE DEF r
    <3> QED BY <2>5, <2>6, OverRestrict
  <2> HIDE DEF f
  <2>8. g.fns = f
    BY <2>3
  <2>9. c = [b EXCEPT !.export = FALSE, !.import = import, !.val = g]
    BY <2>2, <2>3 DEF f, BindingRec
  <2> HIDE DEF g
  <2>10. c.val = g
    BY <2>9 DEF BindingRec
  <2> QED BY <2>7, <2>8, <2>10
<1> QED BY <1>1, <1>2

\* What p's own steps at the end of an import do.
LEMMA BindResult ==
  ASSUME LoadInv, NEW e \in 1 .. Len(envs), NEW B, envs' = [envs EXCEPT ![e].bind = B]
  PROVE  envs'[e].bind = B
BY SeqElements DEF LoadInv, Shape, EnvRec

LEMMA BindStarAdds ==
  ASSUME LoadInv, NEW p \in Proc, BindStar(p), NEW n \in Name
  PROVE  Keeps(envs[Top(p).env].bind[n], envs'[Top(p).env].bind[n])
<1> DEFINE e == Top(p).env
           names == StarNames(p)
           refused == {x \in names : Refused(Binding(p, x), StarValue(p, x))}
           old == Binding(p, n)
           v == StarValue(p, n)
<1>1. stack[p] # <<>> /\ Top(p).stage = "bind" /\ Code(p)[Top(p).pc].op = "star"
  BY DEF BindStar, Stage, Active, Current
<1>2. Top(p).pc \in DOMAIN Code(p)
  BY <1>1, TopFacts DEF ActOK, Importing
<1>3. e \in 1 .. Len(envs)
  BY <1>1, <1>2, AtStatement
<1>4. old \in BindingRec /\ old = envs[e].bind[n]
  BY <1>3, BindType DEF Binding
<1>5. n \in names => Incoming(v)
  BY <1>1, StarIncoming
<1>6. ASSUME NEW some \in SUBSET (names \ refused)
      PROVE  Keeps(old, StarBound(p, some)[n])
  <2>1. CASE n \in some
    <3>1. n \in names /\ ~Refused(old, v)
      BY <2>1
    <3>2. StarBound(p, some)[n] = Defined(old, v, Current(p).mut, FALSE, TRUE)
      BY <2>1 DEF StarBound
    <3> DEFINE mut == Current(p).mut
    <3> HIDE DEF mut, old, v
    <3>3. Keeps(old, Defined(old, v, mut, FALSE, TRUE))
      BY <1>4, <1>5, <3>1, DefinedKeeps DEF Refused
    <3> QED BY <3>2, <3>3 DEF mut
  <2>2. CASE n \notin some
    <3>1. StarBound(p, some)[n] = old
      BY <2>2 DEF StarBound
    <3> HIDE DEF old
    <3> QED BY <1>4, <3>1, SameFnsKept
  <2> QED BY <2>1, <2>2
<1>7. CASE refused = {}
  <2> DEFINE B == StarBound(p, names)
  <2>1. envs' = [envs EXCEPT ![e].bind = B]
    BY <1>7 DEF BindStar, StarBound, StarNames, StarValue, StarValues
  <2>2. Keeps(old, B[n])
    BY <1>6, <1>7
  <2> HIDE DEF B, e, old
  <2>3. envs'[e].bind = B
    BY <1>3, <2>1, BindResult
  <2>4. Keeps(envs[e].bind[n], envs'[e].bind[n])
    BY <1>4, <2>2, <2>3
  <2> QED BY <2>4 DEF e
<1>8. CASE refused # {}
  <2>1. PICK x \in refused, some \in SUBSET (names \ refused) :
          \E b \in Remains(Binding(p, x), StarValue(p, x), TRUE) :
            envs' = [envs EXCEPT ![e].bind = [StarBound(p, some) EXCEPT ![x] = b]]
    BY <1>8 DEF BindStar, StarBound, StarNames, StarValue, StarValues
  <2>2. PICK c \in Remains(Binding(p, x), StarValue(p, x), TRUE) :
          envs' = [envs EXCEPT ![e].bind = [StarBound(p, some) EXCEPT ![x] = c]]
    BY <2>1
  <2> DEFINE D == StarBound(p, some)
             B == [D EXCEPT ![x] = c]
  <2>3. D = [y \in Name |-> D[y]] /\ x \in Name
    BY DEF StarBound, StarNames
  <2>4. Keeps(old, D[n])
    BY <1>6
  <2>5. x = n => Keeps(old, c)
    <3> SUFFICES ASSUME x = n PROVE Keeps(old, c)
      OBVIOUS
    <3>1. n \in names /\ Refused(old, v) /\ c \in Remains(old, v, TRUE)
      OBVIOUS
    <3> HIDE DEF old, v
    <3> QED BY <1>4, <1>5, <3>1, RemainsKeeps
  <2>6. envs' = [envs EXCEPT ![e].bind = B]
    BY <2>2
  <2> HIDE DEF D
  <2>7. B[n] = IF x = n THEN c ELSE D[n]
    BY <2>3
  <2> HIDE DEF B, e, old
  <2>8. envs'[e].bind = B
    BY <1>3, <2>6, BindResult
  <2>9. Keeps(envs[e].bind[n], envs'[e].bind[n])
    BY <1>4, <2>4, <2>5, <2>7, <2>8
  <2> QED BY <2>9 DEF e
<1> QED BY <1>7, <1>8

LEMMA BindNamedAdds ==
  ASSUME LoadInv, NEW p \in Proc, BindNamed(p), NEW n \in Name
  PROVE  Keeps(envs[Top(p).env].bind[n], envs'[Top(p).env].bind[n])
<1> DEFINE e == Top(p).env
           x == Current(p).name
           b == Binding(p, x)
           v == MapValue(Top(p).temp[x])
           w == NamedValue(p, x)
           mut == Current(p).mut
           old == envs[e].bind[n]
<1>1. stack[p] # <<>> /\ Top(p).stage = "bind" /\ Current(p).op = "named" /\ Current(p) = Code(p)[Top(p).pc]
  BY DEF BindNamed, Stage, Active, Current
<1>2. Top(p).pc \in DOMAIN Code(p)
  BY <1>1, TopFacts DEF ActOK, Importing
<1>3. e \in 1 .. Len(envs) /\ Current(p) \in Stmt
  BY <1>1, <1>2, AtStatement
<1>4. x \in Name
  BY <1>1, <1>3, StmtFields
<1>5. old \in BindingRec /\ b \in BindingRec
  BY <1>3, <1>4, BindType DEF Binding
<1>6. CASE Faults(v)
  <2>1. envs' = envs
    BY <1>6 DEF BindNamed
  <2> HIDE DEF old
  <2>2. Keeps(old, old)
    BY <1>5, SameFnsKept
  <2> QED BY <2>1, <2>2 DEF old
<1>7. CASE ~Faults(v)
  <2>1. Store(p, x, w, mut)
    BY <1>7 DEF BindNamed, NamedValue
  <2>2. Incoming(w) /\ w.k # "fn"
    <3>1. Incoming(w) /\ w \in Held
      BY <1>1, <1>4, <1>7, NamedIncoming
    <3> HIDE DEF w
    <3> QED BY <3>1 DEF Held
  <2> HIDE DEF x, b, v, w, mut
  <2>3. PICK c : SetBinding(p, x, c) /\ (\/ Refused(b, w) /\ c \in Remains(b, w, FALSE)
                                         \/ ~Refused(b, w) /\ c = Defined(b, w, mut, FALSE, FALSE))
    BY <2>1, <2>2 DEF Store, b
  <2>4. Keeps(b, c)
    BY <1>5, <2>2, <2>3, RemainsKeeps, DefinedKeeps DEF Refused
  <2> DEFINE B == [envs[e].bind EXCEPT ![x] = c]
  <2>5. envs' = [envs EXCEPT ![e].bind = B]
    BY <2>3 DEF SetBinding
  <2>6. envs[e].bind \in [Name -> BindingRec]
    BY <1>3, EnvType
  <2>7. B[n] = IF n = x THEN c ELSE old
    BY <1>4, <2>6
  <2>8. n = x => b = old
    BY DEF b, Binding
  <2> HIDE DEF B, e, old
  <2>9. envs'[e].bind = B
    BY <1>3, <2>5, BindResult
  <2>10. Keeps(old, B[n])
    BY <1>5, <2>4, <2>7, <2>8, SameFnsKept
  <2> QED BY <2>9, <2>10 DEF e, old
<1> QED BY <1>6, <1>7

\* A step of q while p is at the end of an import.
LEMMA StepAdds ==
  ASSUME LoadInv, NEW p \in Proc, Stage(p, "bind"), Top(p).env # 0, NEW q \in Proc, Step(q), NEW n \in Name
  PROVE  Keeps(envs[Top(p).env].bind[n], envs'[Top(p).env].bind[n])
<1> DEFINE e == Top(p).env
           old == envs[e].bind[n]
           new == envs'[e].bind[n]
<1>1. stack[p] # <<>> /\ p \notin failing /\ Top(p).stage = "bind"
  BY DEF Stage, Active
<1>2. e \in 1 .. Len(envs) /\ Len(envs) \in Nat
  BY <1>1, TopFacts DEF ActOK
<1>3. old \in BindingRec
  BY <1>2, BindType
<1>4. CASE envs'[e] = envs[e]
  BY <1>3, <1>4, SameFnsKept
<1>5. CASE Put(q)
  <2> DEFINE m == Head(Top(q).todo)
             b == [mod |-> m, bind |-> Empty, st |-> "run"]
             S == EnvRec \cup {b}
  <2>1. envs' = Append(envs, b)
    BY <1>5 DEF Put
  <2> HIDE DEF b, e
  <2>2. envs \in Seq(S) /\ b \in S
    BY SeqElements, IsASeq DEF S, LoadInv, Shape
  <2> HIDE DEF S
  <2>3. envs'[e] = envs[e]
    BY <1>2, <2>1, <2>2, AppendParts
  <2> QED BY <1>4, <2>3 DEF e
<1>6. CASE ~Put(q) /\ q # p
  <2>1. Same(envs', Top(q).env)
    BY <1>6, StepSame
  <2>2. stack[q] # <<>>
    BY DEF Step, Import, CheckCache, ReadFails, Put, Declare, Finish, Unwind, Merge, BindStar, IgnoreImport,
           DeclStep, BindNamed, Use, FailStep, At, Stage, Active, LoadInv
  <2>3. Top(q).env # e
    <3> DEFINE i == Len(stack[p])
               j == Len(stack[q])
    <3>1. i \in DOMAIN stack[p] /\ j \in DOMAIN stack[q] /\ Top(p) = stack[p][i] /\ Top(q) = stack[q][j]
      BY <1>1, <2>2, TopFacts, SeqElements
    <3>2. Alone
      BY DEF LoadInv
    <3> HIDE DEF i, j
    <3> QED BY <1>6, <3>1, <3>2 DEF Alone
  <2>4. IsGroup(old) => new.val.fns = old.val.fns
    BY <1>2, <2>1, <2>3 DEF Same
  <2> HIDE DEF old, new
  <2>5. Keeps(old, new)
    BY <1>3, <2>4, SameFnsKept
  <2> QED BY <2>5 DEF old, new
<1>7. CASE q = p
  <2>1. ~(Import(p) \/ CheckCache(p) \/ ReadFails(p) \/ Put(p) \/ Declare(p) \/ Finish(p) \/ Unwind(p)
          \/ Merge(p) \/ DeclStep(p) \/ Use(p) \/ FailStep(p))
    BY <1>1 DEF Import, CheckCache, ReadFails, Put, Declare, Finish, Unwind, Merge, DeclStep, Use, FailStep,
                At, Stage
  <2>2. CASE IgnoreImport(p)
    <3>1. envs'[e] = envs[e]
      BY <2>2 DEF IgnoreImport
    <3> QED BY <1>4, <3>1
  <2> QED BY <1>7, <2>1, <2>2, BindStarAdds, BindNamedAdds DEF Step
<1> QED BY <1>5, <1>6, <1>7, <1>4

\* OpBindMapAll, define and mergeCallableIntoBinding: an import adds overloads to the
\* functions of the importing module and replaces none, whatever other
\* goroutines do with their own modules at the same time.
THEOREM OverloadsAreAdded == Spec => ImportsAddOverloads
<1> DEFINE Adds == \A p \in Proc : Stage(p, "bind") /\ Top(p).env # 0 =>
                     \A n \in Name :
                       LET old == envs[Top(p).env].bind[n]
                           new == envs'[Top(p).env].bind[n]
                       IN  IsGroup(old) /\ IsGroup(new) =>
                             Restrict(new.val.fns, DOMAIN old.val.fns) = old.val.fns
<1>1. LoadInv /\ [Next]_vars => Adds
  <2> SUFFICES ASSUME LoadInv, [Next]_vars, NEW p \in Proc, Stage(p, "bind"), Top(p).env # 0, NEW n \in Name
               PROVE  Keeps(envs[Top(p).env].bind[n], envs'[Top(p).env].bind[n])
    BY DEF Keeps
  <2>1. CASE \E q \in Proc : Step(q)
    BY <2>1, StepAdds
  <2>2. CASE envs' = envs
    <3>1. Top(p).env \in 1 .. Len(envs)
      BY TopFacts DEF Stage, Active, ActOK
    <3>2. envs[Top(p).env].bind[n] \in BindingRec
      BY <3>1, BindType
    <3> DEFINE b == envs[Top(p).env].bind[n]
    <3> HIDE DEF b
    <3>3. Keeps(b, b)
      BY <3>2, SameFnsKept DEF b
    <3> QED BY <2>2, <3>3 DEF b
  <2>3. CASE \E o, q \in Proc : MapRace(o, q)
    BY <2>2, <2>3 DEF MapRace
  <2>4. CASE Ended \/ UNCHANGED vars
    BY <2>2, <2>4 DEF Ended, vars
  <2> QED BY <2>1, <2>3, <2>4 DEF Next
<1>2. ImportsAddOverloads <=> [][Adds]_vars
  BY DEF ImportsAddOverloads
<1> HIDE DEF Adds
<1> QED BY <1>1, <1>2, Loads, PTL DEF Spec
=============================================================================
