-------------------------- MODULE References_proofs --------------------------
(***************************************************************************)
(* Proofs about the bindings of Modules, for all programs, names and       *)
(* goroutines: what a step does to a binding and to the loads in progress, *)
(* that a declaration is not replaced, and that references end.            *)
(***************************************************************************)
EXTENDS Modules_proofs

----------------------------------------------------------------------------
(* What a step does to a binding *)

Stored(old, new, v, mut, import) ==
  \/ Refused(old, v) /\ new \in Remains(old, v, import)
  \/ ~Refused(old, v) /\ new = Defined(old, v, mut, FALSE, import)

\* The value of a declaration, and what becomes of the binding of its name.
DeclValue(p) == LET at == <<Top(p).env, Top(p).pc>>
                IN  IF Current(p).sig = 0 THEN Lit(at) ELSE Fn(Current(p).sig, at)
Declared(p, old, new) ==
  LET v == DeclValue(p)
  IN  \/ Stored(old, new, v, Current(p).mut, FALSE)
      \/ v.k = "fn" /\ IsGroup(old) /\ new = [old EXCEPT !.val.fns = Over(NewFns(v), @)]

StarStored(p, n, old, new) ==
  n \in StarNames(p) /\ Stored(old, new, StarValue(p, n), Current(p).mut, TRUE)

NamedStored(p, old, new) ==
  /\ ~Faults(MapValue(Top(p).temp[Current(p).name]))
  /\ Stored(old, new, NamedValue(p, Current(p).name), Current(p).mut, FALSE)

Changed(p, e, n, old, new) ==
  \/ new = old
  \/ IsGroup(old) /\ new = Extended(old, Top(p).got, n)
  \/ /\ e = Top(p).env
     /\ \/ Finish(p) /\ n \in Exports(envs[e].mod) /\ old # NoBinding /\ new = [old EXCEPT !.export = TRUE]
        \/ Declare(p) /\ new = Predeclared(envs[e].mod, n)
        \/ BindStar(p) /\ StarStored(p, n, old, new)
        \/ BindNamed(p) /\ n = Current(p).name /\ NamedStored(p, old, new)
        \/ DeclStep(p) /\ n = Current(p).name /\ Declared(p, old, new)

ChangedEnv(p, e) ==
  /\ envs'[e].mod = envs[e].mod
  /\ envs'[e].st = envs[e].st \/ (e = Top(p).env /\ (Finish(p) \/ Unwind(p)) /\ envs'[e].st # "run")
  /\ \A n \in Name : Changed(p, e, n, envs[e].bind[n], envs'[e].bind[n])

\* Only environment e is written.
LEMMA WithParts ==
  ASSUME LoadInv, NEW e \in 1 .. Len(envs), NEW B, NEW st
  PROVE  /\ Len(With(e, B, st)) = Len(envs)
         /\ With(e, B, st)[e].mod = envs[e].mod /\ With(e, B, st)[e].bind = B /\ With(e, B, st)[e].st = st
         /\ \A d \in 1 .. Len(envs) : d # e => With(e, B, st)[d] = envs[d]
<1> DEFINE F == With(e, B, st)
           r == [mod |-> envs[e].mod, bind |-> B, st |-> st]
<1>1. envs \in Seq(EnvRec) /\ DOMAIN envs = 1 .. Len(envs)
  BY SeqElements DEF LoadInv, Shape
<1>2. r.mod = envs[e].mod /\ r.bind = B /\ r.st = st
  OBVIOUS
<1> HIDE DEF r
<1>3. Len(F) = Len(envs) /\ F[e] = r /\ \A d \in 1 .. Len(envs) : d # e => F[d] = envs[d]
  BY <1>1 DEF With, r
<1> HIDE DEF F
<1> QED BY <1>2, <1>3 DEF F

LEMMA SameChanged ==
  ASSUME NEW p, NEW e, envs'[e] = envs[e]
  PROVE  ChangedEnv(p, e)
BY DEF ChangedEnv, Changed

\* A step writes the bindings of its own environment.
LEMMA OwnChanged ==
  ASSUME LoadInv, NEW p \in Proc, Top(p).env \in 1 .. Len(envs),
         NEW B, envs' = [envs EXCEPT ![Top(p).env].bind = B],
         \A n \in Name : Changed(p, Top(p).env, n, Binding(p, n), B[n]),
         NEW d \in 1 .. Len(envs)
  PROVE  ChangedEnv(p, d)
<1> DEFINE e == Top(p).env
           st == envs[e].st
<1>1. envs' = With(e, B, st)
  BY BindIsWith
<1>2. \A n \in Name : Changed(p, e, n, envs[e].bind[n], B[n])
  BY DEF Binding
<1>3. e \in 1 .. Len(envs)
  OBVIOUS
<1> HIDE DEF st, e
<1>4. /\ With(e, B, st)[e].mod = envs[e].mod /\ With(e, B, st)[e].bind = B /\ With(e, B, st)[e].st = st
      /\ \A c \in 1 .. Len(envs) : c # e => With(e, B, st)[c] = envs[c]
  BY <1>3, WithParts
<1>5. /\ envs'[e].mod = envs[e].mod /\ envs'[e].bind = B /\ envs'[e].st = st
      /\ \A c \in 1 .. Len(envs) : c # e => envs'[c] = envs[c]
  BY ONLY <1>1, <1>4
<1>6. CASE d = e
  BY <1>2, <1>5, <1>6 DEF ChangedEnv, st
<1>7. CASE d # e
  BY <1>5, <1>7, SameChanged
<1> QED BY <1>6, <1>7

\* What storing value v makes of binding b.
StoreOutcome(p, b, v, mut, c) ==
  \/ Fails(p) /\ UNCHANGED stack /\ Refused(b, v) /\ c \in Remains(b, v, FALSE)
  \/ /\ SetTop(p, GoOn(Top(p))) /\ UNCHANGED failing
     /\ \/ ~Refused(b, v) /\ c = Defined(b, v, mut, FALSE, FALSE)
        \/ v.k = "fn" /\ IsGroup(b) /\ c = [b EXCEPT !.val.fns = Over(NewFns(v), @)]

LEMMA StoreResult ==
  ASSUME LoadInv, NEW p \in Proc, Top(p).env \in 1 .. Len(envs), NEW x \in Name, NEW v, NEW mut, Store(p, x, v, mut)
  PROVE  \E c : /\ envs' = [envs EXCEPT ![Top(p).env].bind = WithOne(p, x, c)]
                /\ StoreOutcome(p, Binding(p, x), v, mut, c)
<1> DEFINE b == Binding(p, x)
           r == [b EXCEPT !.val.fns = Over(NewFns(v), @)]
           w == Defined(b, v, mut, FALSE, FALSE)
<1>1. \E c : /\ SetBinding(p, x, c)
             /\ \/ Fails(p) /\ UNCHANGED stack /\ Refused(b, v) /\ c \in Remains(b, v, FALSE)
                \/ /\ SetTop(p, GoOn(Top(p))) /\ UNCHANGED failing
                   /\ (~Refused(b, v) /\ c = w) \/ (v.k = "fn" /\ IsGroup(b) /\ c = r)
  <2> HIDE DEF r, w
  <2>1. Store(p, x, v, mut) <=>
          LET overload == v.k = "fn" /\ IsGroup(b)
          IN IF ~overload /\ Refused(b, v)
             THEN (\E left \in Remains(b, v, FALSE) : SetBinding(p, x, left)) /\ Fails(p) /\ UNCHANGED stack
             ELSE /\ SetBinding(p, x, IF overload THEN r ELSE w)
                  /\ SetTop(p, GoOn(Top(p))) /\ UNCHANGED failing
    BY DEF Store, r, w
  <2> HIDE DEF b
  <2> QED BY <2>1
<1>2. \A c : SetBinding(p, x, c) => envs' = [envs EXCEPT ![Top(p).env].bind = WithOne(p, x, c)]
  BY DEF SetBinding, WithOne
<1> HIDE DEF b, r, w
<1>3. \E c : /\ envs' = [envs EXCEPT ![Top(p).env].bind = WithOne(p, x, c)]
             /\ \/ Fails(p) /\ UNCHANGED stack /\ Refused(b, v) /\ c \in Remains(b, v, FALSE)
                \/ /\ SetTop(p, GoOn(Top(p))) /\ UNCHANGED failing
                   /\ (~Refused(b, v) /\ c = w) \/ (v.k = "fn" /\ IsGroup(b) /\ c = r)
  BY <1>1, <1>2
<1> QED BY <1>3 DEF b, r, w, StoreOutcome

LEMMA StarChanged ==
  ASSUME LoadInv, NEW p \in Proc, BindStar(p), NEW d \in 1 .. Len(envs)
  PROVE  ChangedEnv(p, d)
<1> DEFINE e == Top(p).env
           names == StarNames(p)
           refused == {x \in names : Refused(Binding(p, x), StarValue(p, x))}
<1>1. stack[p] # <<>> /\ Top(p).stage = "bind" /\ Code(p)[Top(p).pc].op = "star"
  BY DEF BindStar, Stage, Active, Current
<1>2. Top(p).pc \in DOMAIN Code(p)
  BY <1>1, TopFacts DEF ActOK, Importing
<1>3. e \in 1 .. Len(envs)
  BY <1>1, <1>2, AtStatement
<1>4. ASSUME NEW some \in SUBSET (names \ refused), NEW n \in Name
      PROVE  StarBound(p, some)[n] = Binding(p, n)
             \/ StarStored(p, n, Binding(p, n), StarBound(p, some)[n])
  BY DEF StarBound, Stored, StarStored
<1>5. ASSUME NEW n \in Name, NEW new, StarStored(p, n, Binding(p, n), new)
      PROVE  Changed(p, e, n, Binding(p, n), new)
  <2> DEFINE old == Binding(p, n)
  <2> HIDE DEF old
  <2> QED BY <1>5 DEF Changed, old
<1>6. CASE refused = {}
  <2> DEFINE B == StarBound(p, names)
  <2>1. envs' = [envs EXCEPT ![e].bind = B]
    BY <1>6 DEF BindStar, StarBound, StarNames, StarValue, StarValues
  <2>2. ASSUME NEW n \in Name PROVE Changed(p, e, n, Binding(p, n), B[n])
    <3>1. B[n] = Binding(p, n) \/ StarStored(p, n, Binding(p, n), B[n])
      BY <1>4, <1>6
    <3> HIDE DEF B
    <3>2. B[n] = Binding(p, n) => Changed(p, e, n, Binding(p, n), B[n])
      BY DEF Changed
    <3> QED BY <1>5, <3>1, <3>2
  <2> HIDE DEF B
  <2> QED BY <1>3, <2>1, <2>2, OwnChanged
<1>7. CASE refused # {}
  <2>1. PICK x \in refused, some \in SUBSET (names \ refused) :
          \E b \in Remains(Binding(p, x), StarValue(p, x), TRUE) :
            envs' = [envs EXCEPT ![e].bind = [StarBound(p, some) EXCEPT ![x] = b]]
    BY <1>7 DEF BindStar, StarBound, StarNames, StarValue, StarValues
  <2>2. PICK c \in Remains(Binding(p, x), StarValue(p, x), TRUE) :
          envs' = [envs EXCEPT ![e].bind = [StarBound(p, some) EXCEPT ![x] = c]]
    BY <2>1
  <2> DEFINE D == StarBound(p, some)
             B == [D EXCEPT ![x] = c]
  <2>3. D = [y \in Name |-> D[y]] /\ x \in Name
    BY DEF StarBound, StarNames
  <2>4. envs' = [envs EXCEPT ![e].bind = B]
    BY <2>2
  <2>5. \A n \in Name : D[n] = Binding(p, n)
          \/ StarStored(p, n, Binding(p, n), D[n])
    BY <1>4
  <2>6. StarStored(p, x, Binding(p, x), c)
    BY DEF Stored, StarStored
  <2> HIDE DEF D
  <2>7. \A n \in Name : B[n] = IF n = x THEN c ELSE D[n]
    BY <2>3
  <2> HIDE DEF B
  <2>8. ASSUME NEW n \in Name PROVE Changed(p, e, n, Binding(p, n), B[n])
    <3>1. B[n] = Binding(p, n) \/ StarStored(p, n, Binding(p, n), B[n])
      <4>1. CASE n = x
        BY <2>6, <2>7, <4>1
      <4>2. CASE n # x
        BY <2>5, <2>7, <4>2
      <4> QED BY <4>1, <4>2
    <3>2. B[n] = Binding(p, n) => Changed(p, e, n, Binding(p, n), B[n])
      BY DEF Changed
    <3> QED BY <1>5, <3>1, <3>2
  <2> QED BY <1>3, <2>4, <2>8, OwnChanged
<1> QED BY <1>6, <1>7

\* A step that writes one binding.
LEMMA OneChanged ==
  ASSUME LoadInv, NEW p \in Proc, Top(p).env \in 1 .. Len(envs), NEW x \in Name, NEW c,
         envs' = [envs EXCEPT ![Top(p).env].bind = WithOne(p, x, c)],
         Changed(p, Top(p).env, x, Binding(p, x), c), NEW d \in 1 .. Len(envs)
  PROVE  ChangedEnv(p, d)
<1> DEFINE B == WithOne(p, x, c)
<1>1. envs[Top(p).env].bind \in [Name -> BindingRec]
  BY EnvType
<1>2. \A n \in Name : B[n] = IF n = x THEN c ELSE Binding(p, n)
  BY <1>1 DEF WithOne, Binding
<1> HIDE DEF B
<1>3. ASSUME NEW n \in Name PROVE Changed(p, Top(p).env, n, Binding(p, n), B[n])
  <2>1. CASE n = x
    BY <1>2, <2>1
  <2>2. CASE n # x
    BY <1>2, <2>2 DEF Changed
  <2> QED BY <2>1, <2>2
<1>4. envs' = [envs EXCEPT ![Top(p).env].bind = B]
  BY DEF B
<1> QED BY <1>3, <1>4, OwnChanged

\* Statement of p at which it stores a value.
LEMMA AtBind ==
  ASSUME LoadInv, NEW p \in Proc, BindNamed(p) \/ DeclStep(p)
  PROVE  /\ stack[p] # <<>> /\ Top(p).pc \in DOMAIN Code(p) /\ Top(p).stage \in {"bind", "exec"}
         /\ Top(p).env \in 1 .. Len(envs) /\ envs[Top(p).env].st = "run"
         /\ Current(p) = Code(p)[Top(p).pc] /\ Current(p) \in Stmt /\ Current(p).name \in Name
         /\ BindNamed(p) => Current(p).op = "named"
         /\ DeclStep(p) => Current(p).op = "decl"
<1>1. /\ stack[p] # <<>> /\ Top(p).stage \in {"bind", "exec"} /\ Current(p) = Code(p)[Top(p).pc]
      /\ BindNamed(p) => Current(p).op = "named" /\ Top(p).stage = "bind"
      /\ DeclStep(p) => Current(p).op = "decl" /\ Top(p).pc <= Len(Code(p))
  BY DEF BindNamed, DeclStep, At, Stage, Active, Current
<1>2. Top(p).pc \in DOMAIN Code(p)
  <2>1. CASE BindNamed(p)
    BY <1>1, <2>1, TopFacts DEF ActOK, Importing
  <2>2. CASE DeclStep(p)
    <3>1. DOMAIN Code(p) = 1 .. Len(Code(p)) /\ Len(Code(p)) \in Nat /\ Top(p).pc \in Nat \ {0}
      BY <1>1, TopFacts DEF ActRec
    <3> QED BY <1>1, <2>2, <3>1
  <2> QED BY <2>1, <2>2
<1>3. Current(p).op \in {"decl", "named"} /\ Code(p)[Top(p).pc].op # "try"
  BY <1>1
<1>4. Top(p).env \in 1 .. Len(envs) /\ envs[Top(p).env].st = "run" /\ Current(p) \in Stmt
  BY <1>1, <1>2, <1>3, AtStatement
<1>5. Current(p).name \in Name
  BY <1>3, <1>4, StmtFields
<1> QED BY <1>1, <1>2, <1>4, <1>5

LEMMA DeclChanged ==
  ASSUME LoadInv, NEW p \in Proc, DeclStep(p), NEW d \in 1 .. Len(envs)
  PROVE  ChangedEnv(p, d)
<1> DEFINE x == Current(p).name
           v == DeclValue(p)
           mut == Current(p).mut
           b == Binding(p, x)
<1>1. Top(p).env \in 1 .. Len(envs) /\ x \in Name
  BY AtBind
<1>2. Store(p, x, v, mut)
  BY DEF DeclStep, DeclValue
<1> HIDE DEF x, v, mut
<1>3. PICK c : /\ envs' = [envs EXCEPT ![Top(p).env].bind = WithOne(p, x, c)]
               /\ StoreOutcome(p, b, v, mut, c)
  BY <1>1, <1>2, StoreResult
<1> HIDE DEF b
<1>4. Declared(p, b, c)
  BY <1>3 DEF StoreOutcome, Declared, Stored, v, mut
<1>5. Changed(p, Top(p).env, x, b, c)
  BY <1>4 DEF Changed, x
<1> QED BY <1>1, <1>3, <1>5, OneChanged DEF b

LEMMA NamedChanged ==
  ASSUME LoadInv, NEW p \in Proc, BindNamed(p), NEW d \in 1 .. Len(envs)
  PROVE  ChangedEnv(p, d)
<1> DEFINE x == Current(p).name
           v == NamedValue(p, x)
           mut == Current(p).mut
           b == Binding(p, x)
           w == MapValue(Top(p).temp[x])
<1>1. Top(p).env \in 1 .. Len(envs) /\ x \in Name /\ stack[p] # <<>>
  BY AtBind
<1>2. CASE Faults(w)
  <2>1. envs' = envs
    BY <1>2 DEF BindNamed
  <2> QED BY <2>1, SameChanged
<1>3. CASE ~Faults(w)
  <2>1. Store(p, x, v, mut)
    BY <1>3 DEF BindNamed, NamedValue
  <2>2. v.k # "fn"
    <3>1. v \in Held
      BY <1>1, <1>3, NamedIncoming
    <3> HIDE DEF v
    <3> QED BY <3>1 DEF Held
  <2> HIDE DEF x, v, mut
  <2>3. PICK c : /\ envs' = [envs EXCEPT ![Top(p).env].bind = WithOne(p, x, c)]
                 /\ StoreOutcome(p, b, v, mut, c)
    BY <1>1, <2>1, <2>2, StoreResult
  <2> HIDE DEF b
  <2>4. Stored(b, c, v, mut, FALSE)
    BY <2>2, <2>3 DEF StoreOutcome, Stored
  <2>5. NamedStored(p, b, c)
    BY <1>3, <2>4 DEF NamedStored, v, mut, w, x
  <2>6. Changed(p, Top(p).env, x, b, c)
    BY <2>5 DEF Changed, x
  <2> QED BY <1>1, <2>3, <2>6, OneChanged DEF b
<1> QED BY <1>2, <1>3

LEMMA PutChanged ==
  ASSUME LoadInv, NEW p \in Proc, Put(p)
  PROVE  /\ stack[p] # <<>> /\ Head(Top(p).todo) \in Module /\ Len(envs) \in Nat
         /\ Len(envs') = Len(envs) + 1 /\ envs'[Len(envs) + 1].mod = Head(Top(p).todo)
         /\ envs'[Len(envs) + 1].bind = Empty /\ envs'[Len(envs) + 1].st = "run"
         /\ \A d \in 1 .. Len(envs) : envs'[d] = envs[d]
<1> DEFINE m == Head(Top(p).todo)
           new == [mod |-> m, bind |-> Empty, st |-> "run"]
<1>1. stack[p] # <<>> /\ Top(p).stage = "put" /\ envs' = Append(envs, new)
  BY DEF Put, Stage, Active
<1>2. Top(p) \in ActRec /\ Top(p).todo # <<>> /\ envs \in Seq(EnvRec) /\ Len(envs) \in Nat
  BY <1>1, TopFacts DEF ActOK, Loading
<1>3. m \in Module
  BY <1>2, HeadTailProperties DEF ActRec
<1>4. new.mod = m /\ new.bind = Empty /\ new.st = "run"
  OBVIOUS
<1> HIDE DEF new, m
<1> DEFINE S == EnvRec \cup {new}
<1>5. envs \in Seq(S) /\ new \in S
  BY <1>2, SeqElements, IsASeq DEF S
<1> HIDE DEF S
<1>6. /\ Len(envs') = Len(envs) + 1 /\ envs'[Len(envs) + 1] = new
      /\ \A d \in 1 .. Len(envs) : envs'[d] = envs[d]
  BY <1>1, <1>5, AppendParts
<1> QED BY <1>1, <1>2, <1>3, <1>4, <1>6 DEF m

LEMMA MergeChanged ==
  ASSUME LoadInv, NEW p \in Proc, Merge(p), NEW e \in 1 .. Len(envs)
  PROVE  ChangedEnv(p, e)
<1> DEFINE F == Delegated(p)
           n == Len(envs)
           B == Extension(p, e, envs[e].bind)
<1>1. stack[p] # <<>> /\ Top(p).stage = "merge" /\ envs' = F
  BY DEF Merge, Stage, Active
<1>2. /\ envs \in Seq(EnvRec) /\ n \in Nat /\ DOMAIN envs = 1 .. n
      /\ \A d \in 1 .. n : envs[d] \in EnvRec
  BY SeqElements DEF LoadInv, Shape
<1>3. F = [d \in 1 .. n |-> [envs[d] EXCEPT !.bind = Extension(p, d, envs[d].bind)]]
  BY <1>2 DEF Delegated, Extension, Extended
<1>4. F[e] = [envs[e] EXCEPT !.bind = B]
  BY <1>3
<1>5. \A x \in Name : B[x] = envs[e].bind[x] \/ B[x] = Extended(envs[e].bind[x], Top(p).got, x)
  BY DEF Extension
<1>6. \A x \in Name : B[x] # envs[e].bind[x] => envs[e].bind[x].val.k = "group"
  BY <1>1, ExtensionOK
<1> HIDE DEF F, B
<1>7. F[e].mod = envs[e].mod /\ F[e].bind = B /\ F[e].st = envs[e].st
  BY <1>2, <1>4 DEF EnvRec
<1>8. envs'[e].mod = envs[e].mod /\ envs'[e].bind = B /\ envs'[e].st = envs[e].st
  BY ONLY <1>1, <1>7
<1>9. \A x \in Name : Changed(p, e, x, envs[e].bind[x], B[x])
  BY <1>5, <1>6 DEF Changed, IsGroup
<1> QED BY <1>8, <1>9 DEF ChangedEnv

LEMMA DeclareChanged ==
  ASSUME LoadInv, NEW p \in Proc, Declare(p), NEW d \in 1 .. Len(envs)
  PROVE  ChangedEnv(p, d)
<1> DEFINE e == Top(p).env
           B == [n \in Name |-> Predeclared(envs[e].mod, n)]
<1>1. stack[p] # <<>> /\ Top(p).stage = "declare"
  BY DEF Declare, Stage, Active
<1>2. Top(p).env \in 1 .. Len(envs)
  BY <1>1, TopFacts DEF ActOK
<1>3. envs' = [envs EXCEPT ![Top(p).env].bind = B]
  BY DEF Declare
<1>4. \A n \in Name : Changed(p, Top(p).env, n, Binding(p, n), B[n])
  BY DEF Changed
<1> HIDE DEF B
<1> QED BY <1>2, <1>3, <1>4, OwnChanged

\* The end of a load.
LEMMA FinishChanged ==
  ASSUME LoadInv, NEW p \in Proc, Finish(p), NEW d \in 1 .. Len(envs)
  PROVE  ChangedEnv(p, d)
<1> DEFINE e == Top(p).env
           B == Reexported(e)
<1>1. stack[p] # <<>>
  BY DEF Finish, Stage, Active
<1>2. ActOK(envs, p, Top(p)) /\ Len(envs) \in Nat
  BY <1>1, TopFacts
<1>3. e # 0 => e \in 1 .. Len(envs)
  BY <1>2 DEF ActOK
<1>4. \/ envs' = envs
      \/ e # 0 /\ envs' = [envs EXCEPT ![e].st = "done"]
      \/ envs' = [envs EXCEPT ![e].st = "done", ![e].bind = B]
  BY DEF Finish
<1>5. CASE envs' = envs
  BY <1>5, SameChanged
<1>6. CASE e # 0 /\ envs' = [envs EXCEPT ![e].st = "done"]
  <2> DEFINE C == envs[e].bind
  <2>1. e \in 1 .. Len(envs)
    BY <1>3, <1>6
  <2>2. envs' = With(e, C, "done")
    BY <1>6, <2>1, StateIsWith
  <2> HIDE DEF e, C
  <2>3. /\ With(e, C, "done")[e].mod = envs[e].mod /\ With(e, C, "done")[e].bind = C
        /\ With(e, C, "done")[e].st = "done"
        /\ \A c \in 1 .. Len(envs) : c # e => With(e, C, "done")[c] = envs[c]
    BY <2>1, WithParts
  <2>4. /\ envs'[e].mod = envs[e].mod /\ envs'[e].bind = C /\ envs'[e].st = "done"
        /\ \A c \in 1 .. Len(envs) : c # e => envs'[c] = envs[c]
    BY ONLY <2>2, <2>3
  <2>5. CASE d = e
    <3>1. \A n \in Name : envs'[d].bind[n] = envs[d].bind[n]
      BY <2>4, <2>5 DEF C
    <3> QED BY <2>4, <2>5, <3>1 DEF ChangedEnv, Changed, e
  <2>6. CASE d # e
    BY <2>4, <2>6, SameChanged
  <2> QED BY <2>5, <2>6
<1>7. CASE e # 0 /\ envs' = [envs EXCEPT ![e].st = "done", ![e].bind = B]
  <2>1. e \in 1 .. Len(envs)
    BY <1>3, <1>7
  <2>2. \A n \in Name : B[n] = envs[e].bind[n]
          \/ (n \in Exports(envs[e].mod) /\ envs[e].bind[n] # NoBinding
              /\ B[n] = [envs[e].bind[n] EXCEPT !.export = TRUE])
    BY DEF Reexported, Bound
  <2> HIDE DEF B, e
  <2>3. envs' = With(e, B, "done")
    BY <1>7, <2>1, DoneIsWith
  <2>4. /\ With(e, B, "done")[e].mod = envs[e].mod /\ With(e, B, "done")[e].bind = B
        /\ With(e, B, "done")[e].st = "done"
        /\ \A c \in 1 .. Len(envs) : c # e => With(e, B, "done")[c] = envs[c]
    BY <2>1, WithParts
  <2>5. /\ envs'[e].mod = envs[e].mod /\ envs'[e].bind = B /\ envs'[e].st = "done"
        /\ \A c \in 1 .. Len(envs) : c # e => envs'[c] = envs[c]
    BY ONLY <2>3, <2>4
  <2>6. CASE d = e
    <3>1. \A n \in Name : Changed(p, d, n, envs[d].bind[n], B[n])
      BY <2>2, <2>6 DEF Changed, e
    <3> QED BY <2>5, <2>6, <3>1 DEF ChangedEnv, e
  <2>7. CASE d # e
    BY <2>5, <2>7, SameChanged
  <2> QED BY <2>6, <2>7
<1>8. CASE e = 0 /\ envs' = [envs EXCEPT ![e].st = "done", ![e].bind = B]
  <2>1. 0 \notin DOMAIN envs
    BY <1>2, SeqElements DEF LoadInv, Shape
  <2> HIDE DEF B, e
  <2>2. envs' = envs
    BY <1>8, <2>1, SeqElements DEF LoadInv, Shape
  <2> QED BY <2>2, SameChanged
<1> QED BY <1>4, <1>5, <1>6, <1>7, <1>8

LEMMA UnwindChanged ==
  ASSUME LoadInv, NEW p \in Proc, Unwind(p), NEW d \in 1 .. Len(envs)
  PROVE  ChangedEnv(p, d)
<1> DEFINE e == Top(p).env
           C == envs[e].bind
<1>1. stack[p] # <<>>
  BY DEF Unwind, LoadInv
<1>2. ActOK(envs, p, Top(p)) /\ Len(envs) \in Nat
  BY <1>1, TopFacts
<1>3. e # 0 => e \in 1 .. Len(envs)
  BY <1>2 DEF ActOK
<1>4. envs' = envs \/ (e # 0 /\ envs' = [envs EXCEPT ![e].st = "failed"])
  BY DEF Unwind
<1>5. CASE envs' = envs
  BY <1>5, SameChanged
<1>6. CASE e # 0 /\ envs' = [envs EXCEPT ![e].st = "failed"]
  <2>1. e \in 1 .. Len(envs)
    BY <1>3, <1>6
  <2>2. envs' = With(e, C, "failed")
    BY <1>6, <2>1, StateIsWith
  <2> HIDE DEF e, C
  <2>3. /\ With(e, C, "failed")[e].mod = envs[e].mod /\ With(e, C, "failed")[e].bind = C
        /\ With(e, C, "failed")[e].st = "failed"
        /\ \A c \in 1 .. Len(envs) : c # e => With(e, C, "failed")[c] = envs[c]
    BY <2>1, WithParts
  <2>4. /\ envs'[e].mod = envs[e].mod /\ envs'[e].bind = C /\ envs'[e].st = "failed"
        /\ \A c \in 1 .. Len(envs) : c # e => envs'[c] = envs[c]
    BY ONLY <2>2, <2>3
  <2>5. CASE d = e
    <3>1. \A n \in Name : envs'[d].bind[n] = envs[d].bind[n]
      BY <2>4, <2>5 DEF C
    <3> QED BY <2>4, <2>5, <3>1 DEF ChangedEnv, Changed, e
  <2>6. CASE d # e
    BY <2>4, <2>6, SameChanged
  <2> QED BY <2>5, <2>6
<1> QED BY <1>4, <1>5, <1>6

LEMMA StepChanged ==
  ASSUME LoadInv, NEW p \in Proc, Step(p), NEW e \in 1 .. Len(envs)
  PROVE  ChangedEnv(p, e)
<1>1. CASE Import(p) \/ CheckCache(p) \/ ReadFails(p) \/ IgnoreImport(p) \/ Use(p) \/ FailStep(p)
  <2>1. envs' = envs
    BY <1>1 DEF Import, CheckCache, ReadFails, IgnoreImport, Use, FailStep
  <2> QED BY <2>1, SameChanged
<1>2. CASE Put(p)
  BY <1>2, PutChanged, SameChanged
<1> QED BY <1>1, <1>2, MergeChanged, DeclareChanged, FinishChanged, UnwindChanged, StarChanged, DeclChanged,
           NamedChanged DEF Step

\* Environments are only added, one at a time.
LEMMA StepLength ==
  ASSUME LoadInv, NEW p \in Proc, Step(p)
  PROVE  /\ stack[p] # <<>> /\ Len(envs) \in Nat
         /\ ~Put(p) => Len(envs') = Len(envs) /\ cache' = cache
         /\ Put(p) => Len(envs') = Len(envs) + 1
<1>1. stack[p] # <<>>
  BY DEF Step, Import, CheckCache, ReadFails, Put, Declare, Finish, Unwind, Merge, BindStar, IgnoreImport,
         DeclStep, BindNamed, Use, FailStep, At, Stage, Active, LoadInv
<1>2. ~Put(p) => Len(envs') = Len(envs) /\ cache' = cache
  BY StepSame DEF Same
<1> QED BY <1>1, <1>2, TopFacts, PutChanged

----------------------------------------------------------------------------
(* Modules without var *)

\* The names that P's modules declare and bind are not declared with var.
NoVar(P) == \A m \in Module : \A i \in DOMAIN P[m] :
              P[m][i].op \in {"decl", "named", "star"} => ~P[m][i].mut

\* A binding with a value of its own is not an imported one, and none is
\* mutable: the former can then not be replaced.
Firm(b) == b.val.k \in {"lit", "nil"}
Fixed(b) == ~b.mut /\ (Firm(b) => ~b.import)
FixedInv == \A e \in 1 .. Len(envs) : \A n \in Name : Fixed(envs[e].bind[n])

\* What `val {*} = import(...)` binds: references and groups.
LEMMA StarKind ==
  ASSUME LoadInv, NEW p \in Proc, stack[p] # <<>>, NEW n \in StarNames(p)
  PROVE  /\ StarValue(p, n).k \in {"ref", "group"}
         /\ StarValue(p, n).k = "ref" => StarValue(p, n) = Top(p).temp[n]
         /\ StarValue(p, n).k = "group" => Top(p).temp[n].k = "group"
<1> DEFINE u == Top(p).temp[n]
<1>1. n \in Name /\ StarValue(p, n) = MapValue(u) /\ MapValue(u) # NoValue
  BY DEF StarNames, StarValue, StarValues
<1>2. u \in Collected /\ CollectedOK(envs, u)
  BY <1>1, TopFacts DEF ActRec, ActOK
<1> HIDE DEF u
<1>3. CASE u.k = "group"
  <2>1. MapValue(u).k = "group"
    BY <1>2, <1>3 DEF MapValue, CollectedOK, IsGroup
  <2> QED BY <1>1, <1>3, <2>1 DEF u
<1>4. CASE u.k # "group"
  <2>1. MapValue(u) = u
    BY <1>4 DEF MapValue
  <2>2. u.k # "none"
    <3> SUFFICES ASSUME u.k = "none" PROVE FALSE
      OBVIOUS
    <3>1. u = [k |-> "none"]
      BY <1>2 DEF Collected
    <3> QED BY <1>1, <2>1, <3>1 DEF NoValue
  <2>3. u.k = "ref"
    BY <1>2, <1>4, <2>2 DEF Collected
  <2> QED BY <1>1, <2>1, <2>3 DEF u
<1> QED BY <1>3, <1>4

\* The statement that binds a name does so with val.
LEMMA CurrentVal ==
  ASSUME LoadInv, NoVar(program), NEW p \in Proc, BindStar(p) \/ BindNamed(p) \/ DeclStep(p)
  PROVE  Current(p).mut = FALSE
<1>1. /\ stack[p] # <<>> /\ Current(p) = Code(p)[Top(p).pc] /\ Current(p).op \in {"decl", "named", "star"}
      /\ BindStar(p) => Top(p).stage = "bind"
  BY DEF BindStar, BindNamed, DeclStep, At, Stage, Active, Current
<1>2. Top(p).pc \in DOMAIN Code(p)
  <2>1. CASE BindStar(p)
    BY <1>1, <2>1, TopFacts DEF ActOK, Importing
  <2> QED BY <2>1, AtBind
<1>3. Top(p).env \in 1 .. Len(envs) /\ Current(p) \in Stmt
  BY <1>1, <1>2, AtStatement
<1>4. Code(p) = program[envs[Top(p).env].mod] /\ envs[Top(p).env].mod \in Module
  <2>1. envs[Top(p).env] \in EnvRec /\ Top(p).env # 0
    BY <1>3, SeqElements DEF LoadInv, Shape
  <2> QED BY <2>1 DEF Code, EnvRec
<1>5. ~Current(p).mut
  BY <1>1, <1>2, <1>4 DEF NoVar
<1>6. Current(p).mut \in BOOLEAN
  BY <1>1, <1>3, StmtFields
<1> QED BY <1>5, <1>6

\* A refusal for a group leaves the group.
LEMMA RefusedGroup ==
  ASSUME NEW b \in BindingRec, NEW v, Refused(b, v), ~Immutable(b, v), NEW import, NEW c \in Remains(b, v, import)
  PROVE  b.val.k = "group" /\ c.val.k = "group" /\ c.mut = b.mut
<1>1. b.val.k = "group"
  <2> SUFFICES ASSUME b.val.k # "group" PROVE FALSE
    OBVIOUS
  <2>1. OldFns(b) = << >>
    BY DEF OldFns
  <2>2. DOMAIN OldFns(b) = {}
    BY <2>1
  <2> QED BY <2>2 DEF Refused, Clashes
<1>2. /\ b.val \in [k : {"group"}, fns : Fns, delegates : SUBSET (Nat \X Name)]
      /\ b.mut \in BOOLEAN /\ b.export \in BOOLEAN /\ b.import \in BOOLEAN
  BY <1>1 DEF BindingRec, Slot, Held
<1>3. PICK sigs \in SUBSET (DOMAIN NewFns(v) \ DOMAIN OldFns(b)) :
        c = [b EXCEPT !.export = FALSE, !.import = import,
                      !.val.fns = Over(Restrict(NewFns(v), sigs), @)]
  BY DEF Remains
<1> DEFINE f == Over(Restrict(NewFns(v), sigs), b.val.fns)
           g == [b.val EXCEPT !.fns = f]
<1> HIDE DEF f
<1>4. g.k = "group"
  BY <1>2
<1>5. c = [b EXCEPT !.export = FALSE, !.import = import, !.val = g]
  BY <1>2, <1>3 DEF f, BindingRec
<1> HIDE DEF g
<1>6. c.val = g /\ c.mut = b.mut
  BY <1>5 DEF BindingRec
<1> QED BY <1>1, <1>4, <1>6

\* Value v is stored in a binding made with val, imported if it can be.
ValStored(old, new, v) ==
  \E mut, import \in BOOLEAN : /\ Stored(old, new, v, mut, import) /\ ~mut
                               /\ import => v.k \in {"ref", "group"}

LEMMA FixedStored ==
  ASSUME NEW old \in BindingRec, Fixed(old), NEW v, NEW new, ValStored(old, new, v)
  PROVE  Fixed(new) /\ (Firm(old) => new = old)
<1> PICK mut \in BOOLEAN, import \in BOOLEAN :
           Stored(old, new, v, mut, import) /\ ~mut /\ (import => v.k \in {"ref", "group"})
  BY DEF ValStored
<1>1. Firm(old) => Immutable(old, v)
  <2>1. Firm(old) => old # NoBinding /\ old.val # Uninit /\ old.val.k # "group"
    BY DEF Firm, NoBinding, NoValue, Uninit
  <2> QED BY <2>1 DEF Fixed, Immutable
<1>2. CASE ~Refused(old, v)
  <2>1. new = Defined(old, v, mut, FALSE, import)
    BY <1>2 DEF Stored
  <2>2. new.mut = (IF old = NoBinding THEN mut ELSE old.mut) /\ new.import = import
        /\ new.val = IF Callable(v) THEN Group(Over(NewFns(v), OldFns(old)), OldDelegates(old)) ELSE v
    BY <2>1 DEF Defined
  <2>3. ~new.mut
    BY <2>2 DEF Fixed
  <2>4. Firm(new) => ~import
    <3>1. CASE Callable(v)
      BY <2>2, <3>1 DEF Group, Firm
    <3>2. CASE ~Callable(v)
      BY <2>2, <3>2 DEF Firm
    <3> QED BY <3>1, <3>2
  <2> QED BY <1>1, <1>2, <2>2, <2>3, <2>4 DEF Fixed, Refused
<1>3. CASE Immutable(old, v)
  <2>1. new = old
    BY <1>3 DEF Stored, Refused, Remains
  <2> QED BY <2>1
<1>4. CASE Refused(old, v) /\ ~Immutable(old, v)
  <2>1. new \in Remains(old, v, import)
    BY <1>4 DEF Stored
  <2>2. new.val.k = "group" /\ new.mut = old.mut
    BY <1>4, <2>1, RefusedGroup
  <2> QED BY <1>1, <1>4, <2>2 DEF Fixed, Firm
<1> QED BY <1>2, <1>3, <1>4

\* The second of two writes of a group is a group.
LEMMA GroupKept ==
  ASSUME NEW b \in BindingRec, IsGroup(b), NEW c,
         (\E e, n : c = Extended(b, e, n)) \/ (\E f : c = [b EXCEPT !.val.fns = f])
  PROVE  IsGroup(c) /\ c.mut = b.mut /\ c.export = b.export
<1>1. /\ b.val \in [k : {"group"}, fns : Fns, delegates : SUBSET (Nat \X Name)]
      /\ b.mut \in BOOLEAN /\ b.export \in BOOLEAN /\ b.import \in BOOLEAN
  BY DEF BindingRec, Slot, Held, IsGroup
<1>2. ASSUME NEW f, c = [b EXCEPT !.val.fns = f]
      PROVE  IsGroup(c) /\ c.mut = b.mut /\ c.export = b.export
  <2> DEFINE g == [b.val EXCEPT !.fns = f]
  <2>1. g.k = "group"
    BY <1>1
  <2>2. c = [b EXCEPT !.val = g]
    BY <1>2
  <2> HIDE DEF g
  <2> QED BY <2>1, <2>2 DEF BindingRec, IsGroup
<1>3. ASSUME NEW e, NEW n, c = Extended(b, e, n)
      PROVE  IsGroup(c) /\ c.mut = b.mut /\ c.export = b.export
  <2> DEFINE g == [b.val EXCEPT !.delegates = b.val.delegates \cup {<<e, n>>}]
  <2>1. g.k = "group"
    BY <1>1
  <2>2. c = [b EXCEPT !.val = g]
    BY <1>3 DEF Extended
  <2> HIDE DEF g
  <2> QED BY <2>1, <2>2 DEF BindingRec, IsGroup
<1> QED BY <1>2, <1>3

LEMMA PredeclaredFixed ==
  ASSUME Shape, NoVar(program), NEW m \in Module, NEW n \in Name
  PROVE  Predeclared(m, n).mut = FALSE /\ Predeclared(m, n).val.k \in {"none", "uninit"}
<1>1. CASE Decls(m, n) = {}
  BY <1>1 DEF Predeclared, NoBinding, NoValue
<1>2. CASE Decls(m, n) # {}
  <2> DEFINE D == Decls(m, n)
             first == CHOOSE i \in D : \A j \in D : i <= j
  <2>1. program[m] \in Seq(Stmt)
    BY DEF Shape
  <2>2. /\ Len(program[m]) \in Nat /\ D \in SUBSET (1 .. Len(program[m]))
        /\ \A i \in D : program[m][i] \in Stmt /\ program[m][i].op \in {"decl", "named"} /\ i \in DOMAIN program[m]
    BY <2>1, SeqElements DEF Decls
  <2> HIDE DEF D
  <2>3. first \in D
    BY <1>2, <2>2, Ends DEF D
  <2>4. program[m][first].mut \in BOOLEAN /\ ~program[m][first].mut
    BY <2>2, <2>3, StmtFields DEF NoVar
  <2>5. Predeclared(m, n).mut = program[m][first].mut /\ Predeclared(m, n).val = Uninit
    BY <1>2 DEF Predeclared, D
  <2> HIDE DEF first
  <2> QED BY <2>4, <2>5 DEF Uninit
<1> QED BY <1>1, <1>2

LEMMA StepFixed ==
  ASSUME LoadInv, NoVar(program), FixedInv, NEW p \in Proc, Step(p), NEW e \in 1 .. Len(envs), NEW n \in Name
  PROVE  /\ Fixed(envs'[e].bind[n])
         /\ Firm(envs[e].bind[n]) =>
              /\ envs'[e].bind[n].val = envs[e].bind[n].val
              /\ envs'[e].bind[n].import = envs[e].bind[n].import
<1> DEFINE old == envs[e].bind[n]
           new == envs'[e].bind[n]
<1>1. stack[p] # <<>>
  BY StepLength
<1>2. old \in BindingRec /\ envs[e].mod \in Module
  BY BindType, SeqElements DEF LoadInv, Shape, EnvRec
<1>3. Fixed(old)
  BY DEF FixedInv
<1>4. Changed(p, e, n, old, new)
  BY StepChanged DEF ChangedEnv
<1>5. Binding(p, n) = old \/ e # Top(p).env
  BY DEF Binding
<1>6. Declare(p) /\ e = Top(p).env => old = NoBinding
  <2> SUFFICES ASSUME Declare(p), e = Top(p).env PROVE old = NoBinding
    OBVIOUS
  <2>1. envs[Top(p).env].bind = Empty
    BY <1>1, TopFacts DEF Declare, Stage, ActOK
  <2> QED BY <2>1 DEF Empty
<1> HIDE DEF old, new
<1>7. CASE new = old
  BY <1>3, <1>7 DEF old, new
<1>8. CASE IsGroup(old) /\ new = Extended(old, Top(p).got, n)
  <2>1. IsGroup(new) /\ new.mut = old.mut
    BY <1>2, <1>8, GroupKept
  <2> QED BY <1>3, <1>8, <2>1 DEF Fixed, Firm, IsGroup, old, new
<1>9. CASE old # NoBinding /\ new = [old EXCEPT !.export = TRUE]
  <2>1. new.val = old.val /\ new.mut = old.mut /\ new.import = old.import
    BY <1>2, <1>9 DEF BindingRec
  <2> QED BY <1>3, <2>1 DEF Fixed, Firm, old, new
<1>10. CASE e = Top(p).env /\ Declare(p) /\ new = Predeclared(envs[e].mod, n)
  <2>1. new.mut = FALSE /\ new.val.k \in {"none", "uninit"}
    BY <1>2, <1>10, PredeclaredFixed DEF LoadInv
  <2>2. ~Firm(old)
    BY <1>6, <1>10 DEF Firm, NoBinding, NoValue
  <2> QED BY <2>1, <2>2 DEF Fixed, Firm, old, new
<1>11. CASE e = Top(p).env /\ BindStar(p) /\ StarStored(p, n, old, new)
  <2> DEFINE v == StarValue(p, n)
             mut == Current(p).mut
             import == TRUE
  <2>1. n \in StarNames(p) /\ Stored(old, new, v, mut, import)
    BY <1>11 DEF StarStored
  <2>2. v.k \in {"ref", "group"} /\ mut = FALSE /\ import \in BOOLEAN
    BY <1>1, <1>11, <2>1, StarKind, CurrentVal
  <2> HIDE DEF v, mut, import
  <2>3. ValStored(old, new, v)
    BY <2>1, <2>2 DEF ValStored
  <2>4. Fixed(new) /\ (Firm(old) => new = old)
    BY <1>2, <1>3, <2>3, FixedStored
  <2> QED BY <2>4 DEF old, new
<1>12. CASE e = Top(p).env /\ BindNamed(p) /\ NamedStored(p, old, new)
  <2> DEFINE v == NamedValue(p, Current(p).name)
             mut == Current(p).mut
             import == FALSE
  <2>1. Stored(old, new, v, mut, import) /\ mut = FALSE /\ import \in BOOLEAN /\ import # TRUE
    BY <1>12, CurrentVal DEF NamedStored
  <2> HIDE DEF v, mut, import
  <2>2. ValStored(old, new, v)
    BY <2>1 DEF ValStored
  <2>3. Fixed(new) /\ (Firm(old) => new = old)
    BY <1>2, <1>3, <2>2, FixedStored
  <2> QED BY <2>3 DEF old, new
<1>13. CASE e = Top(p).env /\ DeclStep(p) /\ Declared(p, old, new)
  <2> DEFINE v == DeclValue(p)
             mut == Current(p).mut
             import == FALSE
  <2>1. mut = FALSE /\ import \in BOOLEAN /\ import # TRUE
    BY <1>13, CurrentVal
  <2>2. \/ Stored(old, new, v, mut, import)
        \/ v.k = "fn" /\ IsGroup(old) /\ new = [old EXCEPT !.val.fns = Over(NewFns(v), @)]
    BY <1>13 DEF Declared
  <2> HIDE DEF v, mut, import
  <2>3. CASE Stored(old, new, v, mut, import)
    <3>1. ValStored(old, new, v)
      BY <2>1, <2>3 DEF ValStored
    <3>2. Fixed(new) /\ (Firm(old) => new = old)
      BY <1>2, <1>3, <3>1, FixedStored
    <3> QED BY <3>2 DEF old, new
  <2>4. CASE IsGroup(old) /\ new = [old EXCEPT !.val.fns = Over(NewFns(v), @)]
    <3> DEFINE f == Over(NewFns(v), old.val.fns)
    <3>1. new = [old EXCEPT !.val.fns = f]
      BY <2>4
    <3> HIDE DEF f
    <3>2. IsGroup(new) /\ new.mut = old.mut
      BY <1>2, <2>4, <3>1, GroupKept
    <3> QED BY <1>3, <2>4, <3>2 DEF Fixed, Firm, IsGroup, old, new
  <2> QED BY <2>2, <2>3, <2>4
<1> QED BY <1>4, <1>7, <1>8, <1>9, <1>10, <1>11, <1>12, <1>13 DEF Changed

LEMMA FixedInit == Init => FixedInv
<1> SUFFICES ASSUME Init PROVE FixedInv
  OBVIOUS
<1>1. Len(envs) = 1 /\ envs[1].bind = Empty
  BY DEF Init
<1> QED BY <1>1 DEF FixedInv, Fixed, Firm, Empty, NoBinding, NoValue

LEMMA FixedNext ==
  ASSUME LoadInv, NoVar(program), FixedInv, [Next]_vars
  PROVE  FixedInv'
<1>1. CASE \E p \in Proc : Step(p)
  <2>1. PICK p \in Proc : Step(p)
    BY <1>1
  <2>2. Len(envs) \in Nat /\ (Len(envs') = Len(envs) \/ (Put(p) /\ Len(envs') = Len(envs) + 1))
    BY <2>1, StepLength
  <2>3. ASSUME NEW e \in 1 .. Len(envs'), NEW n \in Name PROVE Fixed(envs'[e].bind[n])
    <3>1. CASE e \in 1 .. Len(envs)
      BY <2>1, <3>1, StepFixed
    <3>2. CASE e \notin 1 .. Len(envs)
      <4>1. Put(p) /\ e = Len(envs) + 1
        BY <2>1, <2>2, <3>2, StepLength
      <4>2. envs'[e].bind = Empty
        BY <4>1, PutChanged
      <4> QED BY <4>2 DEF Fixed, Firm, Empty, NoBinding, NoValue
    <3> QED BY <3>1, <3>2
  <2> QED BY <2>3 DEF FixedInv
<1>2. CASE envs' = envs
  BY <1>2 DEF FixedInv
<1> QED BY <1>1, <1>2 DEF Next, MapRace, Ended, vars

\* The program stays the one that was chosen.
LEMMA ProgramStays ==
  ASSUME [Next]_vars
  PROVE  program' = program
BY DEF Next, Step, Import, CheckCache, ReadFails, Put, Declare, Finish, Unwind, Merge, BindStar, IgnoreImport,
       DeclStep, BindNamed, Use, FailStep, MapRace, Ended, vars

\* The source of a module is read when it is loaded and does not change.
THEOREM ProgramChosen == Spec => [](program \in Programs)
<1>1. Init => program \in Programs
  BY DEF Init
<1>2. program \in Programs /\ [Next]_vars => (program \in Programs)'
  BY ProgramStays
<1> QED BY <1>1, <1>2, PTL DEF Spec

\* Where nothing is declared with var, no binding is mutable, and what a module
\* has declared is not marked as imported: Environment.define refuses to
\* replace it.
THEOREM FixedBindings ==
  ASSUME \A P \in Programs : NoVar(P)
  PROVE  Spec => []FixedInv
<1>1. LoadInv /\ program \in Programs /\ FixedInv /\ [Next]_vars => FixedInv'
  BY FixedNext
<1> QED BY <1>1, FixedInit, Loads, ProgramChosen, PTL DEF Spec

\* Where nothing is declared with var, a value that a module has declared
\* stays, whatever it imports afterwards.
THEOREM DeclarationsStay ==
  ASSUME \A P \in Programs : NoVar(P)
  PROVE  Spec => LocalsWin
<1> DEFINE A == \A e \in DOMAIN envs : \A n \in Name :
                  envs[e].bind[n].val.k = "lit" => ~envs'[e].bind[n].import
<1>1. ASSUME LoadInv, program \in Programs, FixedInv, [Next]_vars PROVE A
  <2> SUFFICES ASSUME NEW e \in 1 .. Len(envs), NEW n \in Name, envs[e].bind[n].val.k = "lit"
               PROVE  ~envs'[e].bind[n].import
    BY <1>1, SeqElements DEF LoadInv, Shape
  <2>1. Firm(envs[e].bind[n]) /\ ~envs[e].bind[n].import
    BY <1>1 DEF FixedInv, Fixed, Firm
  <2>2. CASE \E p \in Proc : Step(p)
    BY <1>1, <2>1, <2>2, StepFixed
  <2>3. CASE envs' = envs
    BY <2>1, <2>3
  <2> QED BY <1>1, <2>2, <2>3 DEF Next, MapRace, Ended, vars
<1> HIDE DEF A
<1>2. Spec => [][A]_vars
  BY <1>1, Loads, ProgramChosen, FixedBindings, PTL DEF Spec
<1> QED BY <1>2 DEF LocalsWin, A

----------------------------------------------------------------------------
(* Following references comes to an end *)

\* What following keeps in a set is there at the end.
LEMMA ResolveIn ==
  ASSUME LoadInv, NEW S, NEW v \in S, \A w \in S : Follow(w) \in S
  PROVE  Resolve(v) \in S
<1> DEFINE f == CHOOSE f : IsChain(f, v, Hops)
<1>1. Resolve(v) = f[Hops]
  BY DEF Resolve, IsChain, Follow
<1>2. IsChain(f, v, Hops) /\ Hops \in Nat
  BY ChainExists, HopsType
<1> HIDE DEF f
<1>3. \A i \in 0 .. Hops : f[i] = IF i = 0 THEN v ELSE Follow(f[i - 1])
  BY <1>2 DEF IsChain
<1> DEFINE Bad == {i \in 0 .. Hops : f[i] \notin S}
<1>4. Bad = {}
  <2> SUFFICES ASSUME Bad # {} PROVE FALSE
    OBVIOUS
  <2>1. PICK m \in Bad : \A i \in Bad : m <= i
    <3>1. Bad \subseteq Nat /\ Bad # {}
      BY <1>2
    <3> HIDE DEF Bad
    <3> QED BY <3>1, LeastElement
  <2>2. m \in 0 .. Hops /\ f[m] \notin S /\ m # 0
    BY <1>3
  <2>3. m - 1 \in 0 .. Hops /\ m - 1 \notin Bad
    BY <1>2, <2>1, <2>2
  <2>4. f[m] = Follow(f[m - 1]) /\ f[m - 1] \in S
    BY <1>3, <2>2, <2>3
  <2> QED BY <2>2, <2>4
<1> QED BY <1>1, <1>2, <1>4

Pairs == (1 .. Len(envs)) \X Name

\* Every reference that a binding holds leads to one of lower rank.
Descends(r) ==
  /\ r \in [Pairs -> Nat]
  /\ \A e \in 1 .. Len(envs) : \A n \in Name :
       LET w == envs[e].bind[n].val
       IN  w.k = "ref" => r[<<w.env, w.name>>] < r[<<e, n>>]

\* Then a chain of as many references as there are bindings would pass one
\* of them twice.
LEMMA ResolveEnds ==
  ASSUME LoadInv, NEW r, Descends(r), NEW v, Sound(v)
  PROVE  Resolve(v).k # "ref"
<1> DEFINE f == CHOOSE f : IsChain(f, v, Hops)
           G == [i \in 0 .. Hops |-> <<f[i].env, f[i].name>>]
<1>1. Resolve(v) = f[Hops]
  BY DEF Resolve, IsChain, Follow
<1>2. IsChain(f, v, Hops) /\ Hops \in Nat
  BY ChainExists, HopsType
<1> HIDE DEF f
<1>3. \A i \in 0 .. Hops : f[i] = IF i = 0 THEN v ELSE Follow(f[i - 1])
  BY <1>2 DEF IsChain
<1> SUFFICES ASSUME f[Hops].k = "ref" PROVE FALSE
  BY <1>1
<1>4. \A i \in 0 .. Hops : Sound(f[i])
  <2> DEFINE Bad == {i \in 0 .. Hops : ~Sound(f[i])}
  <2> SUFFICES ASSUME Bad # {} PROVE FALSE
    OBVIOUS
  <2>1. PICK m \in Bad : \A i \in Bad : m <= i
    <3>1. Bad \subseteq Nat /\ Bad # {}
      BY <1>2
    <3> HIDE DEF Bad
    <3> QED BY <3>1, LeastElement
  <2>2. m \in 0 .. Hops /\ ~Sound(f[m]) /\ m # 0
    BY <1>3
  <2>3. m - 1 \in 0 .. Hops /\ m - 1 \notin Bad
    BY <1>2, <2>1, <2>2
  <2>4. f[m] = Follow(f[m - 1]) /\ Sound(f[m - 1])
    BY <1>3, <2>2, <2>3
  <2> HIDE DEF Bad
  <2> QED BY <2>2, <2>4, FollowSound
<1>5. \A i \in 0 .. Hops : f[i].k = "ref"
  <2> DEFINE Bad == {i \in 0 .. Hops : f[Hops - i].k # "ref"}
  <2>1. Bad = {}
    <3> SUFFICES ASSUME Bad # {} PROVE FALSE
      OBVIOUS
    <3>1. PICK m \in Bad : \A i \in Bad : m <= i
      <4>1. Bad \subseteq Nat /\ Bad # {}
        BY <1>2
      <4> HIDE DEF Bad
      <4> QED BY <4>1, LeastElement
    <3>2. m \in 0 .. Hops /\ f[Hops - m].k # "ref" /\ m # 0
      BY <1>2
    <3>3. m - 1 \in 0 .. Hops /\ m - 1 \notin Bad
      BY <1>2, <3>1, <3>2
    <3>4. f[Hops - (m - 1)].k = "ref"
      BY <3>3
    <3> DEFINE j == Hops - m
    <3>5. j \in 0 .. Hops /\ j + 1 \in 0 .. Hops /\ Hops - (m - 1) = j + 1 /\ j + 1 # 0 /\ (j + 1) - 1 = j
      BY <1>2, <3>2
    <3>6. f[j + 1].k = "ref" /\ f[j].k # "ref"
      BY <3>2, <3>4, <3>5
    <3> HIDE DEF j, Bad
    <3>7. f[j + 1] = Follow(f[j])
      BY <1>3, <3>5
    <3> QED BY <3>6, <3>7 DEF Follow
  <2>2. ASSUME NEW i \in 0 .. Hops PROVE f[i].k = "ref"
    <3>1. Hops - i \in 0 .. Hops /\ Hops - (Hops - i) = i
      BY <1>2
    <3>2. Hops - i \notin Bad
      BY <2>1
    <3> QED BY <3>1, <3>2
  <2> QED BY <2>2
<1>6. \A i \in 0 .. Hops : f[i].env \in 1 .. Len(envs) /\ f[i].name \in Name
  BY <1>4, <1>5 DEF Sound, Held
<1>7. G \in [0 .. Hops -> Pairs]
  BY <1>6 DEF Pairs
<1>8. \A i \in 0 .. Hops : G[i] \in Pairs /\ r[G[i]] \in Nat
  BY <1>7 DEF Descends
<1>9. ASSUME NEW j \in 0 .. Hops, j # 0 PROVE r[G[j]] < r[G[j - 1]] /\ j - 1 \in 0 .. Hops
  <2> DEFINE w == f[j - 1]
             x == envs[w.env].bind[w.name].val
  <2>1. j - 1 \in 0 .. Hops
    BY <1>2, <1>9
  <2>2. w.k = "ref" /\ w.env \in 1 .. Len(envs) /\ w.name \in Name
    BY <1>5, <1>6, <2>1
  <2>3. f[j] = x
    BY <1>3, <1>9, <2>2 DEF Follow
  <2>4. G[j] = <<x.env, x.name>> /\ G[j - 1] = <<w.env, w.name>> /\ x.k = "ref"
    BY <1>5, <2>1, <2>3
  <2> HIDE DEF G
  <2> QED BY <2>1, <2>2, <2>4 DEF Descends
<1> DEFINE Later == {j \in 0 .. Hops : \E i \in 0 .. Hops : i < j /\ ~(r[G[j]] < r[G[i]])}
<1> HIDE DEF G
<1>10. Later = {}
  <2> SUFFICES ASSUME Later # {} PROVE FALSE
    OBVIOUS
  <2>1. PICK m \in Later : \A i \in Later : m <= i
    <3>1. Later \subseteq Nat /\ Later # {}
      BY <1>2
    <3> HIDE DEF Later
    <3> QED BY <3>1, LeastElement
  <2>2. PICK i \in 0 .. Hops : i < m /\ ~(r[G[m]] < r[G[i]])
    OBVIOUS
  <2>3. m \in 0 .. Hops /\ m # 0
    BY <1>2, <2>2
  <2>4. r[G[m]] < r[G[m - 1]] /\ m - 1 \in 0 .. Hops
    BY <1>9, <2>3
  <2>5. m - 1 \notin Later
    BY <1>2, <2>1, <2>3
  <2>6. CASE i = m - 1
    BY <2>2, <2>4, <2>6
  <2>7. CASE i # m - 1
    <3>1. i < m - 1
      BY <1>2, <2>2, <2>3, <2>7
    <3>2. r[G[m - 1]] < r[G[i]]
      BY <2>4, <2>5, <3>1
    <3>3. r[G[m]] \in Nat /\ r[G[m - 1]] \in Nat /\ r[G[i]] \in Nat
      BY <1>8, <2>3, <2>4
    <3> QED BY <2>2, <2>4, <3>2, <3>3
  <2> QED BY <2>6, <2>7
<1>11. \A i, j \in 0 .. Hops : i < j => G[i] # G[j]
  <2> SUFFICES ASSUME NEW i \in 0 .. Hops, NEW j \in 0 .. Hops, i < j, G[i] = G[j] PROVE FALSE
    OBVIOUS
  <2>1. r[G[j]] < r[G[i]] /\ r[G[i]] \in Nat
    BY <1>8, <1>10
  <2> HIDE DEF Later
  <2> QED BY <2>1
<1>12. IsFiniteSet(Pairs) /\ Cardinality(Pairs) = Hops
  <2>1. Len(envs) \in Nat
    BY LenProperties DEF LoadInv, Shape
  <2> DEFINE n == Len(envs)
             S == 1 .. n
  <2>2. n \in Int /\ n >= 0 /\ 1 \in Int
    BY <2>1
  <2> HIDE DEF n
  <2>3. IsFiniteSet(1 .. n) /\ Cardinality(1 .. n) = IF 1 > n THEN 0 ELSE n - 1 + 1
    BY <2>2, FS_Interval
  <2>4. IsFiniteSet(S) /\ Cardinality(S) = n
    BY <2>2, <2>3
  <2> HIDE DEF S
  <2>5. IsFiniteSet(S \X Name) /\ Cardinality(S \X Name) = Cardinality(S) * Cardinality(Name)
    BY <2>4, ModulesAssumption, FS_Product
  <2> QED BY <2>4, <2>5 DEF Pairs, Hops, S, n
<1>13. IsFiniteSet(0 .. Hops) /\ Cardinality(0 .. Hops) = Hops + 1
  BY <1>2, FS_Interval
<1>14. Cardinality(Pairs) < Cardinality(0 .. Hops)
  BY <1>2, <1>12, <1>13
<1>15. \E x, y \in 0 .. Hops : x # y /\ G[x] = G[y]
  <2> DEFINE S == 0 .. Hops
             T == Pairs
  <2>1. G \in [S -> T] /\ IsFiniteSet(S) /\ IsFiniteSet(T) /\ Cardinality(T) < Cardinality(S)
    BY <1>7, <1>12, <1>13, <1>14
  <2> HIDE DEF S, T
  <2>2. \E x, y \in S : x # y /\ G[x] = G[y]
    BY <2>1, FS_PigeonHole
  <2> QED BY <2>2 DEF S
<1> QED BY <1>2, <1>11, <1>15

----------------------------------------------------------------------------
(* What a step does to the loads in progress *)

SamePlace(a, b) == b.env = a.env /\ b.pc = a.pc /\ b.temp = a.temp

\* The innermost activation a becomes b.
Moved(p, a, b) ==
  /\ b.env = a.env
  /\ \/ Import(p) /\ SamePlace(a, b) /\ b.stage = "check" /\ b.todo = Current(p).from
     \/ /\ CheckCache(p) /\ SamePlace(a, b) /\ b.todo = a.todo
        /\ b.stage = "put" \/ (b.stage = "merge" /\ b.got = cache[Head(a.todo)] /\ b.got # 0)
     \/ /\ Merge(p) /\ b.pc = a.pc /\ b.todo = Tail(a.todo) /\ b.stage \in {"bind", "check"}
        /\ b.temp = [n \in Name |-> Merged(p, n)]
     \/ b.stage \in {"exec", "spin"} /\ SamePlace(a, b)
     \/ /\ b.stage = "exec" /\ b.pc = a.pc + 1 /\ b.temp = NoTemp
        /\ Current(p).op \in {"decl", "named"} => (DeclStep(p) \/ BindNamed(p)) /\ failing' = failing

\* Activation i of p, whose stack was s and is t.
Becomes(p, s, t, i) ==
  \/ i <= Len(s) /\ t[i] = s[i] /\ (i = Len(s) => Len(t) = Len(s))
  \/ i = Len(s) /\ Len(t) = i /\ Moved(p, s[i], t[i])
  \/ /\ Put(p) /\ i = Len(s) /\ Len(t) = i + 1
     /\ SamePlace(s[i], t[i]) /\ t[i].stage = "load" /\ t[i].todo = s[i].todo
  \/ /\ Put(p) /\ i = Len(s) + 1 /\ Len(t) = i
     /\ t[i].env = Len(envs) + 1 /\ t[i].stage = "declare" /\ t[i].pc = 1 /\ t[i].temp = NoTemp
  \/ /\ Finish(p) /\ i = Len(s) - 1 /\ Len(t) = i
     /\ SamePlace(s[i], t[i]) /\ t[i].stage = "merge" /\ t[i].todo = s[i].todo /\ t[i].got = Top(p).env

StackStep(p) ==
  /\ \A q \in Proc : q # p => stack'[q] = stack[q]
  /\ Len(stack'[p]) \in Nat
  /\ \A i \in 1 .. Len(stack'[p]) : Becomes(p, stack[p], stack'[p], i)
  /\ Len(stack'[p]) < Len(stack[p]) =>
       /\ Len(stack'[p]) = Len(stack[p]) - 1
       /\ Top(p).env # 0 => envs'[Top(p).env].st # "run"

LEMMA SameStack ==
  ASSUME LoadInv, NEW p \in Proc, stack' = stack
  PROVE  StackStep(p)
<1>1. Len(stack[p]) \in Nat
  BY LenProperties DEF LoadInv, Shape
<1> QED BY <1>1 DEF StackStep, Becomes

LEMMA TopMoves ==
  ASSUME LoadInv, NEW p \in Proc, stack[p] # <<>>, NEW b, SetTop(p, b), Moved(p, Top(p), b)
  PROVE  StackStep(p)
<1> DEFINE s == stack[p]
           t == Append(Front(s), b)
           S == ActRec \cup {b}
           n == Len(s)
<1>1. /\ stack \in [Proc -> Seq(ActRec)] /\ s \in Seq(ActRec) /\ s # <<>> /\ n \in Nat /\ n >= 1
      /\ Top(p) = s[n]
  BY TopFacts DEF Shape
<1>2. stack' = [stack EXCEPT ![p] = t]
  BY DEF SetTop
<1>3. stack'[p] = t /\ \A q \in Proc : q # p => stack'[q] = stack[q]
  BY <1>1, <1>2
<1> HIDE DEF s
<1>4. s \in Seq(S) /\ b \in S
  BY <1>1, SeqElements, IsASeq DEF S
<1> HIDE DEF S
<1>5. Len(t) = n /\ (\A i \in 1 .. n - 1 : t[i] = s[i]) /\ t[n] = b
  BY <1>1, <1>4, ReplaceTop
<1> HIDE DEF t
<1>6. \A i \in 1 .. Len(t) : Becomes(p, s, t, i)
  <2> SUFFICES ASSUME NEW i \in 1 .. n PROVE Becomes(p, s, t, i)
    BY <1>5
  <2>1. CASE i = n
    BY <1>1, <1>5, <2>1 DEF Becomes
  <2>2. CASE i # n
    <3>1. i \in 1 .. n - 1 /\ i <= n
      BY <1>1, <2>2
    <3> QED BY <1>5, <2>2, <3>1 DEF Becomes
  <2> QED BY <2>1, <2>2
<1> QED BY <1>1, <1>3, <1>5, <1>6 DEF StackStep, s

\* The innermost activation goes on to its next statement.
LEMMA GoesOn ==
  ASSUME LoadInv, NEW p \in Proc, stack[p] # <<>>, SetTop(p, GoOn(Top(p))),
         Current(p).op \in {"decl", "named"} => (DeclStep(p) \/ BindNamed(p)) /\ failing' = failing
  PROVE  StackStep(p)
<1> DEFINE a == Top(p)
           b == GoOn(a)
<1>1. a \in ActRec
  BY TopFacts
<1> HIDE DEF a
<1>2. b.env = a.env /\ b.stage = "exec" /\ b.pc = a.pc + 1 /\ b.temp = NoTemp
  BY <1>1 DEF GoOn, ActRec
<1>3. SetTop(p, b)
  BY DEF a
<1> HIDE DEF b
<1>4. Moved(p, Top(p), b)
  BY <1>2 DEF Moved, a
<1> QED BY <1>3, <1>4, TopMoves

LEMMA PutStack ==
  ASSUME LoadInv, NEW p \in Proc, Put(p)
  PROVE  StackStep(p)
<1> DEFINE a == Top(p)
           s == stack[p]
           n == Len(s)
           w == [a EXCEPT !.stage = "load"]
           new == Activation(Len(envs) + 1, "declare")
           r == Append(Front(s), w)
           t == Append(r, new)
           S == ActRec \cup {w, new}
<1>1. s # <<>> /\ stack' = [stack EXCEPT ![p] = t]
  BY DEF Put, Stage, Active
<1>2. /\ stack \in [Proc -> Seq(ActRec)] /\ s \in Seq(ActRec) /\ n \in Nat /\ n >= 1
      /\ a = s[n] /\ a \in ActRec
  BY <1>1, TopFacts DEF Shape
<1>3. stack'[p] = t /\ \A q \in Proc : q # p => stack'[q] = stack[q]
  BY <1>1, <1>2
<1>4. SamePlace(a, w) /\ w.stage = "load" /\ w.todo = a.todo
  <2> HIDE DEF a
  <2> QED BY <1>2 DEF ActRec, SamePlace
<1>5. new.env = Len(envs) + 1 /\ new.stage = "declare" /\ new.pc = 1 /\ new.temp = NoTemp
  BY DEF Activation
<1> HIDE DEF s, w, new, a
<1>6. s \in Seq(S) /\ w \in S /\ new \in S
  BY <1>2, SeqElements, IsASeq DEF S
<1> HIDE DEF S
<1>7. r \in Seq(S) /\ Len(r) = n /\ (\A i \in 1 .. n - 1 : r[i] = s[i]) /\ r[n] = w
  BY <1>1, <1>6, ReplaceTop
<1> HIDE DEF r
<1>8. Len(t) = n + 1 /\ (\A i \in 1 .. n : t[i] = r[i]) /\ t[n + 1] = new
  BY <1>6, <1>7, AppendParts
<1> HIDE DEF t
<1>9. \A i \in 1 .. Len(t) : Becomes(p, s, t, i)
  <2> SUFFICES ASSUME NEW i \in 1 .. n + 1 PROVE Becomes(p, s, t, i)
    BY <1>8
  <2>1. CASE i = n + 1
    BY <1>2, <1>5, <1>8, <2>1 DEF Becomes
  <2>2. CASE i = n
    <3>1. t[i] = w /\ s[i] = a
      BY <1>2, <1>7, <1>8, <2>2
    <3> QED BY <1>4, <1>8, <2>2, <3>1 DEF Becomes
  <2>3. CASE i # n /\ i # n + 1
    <3>1. i \in 1 .. n - 1 /\ i \in 1 .. n /\ i <= n
      BY <1>2, <2>3
    <3> QED BY <1>7, <1>8, <2>3, <3>1 DEF Becomes
  <2> QED BY <2>1, <2>2, <2>3
<1> QED BY <1>2, <1>3, <1>8, <1>9 DEF StackStep, s

\* The environment of an activation that ends is not running any more.
LEMMA EndState ==
  ASSUME LoadInv, NEW p \in Proc, stack[p] # <<>>, Top(p).env # 0,
         NEW st, \/ envs' = [envs EXCEPT ![Top(p).env].st = st]
                 \/ st = "done" /\ envs' = [envs EXCEPT ![Top(p).env].st = "done", ![Top(p).env].bind = Reexported(Top(p).env)]
  PROVE  envs'[Top(p).env].st = st
<1> DEFINE e == Top(p).env
           B == Reexported(e)
           C == envs[e].bind
<1>1. e \in 1 .. Len(envs)
  <2>1. ActOK(envs, p, Top(p)) /\ Len(envs) \in Nat
    BY TopFacts
  <2> QED BY <2>1 DEF ActOK
<1>2. CASE envs' = [envs EXCEPT ![e].st = st]
  <2>1. envs' = With(e, C, st)
    BY <1>1, <1>2, StateIsWith
  <2> HIDE DEF e, C
  <2>2. With(e, C, st)[e].st = st
    BY <1>1, WithParts
  <2> QED BY <2>1, <2>2 DEF e
<1>3. CASE st = "done" /\ envs' = [envs EXCEPT ![e].st = "done", ![e].bind = B]
  <2> HIDE DEF e, B
  <2>1. envs' = With(e, B, st)
    BY <1>1, <1>3, DoneIsWith
  <2>2. With(e, B, st)[e].st = st
    BY <1>1, WithParts
  <2> QED BY <2>1, <2>2 DEF e
<1> QED BY <1>2, <1>3

LEMMA FinishStack ==
  ASSUME LoadInv, NEW p \in Proc, Finish(p)
  PROVE  StackStep(p)
<1> DEFINE a == Top(p)
           s == stack[p]
           n == Len(s)
           rest == Front(s)
           w == Last(rest)
           b == [w EXCEPT !.stage = "merge", !.got = a.env]
           t == Append(Front(rest), b)
           S == ActRec \cup {b}
<1>1. s # <<>>
  BY DEF Finish, Stage, Active
<1>2. /\ stack \in [Proc -> Seq(ActRec)] /\ s \in Seq(ActRec) /\ n \in Nat /\ n >= 1 /\ a \in ActRec
  BY <1>1, TopFacts DEF Shape
<1>3. rest \in Seq(ActRec) /\ Len(rest) = n - 1 /\ \A i \in 1 .. n - 1 : rest[i] = s[i]
  BY <1>1, <1>2, StackParts
<1>4. a.env # 0 => envs'[a.env].st = "done"
  BY <1>1, EndState DEF Finish
<1>5. CASE rest = <<>>
  <2>1. stack' = [stack EXCEPT ![p] = <<>>]
    BY <1>5 DEF Finish
  <2>2. stack'[p] = <<>> /\ \A q \in Proc : q # p => stack'[q] = stack[q]
    BY <1>2, <2>1
  <2>3. n = 1
    <3>1. Len(rest) = 0
      BY <1>5
    <3> HIDE DEF n, rest, s, a
    <3> QED BY <1>2, <1>3, <3>1
  <2>4. Len(stack'[p]) = 0 /\ 0 \in Nat
    BY <2>2
  <2> HIDE DEF rest, w, b, t
  <2> QED BY <1>4, <2>2, <2>3, <2>4 DEF StackStep
<1>6. CASE rest # <<>>
  <2>1. stack' = [stack EXCEPT ![p] = t]
    BY <1>6 DEF Finish
  <2>2. stack'[p] = t /\ \A q \in Proc : q # p => stack'[q] = stack[q]
    BY <1>2, <2>1
  <2> HIDE DEF s, rest, a
  <2>3. Len(rest) >= 1 /\ w = rest[Len(rest)] /\ w \in ActRec
    BY <1>3, <1>6, StackParts
  <2>4. n - 1 \in 1 .. n - 1 /\ w = s[n - 1]
    BY <1>2, <1>3, <2>3
  <2> HIDE DEF w
  <2>5. SamePlace(w, b) /\ b.stage = "merge" /\ b.todo = w.todo /\ b.got = a.env
    BY <2>3 DEF ActRec, SamePlace
  <2> HIDE DEF b
  <2>6. rest \in Seq(S) /\ b \in S
    BY <1>3, SeqElements, IsASeq DEF S
  <2> HIDE DEF S
  <2>7. Len(t) = Len(rest) /\ (\A i \in 1 .. Len(rest) - 1 : t[i] = rest[i]) /\ t[Len(rest)] = b
    BY <1>6, <2>6, ReplaceTop
  <2> HIDE DEF t
  <2>8. ASSUME NEW i \in 1 .. Len(t) PROVE Becomes(p, s, t, i)
    <3>1. i \in 1 .. n - 1 /\ Len(t) = n - 1
      BY <1>3, <2>7
    <3>2. CASE i = n - 1
      <4>1. t[i] = b /\ s[i] = w
        BY <1>3, <2>4, <2>7, <3>2
      <4> QED BY <2>5, <3>1, <3>2, <4>1 DEF Becomes, a
    <3>3. CASE i # n - 1
      <4>1. i \in 1 .. Len(rest) - 1 /\ i <= n /\ i # n
        BY <1>2, <1>3, <3>1, <3>3
      <4>2. t[i] = s[i]
        BY <1>3, <2>7, <3>1, <4>1
      <4> QED BY <4>1, <4>2 DEF Becomes
    <3> QED BY <3>2, <3>3
  <2>9. Len(t) \in Nat /\ Len(t) = n - 1
    BY <1>2, <1>3, <2>3, <2>7
  <2> QED BY <1>4, <2>2, <2>8, <2>9 DEF StackStep, s, a
<1> QED BY <1>5, <1>6

LEMMA UnwindStack ==
  ASSUME LoadInv, NEW p \in Proc, Unwind(p)
  PROVE  StackStep(p)
<1> DEFINE a == Top(p)
           s == stack[p]
           n == Len(s)
           rest == Front(s)
           handled == /\ a.pc <= Len(Code(p)) /\ a.stage # "exec"
                      /\ Current(p).op = "try"
<1>1. s # <<>>
  BY DEF Unwind, LoadInv
<1>2. CASE handled
  <2>1. SetTop(p, GoOn(a)) /\ Current(p).op = "try"
    BY <1>2 DEF Unwind
  <2> QED BY <1>1, <2>1, GoesOn
<1>3. CASE ~handled
  <2>1. stack' = [stack EXCEPT ![p] = rest]
        /\ envs' = IF a.env = 0 THEN envs ELSE [envs EXCEPT ![a.env].st = "failed"]
    BY <1>3 DEF Unwind
  <2>2. stack \in [Proc -> Seq(ActRec)] /\ s \in Seq(ActRec) /\ n \in Nat /\ n >= 1
    BY <1>1, TopFacts DEF Shape
  <2>3. stack'[p] = rest /\ \A q \in Proc : q # p => stack'[q] = stack[q]
    BY <2>1, <2>2
  <2>4. a.env # 0 => envs'[a.env].st = "failed"
    BY <1>1, <2>1, EndState
  <2>5. rest \in Seq(ActRec) /\ Len(rest) = n - 1 /\ \A i \in 1 .. n - 1 : rest[i] = s[i]
    BY <1>1, <2>2, StackParts
  <2> HIDE DEF rest, s
  <2>6. ASSUME NEW i \in 1 .. Len(rest) PROVE Becomes(p, s, rest, i)
    <3>1. i \in 1 .. n - 1 /\ i <= n /\ i # n
      BY <2>2, <2>5
    <3> QED BY <2>5, <3>1 DEF Becomes
  <2>7. Len(rest) \in Nat
    BY <2>2, <2>5
  <2> QED BY <2>3, <2>4, <2>5, <2>6, <2>7 DEF StackStep, s
<1> QED BY <1>2, <1>3

LEMMA UseStack ==
  ASSUME LoadInv, NEW p \in Proc, Use(p)
  PROVE  StackStep(p)
<1> DEFINE a == Top(p)
<1>1. stack[p] # <<>> /\ a.stage = "exec" /\ Current(p).op = "use"
  BY DEF Use, At, Stage, Active
<1>2. a \in ActRec
  BY <1>1, TopFacts
<1>3. \/ \E x : SetTop(p, [a EXCEPT !.last = x])
      \/ SetTop(p, [a EXCEPT !.stage = "spin"])
      \/ \E x : SetTop(p, [GoOn(a) EXCEPT !.last = x])
  BY DEF Use
<1>4. ASSUME NEW x, SetTop(p, [a EXCEPT !.last = x]) PROVE StackStep(p)
  <2> DEFINE b == [a EXCEPT !.last = x]
  <2>1. SetTop(p, b)
    BY <1>4
  <2> HIDE DEF a
  <2>2. SamePlace(a, b) /\ b.stage = "exec"
    BY <1>1, <1>2 DEF ActRec, SamePlace
  <2> HIDE DEF b
  <2>3. Moved(p, Top(p), b)
    BY <2>2 DEF Moved, SamePlace, a
  <2> QED BY <1>1, <2>1, <2>3, TopMoves
<1>5. ASSUME SetTop(p, [a EXCEPT !.stage = "spin"]) PROVE StackStep(p)
  <2> DEFINE b == [a EXCEPT !.stage = "spin"]
  <2>1. SetTop(p, b)
    BY <1>5
  <2> HIDE DEF a
  <2>2. SamePlace(a, b) /\ b.stage = "spin"
    BY <1>2 DEF ActRec, SamePlace
  <2> HIDE DEF b
  <2>3. Moved(p, Top(p), b)
    BY <2>2 DEF Moved, SamePlace, a
  <2> QED BY <1>1, <2>1, <2>3, TopMoves
<1>6. ASSUME NEW x, SetTop(p, [GoOn(a) EXCEPT !.last = x]) PROVE StackStep(p)
  <2> DEFINE b == [GoOn(a) EXCEPT !.last = x]
  <2>1. SetTop(p, b)
    BY <1>6
  <2> HIDE DEF a
  <2>2. b.env = a.env /\ b.stage = "exec" /\ b.pc = a.pc + 1 /\ b.temp = NoTemp
    BY <1>2 DEF ActRec, GoOn
  <2> HIDE DEF b
  <2>3. Moved(p, Top(p), b)
    BY <1>1, <2>2 DEF Moved, a
  <2> QED BY <1>1, <2>1, <2>3, TopMoves
<1> HIDE DEF a
<1> QED BY <1>3, <1>4, <1>5, <1>6

\* A statement that stores a value.
LEMMA StoreStack ==
  ASSUME LoadInv, NEW p \in Proc, DeclStep(p) \/ BindNamed(p)
  PROVE  StackStep(p)
<1>1. stack[p] # <<>>
  BY AtBind
<1>2. UNCHANGED stack \/ (SetTop(p, GoOn(Top(p))) /\ failing' = failing)
  BY DEF DeclStep, BindNamed, Store
<1> QED BY <1>1, <1>2, SameStack, GoesOn

LEMMA LoadingStack ==
  ASSUME LoadInv, NEW p \in Proc, Import(p) \/ CheckCache(p) \/ Merge(p) \/ Declare(p)
  PROVE  StackStep(p)
<1> DEFINE a == Top(p)
<1>1. stack[p] # <<>> /\ (CheckCache(p) => a.stage = "check") /\ (Merge(p) => a.stage = "merge")
  BY DEF Import, CheckCache, Merge, Declare, Stage, Active
<1>2. a \in ActRec
  BY <1>1, TopFacts
<1>3. CASE Import(p)
  <2> DEFINE b == [a EXCEPT !.stage = "check", !.todo = Current(p).from]
  <2>1. SetTop(p, b)
    BY <1>3 DEF Import
  <2> HIDE DEF a
  <2>2. SamePlace(a, b) /\ b.stage = "check" /\ b.todo = Current(p).from
    BY <1>2 DEF ActRec, SamePlace
  <2> HIDE DEF b
  <2>3. Moved(p, Top(p), b)
    BY <1>3, <2>2 DEF Moved, SamePlace, a
  <2> QED BY <1>1, <2>1, <2>3, TopMoves
<1>4. CASE CheckCache(p)
  <2> DEFINE e == cache[Head(a.todo)]
             st == IF e = 0 THEN "put" ELSE "merge"
             b == [a EXCEPT !.stage = st, !.got = e]
  <2>1. SetTop(p, b)
    BY <1>4 DEF CheckCache
  <2>2. st = "put" \/ (st = "merge" /\ e # 0)
    OBVIOUS
  <2> HIDE DEF a, e, st
  <2>3. SamePlace(a, b) /\ b.stage = st /\ b.todo = a.todo /\ b.got = e
    BY <1>2 DEF ActRec, SamePlace
  <2> HIDE DEF b
  <2>4. b.stage = "put" \/ (b.stage = "merge" /\ b.got = cache[Head(a.todo)] /\ b.got # 0)
    BY <2>2, <2>3 DEF e
  <2>5. Moved(p, Top(p), b)
    BY <1>4, <2>3, <2>4 DEF Moved, SamePlace, a
  <2> QED BY <1>1, <2>1, <2>5, TopMoves
<1>5. CASE Merge(p)
  <2> DEFINE T == [n \in Name |-> Merged(p, n)]
             st == IF Len(a.todo) = 1 THEN "bind" ELSE "check"
             b == [a EXCEPT !.temp = T, !.todo = Tail(a.todo), !.got = 0, !.stage = st]
  <2>1. SetTop(p, b)
    BY <1>5 DEF Merge
  <2>2. st \in {"bind", "check"}
    OBVIOUS
  <2> HIDE DEF a, T, st
  <2>3. b.env = a.env /\ b.pc = a.pc /\ b.temp = T /\ b.todo = Tail(a.todo) /\ b.stage = st
    BY <1>2 DEF ActRec
  <2> HIDE DEF b
  <2>4. Moved(p, Top(p), b)
    BY <1>5, <2>2, <2>3 DEF Moved, a, T
  <2> QED BY <1>1, <2>1, <2>4, TopMoves
<1>6. CASE Declare(p)
  <2> DEFINE b == [a EXCEPT !.stage = "exec"]
  <2>1. SetTop(p, b)
    BY <1>6 DEF Declare
  <2> HIDE DEF a
  <2>2. SamePlace(a, b) /\ b.stage = "exec"
    BY <1>2 DEF ActRec, SamePlace
  <2> HIDE DEF b
  <2>3. Moved(p, Top(p), b)
    BY <2>2 DEF Moved, SamePlace, a
  <2> QED BY <1>1, <2>1, <2>3, TopMoves
<1> QED BY <1>3, <1>4, <1>5, <1>6

LEMMA StepStack ==
  ASSUME LoadInv, NEW p \in Proc, Step(p)
  PROVE  StackStep(p)
<1>1. CASE ReadFails(p) \/ FailStep(p)
  BY <1>1, SameStack DEF ReadFails, FailStep
<1>2. CASE BindStar(p) \/ IgnoreImport(p)
  <2>1. stack[p] # <<>> /\ Current(p).op \notin {"decl", "named"}
    BY <1>2 DEF BindStar, IgnoreImport, Stage, Active
  <2>2. UNCHANGED stack \/ SetTop(p, GoOn(Top(p)))
    BY <1>2 DEF BindStar, IgnoreImport
  <2> QED BY <2>1, <2>2, SameStack, GoesOn
<1> QED BY <1>1, <1>2, LoadingStack, PutStack, FinishStack, UnwindStack, UseStack, StoreStack DEF Step

----------------------------------------------------------------------------
(* The modules that an import loads *)

\* Module m of program P has an import of module d.
Wanted(P, m, d) == \E i \in DOMAIN P[m] : /\ P[m][i].op \in {"star", "named", "try"}
                                          /\ \E j \in DOMAIN P[m][i].from : P[m][i].from[j] = d

\* What activation i of stack s still loads is imported by its module, and
\* what it has loaded is the first of it.
GotOK(E, s, i) ==
  LET a == s[i]
  IN  a.env # 0 =>
        /\ a.stage \in Loading => \A j \in DOMAIN a.todo : Wanted(program, E[a.env].mod, a.todo[j])
        /\ a.stage = "merge" => E[a.got].mod = Head(a.todo)
        /\ a.stage = "load" /\ i < Len(s) => E[s[i + 1].env].mod = Head(a.todo)

GotInv == /\ \A m \in Module : cache[m] # 0 => envs[cache[m]].mod = m
          /\ \A p \in Proc : \A i \in 1 .. Len(stack[p]) : GotOK(envs, stack[p], i)

\* The activations of a stack.
LEMMA InStack ==
  ASSUME LoadInv, NEW p \in Proc, NEW i \in 1 .. Len(stack[p])
  PROVE  /\ stack[p] \in Seq(ActRec) /\ Len(stack[p]) \in Nat /\ Len(envs) \in Nat
         /\ stack[p][i] \in ActRec /\ ActOK(envs, p, stack[p][i])
         /\ stack[p][i].env \in 0 .. Len(envs) /\ stack[p][i].got \in 0 .. Len(envs)
         /\ stack[p] # <<>> /\ Top(p) = stack[p][Len(stack[p])]
         /\ i < Len(stack[p]) => stack[p][i].stage = "load" /\ stack[p][i + 1].env > 1
                                 /\ stack[p][i + 1].env \in 1 .. Len(envs)
<1>1. stack[p] \in Seq(ActRec) /\ StackOK(envs, p \in failing, p, stack[p]) /\ envs \in Seq(EnvRec)
  BY DEF LoadInv, Shape
<1>2. Len(stack[p]) \in Nat /\ DOMAIN stack[p] = 1 .. Len(stack[p]) /\ Len(envs) \in Nat
  BY <1>1, SeqElements
<1>3. stack[p][i] \in ActRec /\ ActOK(envs, p, stack[p][i])
  BY <1>1, <1>2, SeqElements DEF StackOK
<1>4. stack[p] # <<>>
  BY <1>2
<1>5. ASSUME i < Len(stack[p])
      PROVE  stack[p][i].stage = "load" /\ stack[p][i + 1].env > 1 /\ stack[p][i + 1].env \in 0 .. Len(envs)
  <2>1. i + 1 \in DOMAIN stack[p] /\ i + 1 > 1
    BY <1>2, <1>5
  <2> QED BY <1>1, <1>2, <1>5, <2>1 DEF StackOK, ActOK
<1>6. stack[p][i + 1].env > 1 /\ stack[p][i + 1].env \in 0 .. Len(envs) => stack[p][i + 1].env \in 1 .. Len(envs)
  BY <1>2
<1> QED BY <1>1, <1>2, <1>3, <1>4, <1>5, <1>6, TopFacts DEF ActOK

\* The activations that a step of p leaves keep their environments.
LEMMA EnvKept ==
  ASSUME LoadInv, NEW p \in Proc, Step(p), NEW i \in 1 .. Len(stack[p]), i <= Len(stack'[p])
  PROVE  stack'[p][i].env = stack[p][i].env
<1>1. Becomes(p, stack[p], stack'[p], i) /\ Len(stack[p]) \in Nat
  BY StepStack, InStack DEF StackStep
<1> QED BY <1>1 DEF Becomes, Moved, SamePlace

\* Of the environments there are, a step keeps the modules.
LEMMA ModKept ==
  ASSUME LoadInv, NEW p \in Proc, Step(p)
  PROVE  /\ \A e \in 1 .. Len(envs) : envs'[e].mod = envs[e].mod
         /\ Put(p) => envs'[Len(envs) + 1].mod = Head(Top(p).todo)
         /\ Len(envs) \in Nat /\ Len(envs') \in Nat /\ Len(envs') >= Len(envs) /\ stack[p] # <<>>
BY StepChanged, StepLength, PutChanged DEF ChangedEnv

\* The modules of the import that begins.
LEMMA ImportWants ==
  ASSUME LoadInv, NEW p \in Proc, Import(p), Top(p).env # 0, NEW j \in DOMAIN Current(p).from
  PROVE  Wanted(program, envs[Top(p).env].mod, Current(p).from[j])
<1>1. /\ stack[p] # <<>> /\ Top(p).pc <= Len(Code(p)) /\ Current(p) = Code(p)[Top(p).pc]
      /\ Current(p).op \in {"star", "named", "try"}
  BY DEF Import, Stage, Active, Current
<1>2. Top(p).pc \in DOMAIN Code(p)
  <2>1. Top(p) \in ActRec /\ DOMAIN Code(p) = 1 .. Len(Code(p)) /\ Len(Code(p)) \in Nat
    BY <1>1, TopFacts
  <2> QED BY <1>1, <2>1 DEF ActRec
<1>3. Code(p) = program[envs[Top(p).env].mod]
  BY DEF Code
<1> QED BY <1>1, <1>2, <1>3 DEF Wanted

LEMMA GotOthers ==
  ASSUME LoadInv, GotInv, NEW p \in Proc, Step(p), NEW q \in Proc, q # p, NEW i \in 1 .. Len(stack[q])
  PROVE  GotOK(envs, stack[q], i)'
<1> DEFINE a == stack[q][i]
<1>1. GotOK(envs, stack[q], i) /\ stack'[q] = stack[q] /\ program' = program
  BY StepStack, ProgramStays DEF GotInv, StackStep, Next
<1>2. \A e \in 1 .. Len(envs) : envs'[e].mod = envs[e].mod
  BY ModKept
<1>3. /\ a.env \in 0 .. Len(envs) /\ a.got \in 0 .. Len(envs) /\ Len(envs) \in Nat
      /\ a.stage = "merge" => a.got # 0
      /\ i < Len(stack[q]) => stack[q][i + 1].env \in 1 .. Len(envs)
  BY InStack DEF ActOK
<1>4. /\ a.env # 0 => a.env \in 1 .. Len(envs)
      /\ a.stage = "merge" => a.got \in 1 .. Len(envs)
  BY <1>3
<1>5. \A m, d : Wanted(program, m, d)' <=> Wanted(program, m, d)
  BY <1>1 DEF Wanted
<1> QED BY <1>1, <1>2, <1>3, <1>4, <1>5 DEF GotOK

LEMMA GotMine ==
  ASSUME LoadInv, GotInv, NEW p \in Proc, Step(p), NEW i \in 1 .. Len(stack'[p])
  PROVE  GotOK(envs, stack[p], i)'
<1> DEFINE s == stack[p]
           t == stack'[p]
           n == Len(s)
<1>1. /\ program' = program /\ Becomes(p, s, t, i) /\ Len(t) \in Nat
      /\ \A j \in 1 .. Len(t) : Becomes(p, s, t, j)
  BY StepStack, ProgramStays DEF StackStep, Next
<1>2. \A e \in 1 .. Len(envs) : envs'[e].mod = envs[e].mod
  BY ModKept
<1>3. s # <<>> /\ n \in Nat /\ n >= 1 /\ Top(p) = s[n]
  BY ModKept, TopFacts
<1>4. \A j \in 1 .. n : GotOK(envs, s, j)
  BY DEF GotInv
<1>5. SUFFICES ASSUME t[i].env # 0
      PROVE  LET a == t[i]
             IN  /\ a.stage \in Loading => \A j \in DOMAIN a.todo : Wanted(program, envs'[a.env].mod, a.todo[j])
                 /\ a.stage = "merge" => envs'[a.got].mod = Head(a.todo)
                 /\ a.stage = "load" /\ i < Len(t) => envs'[t[i + 1].env].mod = Head(a.todo)
  BY <1>1 DEF GotOK, Wanted
<1>6. CASE i <= n /\ t[i] = s[i] /\ (i = n => Len(t) = n)
  <2>1. i \in 1 .. n /\ s[i].env \in 0 .. Len(envs) /\ Len(envs) \in Nat /\ s[i].env # 0 /\ s[i].got \in 0 .. Len(envs)
        /\ (s[i].stage = "merge" => s[i].got # 0) /\ (i < n => s[i + 1].env \in 1 .. Len(envs))
    BY <1>3, <1>5, <1>6, InStack DEF ActOK
  <2>2. s[i].env \in 1 .. Len(envs) /\ (s[i].stage = "merge" => s[i].got \in 1 .. Len(envs))
    BY <2>1
  <2>3. i < Len(t) => i < n /\ t[i + 1].env = s[i + 1].env
    <3> SUFFICES ASSUME i < Len(t) PROVE i < n /\ t[i + 1].env = s[i + 1].env
      OBVIOUS
    <3>1. i < n /\ i + 1 \in 1 .. n /\ i + 1 <= Len(t)
      BY <1>1, <1>3, <1>6, <2>1
    <3> QED BY <3>1, EnvKept
  <2>4. GotOK(envs, s, i)
    BY <1>4, <2>1
  <2> QED BY <1>2, <1>6, <2>1, <2>2, <2>3, <2>4 DEF GotOK
<1>7. CASE i = n /\ Len(t) = i /\ Moved(p, s[i], t[i])
  <2> DEFINE a == s[n]
             b == t[n]
             m == envs[a.env].mod
  <2>1. b.env = a.env /\ a.env \in 1 .. Len(envs) /\ envs'[b.env].mod = m
    <3>1. b.env = a.env
      BY <1>7 DEF Moved
    <3>2. a.env \in 0 .. Len(envs) /\ Len(envs) \in Nat /\ a.env # 0
      BY <1>3, <1>5, <1>7, <3>1, InStack
    <3>3. a.env \in 1 .. Len(envs)
      BY <3>2
    <3> QED BY <1>2, <3>1, <3>3
  <2>2. GotOK(envs, s, n) /\ a.env # 0
    BY <1>3, <1>4, <2>1
  <2>3. CASE Import(p) /\ b.stage = "check" /\ b.todo = Current(p).from
    <3>1. \A j \in DOMAIN b.todo : Wanted(program, m, b.todo[j])
      BY <1>3, <2>2, <2>3, ImportWants
    <3> QED BY <1>7, <2>1, <2>3, <3>1
  <2>4. CASE CheckCache(p) /\ b.todo = a.todo /\ (b.stage = "put" \/ (b.stage = "merge" /\ b.got = cache[Head(a.todo)] /\ b.got # 0))
    <3>1. a.stage = "check" /\ "check" \in Loading
      BY <1>3, <2>4 DEF CheckCache, Stage, Loading
    <3>2. \A j \in DOMAIN b.todo : Wanted(program, m, b.todo[j])
      BY <2>2, <2>4, <3>1 DEF GotOK
    <3>3. Head(a.todo) \in Module
      <4>1. a.todo \in Seq(Module) /\ a.todo # <<>>
        BY <1>3, <3>1, TopFacts DEF ActRec, ActOK
      <4> QED BY <4>1, HeadTailProperties
    <3>4. b.stage = "merge" => envs'[b.got].mod = Head(b.todo)
      <4> SUFFICES ASSUME b.stage = "merge" PROVE envs'[b.got].mod = Head(b.todo)
        OBVIOUS
      <4>1. b.got = cache[Head(a.todo)] /\ b.got # 0
        BY <2>4
      <4>2. envs[b.got].mod = Head(a.todo)
        BY <3>3, <4>1 DEF GotInv
      <4>3. b.got \in 1 .. Len(envs)
        BY <3>3, <4>1, SeqElements DEF LoadInv, Shape
      <4> QED BY <1>2, <2>4, <4>2, <4>3
    <3> QED BY <1>7, <2>1, <2>4, <3>2, <3>4
  <2>5. CASE Merge(p) /\ b.todo = Tail(a.todo) /\ b.stage \in {"bind", "check"}
    <3>1. a.stage = "merge" /\ "merge" \in Loading /\ "bind" \notin Loading
      BY <1>3, <2>5 DEF Merge, Stage, Loading
    <3>2. \A j \in DOMAIN a.todo : Wanted(program, m, a.todo[j])
      BY <2>2, <3>1 DEF GotOK
    <3>3. a.todo \in Seq(Module) /\ a.todo # <<>>
      BY <1>3, <3>1, TopFacts DEF ActRec, ActOK
    <3>4. \A j \in DOMAIN b.todo : j + 1 \in DOMAIN a.todo /\ b.todo[j] = a.todo[j + 1]
      <4> DEFINE w == a.todo
      <4>1. w \in Seq(Module) /\ w # <<>> /\ Len(w) \in Nat /\ Len(w) >= 1
        BY <3>3, StackParts
      <4> HIDE DEF w
      <4>2. Tail(w) \in Seq(Module) /\ Len(Tail(w)) = Len(w) - 1 /\ \A j \in 1 .. Len(Tail(w)) : Tail(w)[j] = w[j + 1]
        BY <4>1, HeadTailProperties
      <4>3. DOMAIN w = 1 .. Len(w) /\ DOMAIN Tail(w) = 1 .. Len(w) - 1
        BY <4>1, <4>2, SeqElements
      <4>4. \A j \in DOMAIN Tail(w) : j + 1 \in DOMAIN w /\ Tail(w)[j] = w[j + 1]
        BY <4>1, <4>2, <4>3
      <4> QED BY <2>5, <4>4 DEF w
    <3> QED BY <1>7, <2>1, <2>5, <3>1, <3>2, <3>4
  <2>6. CASE b.stage \in {"exec", "spin"}
    BY <1>7, <2>6 DEF Loading
  <2> QED BY <1>7, <2>3, <2>4, <2>5, <2>6 DEF Moved
<1>8. CASE Put(p) /\ i = n /\ Len(t) = i + 1 /\ SamePlace(s[i], t[i]) /\ t[i].stage = "load" /\ t[i].todo = s[i].todo
  <2>1. s[n].stage = "put" /\ "put" \in Loading /\ t[n].env = s[n].env
    BY <1>3, <1>8 DEF Put, Stage, Loading, SamePlace
  <2>2. s[n].env \in 0 .. Len(envs) /\ Len(envs) \in Nat /\ s[n].env # 0
    BY <1>3, <1>5, <1>8, <2>1, InStack
  <2>3. s[n].env \in 1 .. Len(envs)
    BY <2>2
  <2>4. \A j \in DOMAIN s[n].todo : Wanted(program, envs[s[n].env].mod, s[n].todo[j])
    BY <1>3, <1>4, <2>1, <2>2 DEF GotOK
  <2>5. t[n + 1].env = Len(envs) + 1
    <3>1. Becomes(p, s, t, n + 1) /\ ~(n + 1 <= n) /\ n + 1 # n /\ n + 1 # n - 1
      BY <1>1, <1>3, <1>8
    <3> QED BY <3>1 DEF Becomes
  <2>6. envs'[Len(envs) + 1].mod = Head(s[n].todo)
    BY <1>3, <1>8, ModKept
  <2> QED BY <1>2, <1>8, <2>1, <2>3, <2>4, <2>5, <2>6
<1>9. CASE t[i].stage = "declare"
  BY <1>9 DEF Loading
<1>10. CASE Finish(p) /\ i = n - 1 /\ Len(t) = i /\ SamePlace(s[i], t[i]) /\ t[i].stage = "merge" /\ t[i].todo = s[i].todo /\ t[i].got = Top(p).env
  <2>1. i \in 1 .. n /\ i < n /\ i + 1 = n
    BY <1>3, <1>10
  <2>2. s[i].stage = "load" /\ s[i + 1].env \in 1 .. Len(envs) /\ s[i].env \in 0 .. Len(envs) /\ Len(envs) \in Nat
    BY <2>1, InStack
  <2>3. t[i].env = s[i].env
    BY <1>10 DEF SamePlace
  <2>4. s[i].env \in 1 .. Len(envs) /\ s[i].env # 0
    BY <1>5, <2>2, <2>3
  <2>5. "load" \in Loading
    BY DEF Loading
  <2>6. /\ \A j \in DOMAIN s[i].todo : Wanted(program, envs[s[i].env].mod, s[i].todo[j])
        /\ envs[s[i + 1].env].mod = Head(s[i].todo)
    BY <1>4, <2>1, <2>2, <2>4, <2>5 DEF GotOK
  <2>7. Top(p).env = s[i + 1].env
    BY <1>3, <2>1
  <2> QED BY <1>2, <1>10, <2>2, <2>3, <2>4, <2>6, <2>7
<1> QED BY <1>1, <1>6, <1>7, <1>8, <1>9, <1>10 DEF Becomes

LEMMA GotStep ==
  ASSUME LoadInv, GotInv, NEW p \in Proc, Step(p)
  PROVE  GotInv'
<1>1. ASSUME NEW m \in Module, cache'[m] # 0 PROVE envs'[cache'[m]].mod = m
  <2>1. cache \in [Module -> 0 .. Len(envs)] /\ Len(envs) \in Nat /\ stack[p] # <<>>
    BY ModKept DEF LoadInv, Shape
  <2>2. CASE cache'[m] = cache[m]
    <3>1. cache[m] \in 1 .. Len(envs)
      BY <1>1, <2>1, <2>2
    <3> QED BY <1>1, <2>2, <3>1, ModKept DEF GotInv
  <2>3. CASE cache'[m] # cache[m]
    <3>1. Put(p)
      BY <2>3, StepLength
    <3>2. cache' = [cache EXCEPT ![Head(Top(p).todo)] = Len(envs) + 1]
      BY <3>1 DEF Put, Cached
    <3>3. m = Head(Top(p).todo) /\ cache'[m] = Len(envs) + 1
      BY <2>1, <2>3, <3>2
    <3> QED BY <3>1, <3>3, ModKept
  <2> QED BY <2>2, <2>3
<1>2. ASSUME NEW q \in Proc, NEW i \in 1 .. Len(stack'[q]) PROVE GotOK(envs, stack[q], i)'
  <2>1. CASE q = p
    BY <1>2, <2>1, GotMine
  <2>2. CASE q # p
    <3>1. stack'[q] = stack[q]
      BY <2>2, StepStack DEF StackStep
    <3>2. GotOK(envs, stack[q], i)'
      BY <1>2, <2>2, <3>1, GotOthers
    <3> QED BY <3>2
  <2> QED BY <2>1, <2>2
<1> QED BY <1>1, <1>2 DEF GotInv

LEMMA GotInit == Init => GotInv
<1> SUFFICES ASSUME Init PROVE GotInv
  OBVIOUS
<1>1. \A m \in Module : cache[m] # 0 => envs[cache[m]].mod = m
  BY DEF Init
<1>2. ASSUME NEW p \in Proc, NEW i \in 1 .. Len(stack[p]) PROVE GotOK(envs, stack[p], i)
  <2> DEFINE a == Activation(IF p = Main THEN 1 ELSE 0, "exec")
  <2>1. stack[p] = <<a>>
    BY DEF Init
  <2>2. i = 1 /\ stack[p][i] = a
    BY <2>1
  <2>3. a.stage = "exec"
    BY DEF Activation
  <2> QED BY <2>2, <2>3 DEF GotOK, Loading
<1> QED BY <1>1, <1>2 DEF GotInv

LEMMA GotNext ==
  ASSUME LoadInv, GotInv, [Next]_vars
  PROVE  GotInv'
<1>1. CASE \E p \in Proc : Step(p)
  BY <1>1, GotStep
<1>2. CASE UNCHANGED <<program, cache, envs, stack>>
  <2>1. program' = program /\ cache' = cache /\ envs' = envs /\ stack' = stack
    BY <1>2
  <2>2. \A m, d : Wanted(program, m, d)' <=> Wanted(program, m, d)
    BY <2>1 DEF Wanted
  <2>3. ASSUME NEW q \in Proc, NEW i \in 1 .. Len(stack'[q]) PROVE GotOK(envs, stack[q], i)'
    <3>1. GotOK(envs, stack[q], i)
      BY <2>1, <2>3 DEF GotInv
    <3> QED BY <2>1, <2>2, <3>1 DEF GotOK
  <2> QED BY <2>1, <2>3 DEF GotInv
<1> QED BY <1>1, <1>2 DEF Next, MapRace, Ended, vars

----------------------------------------------------------------------------
(* Where references come from *)

\* Following references ends.
AllEnd == \A v : Sound(v) => Resolve(v).k # "ref"

StoredAny(old, new, v) == \E mut, import \in BOOLEAN : Stored(old, new, v, mut, import)

LEMMA StoredRef ==
  ASSUME NEW old \in BindingRec, NEW v, NEW new, StoredAny(old, new, v), new.val.k = "ref"
  PROVE  new.val = old.val \/ new.val = v
<1> PICK mut \in BOOLEAN, import \in BOOLEAN : Stored(old, new, v, mut, import)
  BY DEF StoredAny
<1>1. CASE ~Refused(old, v)
  <2>1. new = Defined(old, v, mut, FALSE, import)
    BY <1>1 DEF Stored
  <2>2. new.val = IF Callable(v) THEN Group(Over(NewFns(v), OldFns(old)), OldDelegates(old)) ELSE v
    BY <2>1 DEF Defined
  <2>3. ~Callable(v)
    BY <2>2 DEF Group
  <2> QED BY <2>2, <2>3
<1>2. CASE Immutable(old, v)
  BY <1>2 DEF Stored, Refused, Remains
<1>3. CASE Refused(old, v) /\ ~Immutable(old, v)
  <2>1. new \in Remains(old, v, import)
    BY <1>3 DEF Stored
  <2> QED BY <1>3, <2>1, RefusedGroup
<1> QED BY <1>1, <1>2, <1>3

\* What `val {n} = import(...)` binds is not a reference.
LEMMA NamedEnds ==
  ASSUME LoadInv, AllEnd, NEW p \in Proc, stack[p] # <<>>, NEW n \in Name
  PROVE  NamedValue(p, n).k # "ref"
<1> DEFINE u == Top(p).temp[n]
           v == MapValue(u)
<1>1. u \in Collected /\ CollectedOK(envs, u)
  BY TopFacts DEF ActRec, ActOK
<1>2. NamedValue(p, n) = IF v = NoValue THEN Nil ELSE Resolve(v)
  BY DEF NamedValue
<1> HIDE DEF u
<1>3. CASE u.k = "none"
  <2>1. v = NoValue
    BY <1>1, <1>3 DEF Collected, MapValue, NoValue
  <2> QED BY <1>2, <2>1 DEF Nil
<1>4. CASE u.k # "none"
  <2>1. Sound(v)
    BY <1>1, <1>4, MapValueOK
  <2> HIDE DEF v
  <2>2. Resolve(v).k # "ref"
    BY <2>1 DEF AllEnd
  <2> QED BY <1>2, <2>2 DEF Nil
<1> QED BY <1>3, <1>4

\* A binding gets a reference from `val {*} = import(...)` alone.
LEMMA NewRefs ==
  ASSUME LoadInv, AllEnd, NEW p \in Proc, Step(p), NEW e \in 1 .. Len(envs), NEW n \in Name,
         envs'[e].bind[n].val.k = "ref"
  PROVE  \/ envs'[e].bind[n].val = envs[e].bind[n].val
         \/ e = Top(p).env /\ BindStar(p) /\ envs'[e].bind[n].val = Top(p).temp[n]
<1> DEFINE old == envs[e].bind[n]
           new == envs'[e].bind[n]
<1>1. stack[p] # <<>> /\ old \in BindingRec
  BY StepLength, BindType
<1>2. Changed(p, e, n, old, new) /\ new.val.k = "ref"
  BY StepChanged DEF ChangedEnv
<1>3. SUFFICES new.val = old.val \/ (e = Top(p).env /\ BindStar(p) /\ new.val = Top(p).temp[n])
  OBVIOUS
<1> HIDE DEF old, new
<1>4. CASE new = old
  BY <1>4
<1>5. CASE IsGroup(old) /\ new = Extended(old, Top(p).got, n)
  <2>1. IsGroup(new)
    BY <1>1, <1>5, GroupKept
  <2> QED BY <1>2, <2>1 DEF IsGroup
<1>6. CASE new = [old EXCEPT !.export = TRUE]
  BY <1>1, <1>6 DEF BindingRec
<1>7. CASE new = Predeclared(envs[e].mod, n)
  <2>1. new.val.k \in {"none", "uninit"}
    BY <1>7 DEF Predeclared, NoBinding, NoValue, Uninit
  <2> QED BY <1>2, <2>1
<1>8. CASE e = Top(p).env /\ BindStar(p) /\ StarStored(p, n, old, new)
  <2> DEFINE v == StarValue(p, n)
             mut == Current(p).mut
             import == TRUE
  <2>1. n \in StarNames(p) /\ Stored(old, new, v, mut, import)
    BY <1>8 DEF StarStored
  <2>2. v.k = "ref" => v = Top(p).temp[n]
    BY <1>1, <2>1, StarKind
  <2>3. mut \in BOOLEAN /\ import \in BOOLEAN
    <3>1. Top(p).stage = "bind" /\ Current(p) = Code(p)[Top(p).pc] /\ Current(p).op = "star"
      BY <1>8 DEF BindStar, Stage, Current
    <3>2. Top(p).pc \in DOMAIN Code(p)
      BY <1>1, <3>1, TopFacts DEF ActOK, Importing
    <3>3. Current(p) \in Stmt
      BY <1>1, <3>1, <3>2, TopFacts
    <3> QED BY <3>1, <3>3, StmtFields
  <2> HIDE DEF v, mut, import
  <2>4. StoredAny(old, new, v)
    BY <2>1, <2>3 DEF StoredAny
  <2>5. new.val = old.val \/ new.val = v
    BY <1>1, <1>2, <2>4, StoredRef
  <2> QED BY <1>2, <1>8, <2>2, <2>5
<1>9. CASE e = Top(p).env /\ BindNamed(p) /\ NamedStored(p, old, new)
  <2> DEFINE v == NamedValue(p, Current(p).name)
             mut == Current(p).mut
             import == FALSE
  <2>1. Stored(old, new, v, mut, import)
    BY <1>9 DEF NamedStored
  <2>2. Current(p) \in Stmt /\ Current(p).op = "named" /\ Current(p).name \in Name
    BY <1>9, AtBind
  <2>3. mut \in BOOLEAN /\ import \in BOOLEAN
    BY <2>2, StmtFields
  <2>4. v.k # "ref"
    BY <1>1, <2>2, NamedEnds
  <2> HIDE DEF v, mut, import
  <2>5. StoredAny(old, new, v)
    BY <2>1, <2>3 DEF StoredAny
  <2>6. new.val = old.val \/ new.val = v
    BY <1>1, <1>2, <2>5, StoredRef
  <2> QED BY <1>2, <2>4, <2>6
<1>10. CASE e = Top(p).env /\ DeclStep(p) /\ Declared(p, old, new)
  <2> DEFINE v == DeclValue(p)
             mut == Current(p).mut
             import == FALSE
  <2>1. v.k # "ref"
    BY DEF DeclValue, Lit, Fn
  <2>2. Current(p) \in Stmt /\ Current(p).op = "decl"
    BY <1>10, AtBind
  <2>3. mut \in BOOLEAN /\ import \in BOOLEAN
    BY <2>2, StmtFields
  <2>4. \/ Stored(old, new, v, mut, import)
        \/ IsGroup(old) /\ new = [old EXCEPT !.val.fns = Over(NewFns(v), @)]
    BY <1>10 DEF Declared
  <2> HIDE DEF v, mut, import
  <2>5. CASE Stored(old, new, v, mut, import)
    <3>1. StoredAny(old, new, v)
      BY <2>3, <2>5 DEF StoredAny
    <3> QED BY <1>1, <1>2, <2>1, <3>1, StoredRef
  <2>6. CASE IsGroup(old) /\ new = [old EXCEPT !.val.fns = Over(NewFns(v), @)]
    <3>1. \E f : new = [old EXCEPT !.val.fns = f]
      BY <2>6
    <3>2. IsGroup(new)
      BY <1>1, <2>6, <3>1, GroupKept
    <3> QED BY <1>2, <3>2 DEF IsGroup
  <2> QED BY <2>4, <2>5, <2>6
<1> QED BY <1>2, <1>4, <1>5, <1>6, <1>7, <1>8, <1>9, <1>10 DEF Changed

\* An import collects a reference from the module it has just loaded alone.
LEMMA NewTemps ==
  ASSUME LoadInv, NEW p \in Proc, Step(p), NEW i \in 1 .. Len(stack'[p]), NEW n \in Name,
         stack'[p][i].temp[n].k = "ref"
  PROVE  /\ i \in 1 .. Len(stack[p]) /\ stack'[p][i].env = stack[p][i].env
         /\ \/ stack'[p][i].temp[n] = stack[p][i].temp[n]
            \/ /\ Merge(p) /\ i = Len(stack[p]) /\ n \in Exported(Top(p).got)
               /\ ~IsGroup(envs[Top(p).got].bind[n])
               /\ stack'[p][i].temp[n] = Ref(Top(p).got, n)
<1> DEFINE s == stack[p]
           t == stack'[p]
<1>1. Becomes(p, s, t, i) /\ Len(t) \in Nat
  BY StepStack DEF StackStep
<1>2. Len(s) \in Nat /\ s # <<>> /\ Top(p) = s[Len(s)] /\ Len(s) >= 1
  BY ModKept, TopFacts
<1>3. t[i].temp # NoTemp
  BY DEF NoTemp, NoValue
<1>4. i \in 1 .. Len(s) /\ (t[i].temp = s[i].temp \/ (Merge(p) /\ i = Len(s) /\ t[i].temp = [x \in Name |-> Merged(p, x)]))
  BY <1>1, <1>2, <1>3 DEF Becomes, Moved, SamePlace
<1>5. t[i].env = s[i].env
  BY <1>4, EnvKept
<1>6. ASSUME Merge(p), i = Len(s), t[i].temp = [x \in Name |-> Merged(p, x)]
      PROVE  \/ t[i].temp[n] = s[i].temp[n]
             \/ n \in Exported(Top(p).got) /\ ~IsGroup(envs[Top(p).got].bind[n]) /\ t[i].temp[n] = Ref(Top(p).got, n)
  <2>1. t[i].temp[n] = Merged(p, n) /\ Merged(p, n).k = "ref"
    BY <1>6
  <2> QED BY <1>2, <1>6, <2>1 DEF Merged, ToExporter
<1> QED BY <1>4, <1>5, <1>6

----------------------------------------------------------------------------
(* References resolve in programs whose imports make no cycle *)

\* Modules import those of lower rank.
Falls(P, rk) == \A m, d \in Module : Wanted(P, m, d) => rk[d] < rk[m]
Acyclic(P) == \E rk \in [Module -> Nat] : Falls(P, rk)

\* References too.
Lower(rk, E, e, v) == v.k = "ref" => rk[E[v.env].mod] < rk[E[e].mod]
RankInv(rk) ==
  /\ \A e \in 1 .. Len(envs) : \A n \in Name : Lower(rk, envs, e, envs[e].bind[n].val)
  /\ \A p \in Proc : \A i \in 1 .. Len(stack[p]) : stack[p][i].env # 0 =>
       \A n \in Name : Lower(rk, envs, stack[p][i].env, stack[p][i].temp[n])

\* References lead to environments there are.
LEMMA BindingRef ==
  ASSUME LoadInv, NEW e \in 1 .. Len(envs), NEW n \in Name, envs[e].bind[n].val.k = "ref"
  PROVE  Sound(envs[e].bind[n].val) /\ envs[e].bind[n].val.env \in 1 .. Len(envs)
         /\ envs[e].bind[n].val.name \in Name
<1>1. Has(envs, e, n)
  BY DEF Has
<1>2. Sound(envs[e].bind[n].val)
  BY <1>1, SlotSound
<1> QED BY <1>2 DEF Sound, Held

LEMMA TempRef ==
  ASSUME LoadInv, NEW p \in Proc, NEW i \in 1 .. Len(stack[p]), NEW n \in Name, stack[p][i].temp[n].k = "ref"
  PROVE  Sound(stack[p][i].temp[n]) /\ stack[p][i].temp[n].env \in 1 .. Len(envs)
         /\ stack[p][i].temp[n].name = n
<1> DEFINE v == stack[p][i].temp[n]
<1>1. v \in Collected /\ CollectedOK(envs, v) /\ (v.k # "none" => v.name = n)
  <2> DEFINE a == stack[p][i]
  <2>1. a \in ActRec /\ ActOK(envs, p, a)
    BY InStack
  <2> HIDE DEF a
  <2>2. a.temp[n] \in Collected /\ CollectedOK(envs, a.temp[n]) /\ (a.temp[n].k # "none" => a.temp[n].name = n)
    BY <2>1 DEF ActRec, ActOK
  <2> QED BY <2>2 DEF a
<1> HIDE DEF v
<1>2. Sound(MapValue(v)) \/ v.k # "ref"
  BY <1>1, MapValueOK
<1>3. v.k = "ref"
  BY DEF v
<1>4. MapValue(v) = v
  BY <1>3 DEF MapValue
<1> QED BY <1>1, <1>2, <1>3, <1>4 DEF CollectedOK, v

LEMMA ModType ==
  ASSUME LoadInv, NEW e \in 1 .. Len(envs)
  PROVE  envs[e].mod \in Module
<1>1. envs \in Seq(EnvRec)
  BY DEF LoadInv, Shape
<1>2. envs[e] \in EnvRec
  BY <1>1, SeqElements
<1> QED BY <1>2 DEF EnvRec

\* Where references are ranked, following them ends.
LEMMA RankEnds ==
  ASSUME LoadInv, NEW rk \in [Module -> Nat], RankInv(rk)
  PROVE  AllEnd
<1> DEFINE r == [x \in Pairs |-> rk[envs[x[1]].mod]]
<1>1. \A e \in 1 .. Len(envs) : envs[e].mod \in Module
  BY ModType
<1>2. r \in [Pairs -> Nat]
  BY <1>1 DEF Pairs
<1>3. \A e \in 1 .. Len(envs) : \A n \in Name : <<e, n>> \in Pairs /\ r[<<e, n>>] = rk[envs[e].mod]
  BY DEF Pairs
<1> HIDE DEF r
<1>4. ASSUME NEW e \in 1 .. Len(envs), NEW n \in Name, envs[e].bind[n].val.k = "ref"
      PROVE  r[<<envs[e].bind[n].val.env, envs[e].bind[n].val.name>>] < r[<<e, n>>]
  <2> DEFINE w == envs[e].bind[n].val
  <2>1. w.env \in 1 .. Len(envs) /\ w.name \in Name
    BY <1>4, BindingRef
  <2>2. rk[envs[w.env].mod] < rk[envs[e].mod]
    BY <1>4 DEF RankInv, Lower
  <2> QED BY <1>3, <2>1, <2>2
<1>5. Descends(r)
  BY <1>2, <1>4 DEF Descends
<1> QED BY <1>5, ResolveEnds DEF AllEnd

\* Where following references ends, RefsResolve holds.
LEMMA EndsResolve ==
  ASSUME LoadInv, AllEnd
  PROVE  RefsResolve
<1> SUFFICES ASSUME NEW v \in Refs, v.k = "ref"
             PROVE  Bound(v.env, v.name) /\ Resolve(v).k # "ref"
  BY DEF RefsResolve
<1>1. Sound(v)
  <2>1. CASE \E e \in DOMAIN envs, n \in Name : v = envs[e].bind[n].val
    <3>1. PICK e \in DOMAIN envs, n \in Name : v = envs[e].bind[n].val
      BY <2>1
    <3>2. e \in 1 .. Len(envs)
      BY SeqElements DEF LoadInv, Shape
    <3> QED BY <3>1, <3>2, BindingRef
  <2>2. CASE \E p \in Proc : \E n \in Name, i \in DOMAIN stack[p] : v = stack[p][i].temp[n]
    <3>1. PICK p \in Proc : \E n \in Name, i \in DOMAIN stack[p] : v = stack[p][i].temp[n]
      BY <2>2
    <3>2. PICK n \in Name, i \in DOMAIN stack[p] : v = stack[p][i].temp[n]
      BY <3>1
    <3>3. i \in 1 .. Len(stack[p])
      BY SeqElements DEF LoadInv, Shape
    <3> QED BY <3>2, <3>3, TempRef
  <2> QED BY <2>1, <2>2 DEF Refs
<1>2. Resolve(v).k # "ref"
  BY <1>1 DEF AllEnd
<1>3. Has(envs, v.env, v.name)
  BY <1>1 DEF Sound
<1>4. Bound(v.env, v.name)
  BY <1>3 DEF Has, Bound, NoBinding, NoValue
<1> QED BY <1>2, <1>4

LEMMA RankStep ==
  ASSUME LoadInv, GotInv, NEW rk \in [Module -> Nat], Falls(program, rk), RankInv(rk), NEW p \in Proc, Step(p)
  PROVE  RankInv(rk)'
<1>1. AllEnd
  BY RankEnds
<1>2. /\ \A e \in 1 .. Len(envs) : envs'[e].mod = envs[e].mod
      /\ Len(envs) \in Nat /\ Len(envs') \in Nat /\ Len(envs') >= Len(envs) /\ stack[p] # <<>>
  BY ModKept
<1>3. /\ Len(stack[p]) \in Nat /\ Len(stack[p]) >= 1 /\ Top(p) = stack[p][Len(stack[p])]
      /\ Top(p).env \in 0 .. Len(envs)
  BY <1>2, TopFacts DEF ActOK
<1>4. ASSUME NEW e \in 1 .. Len(envs'), NEW n \in Name
      PROVE  Lower(rk, envs', e, envs'[e].bind[n].val)
  <2> DEFINE v == envs'[e].bind[n].val
  <2> SUFFICES ASSUME v.k = "ref" PROVE rk[envs'[v.env].mod] < rk[envs'[e].mod]
    BY DEF Lower
  <2>1. e \in 1 .. Len(envs)
    <3> SUFFICES ASSUME e \notin 1 .. Len(envs) PROVE FALSE
      OBVIOUS
    <3>1. e = Len(envs) + 1 /\ Put(p)
      BY <1>2, <1>4, StepLength
    <3>2. v.k = "none"
      BY <3>1, PutChanged DEF Empty, NoBinding, NoValue
    <3> QED BY <3>2
  <2>2. CASE v = envs[e].bind[n].val
    <3>1. v.env \in 1 .. Len(envs)
      BY <2>1, <2>2, BindingRef
    <3>2. rk[envs[v.env].mod] < rk[envs[e].mod]
      BY <2>1, <2>2 DEF RankInv, Lower
    <3> QED BY <1>2, <2>1, <3>1, <3>2
  <2>3. CASE e = Top(p).env /\ BindStar(p) /\ v = Top(p).temp[n]
    <3> DEFINE i == Len(stack[p])
    <3>1. i \in 1 .. Len(stack[p]) /\ stack[p][i].env = e /\ v = stack[p][i].temp[n] /\ e # 0
      BY <1>3, <2>1, <2>3
    <3>2. v.env \in 1 .. Len(envs)
      BY <3>1, TempRef
    <3>3. rk[envs[v.env].mod] < rk[envs[e].mod]
      BY <3>1 DEF RankInv, Lower
    <3> QED BY <1>2, <2>1, <3>2, <3>3
  <2> QED BY <1>1, <2>1, <2>2, <2>3, NewRefs
<1>5. ASSUME NEW q \in Proc, NEW i \in 1 .. Len(stack'[q]), stack'[q][i].env # 0, NEW n \in Name
      PROVE  Lower(rk, envs', stack'[q][i].env, stack'[q][i].temp[n])
  <2> DEFINE v == stack'[q][i].temp[n]
             e == stack'[q][i].env
  <2> SUFFICES ASSUME v.k = "ref" PROVE rk[envs'[v.env].mod] < rk[envs'[e].mod]
    BY DEF Lower
  <2>1. ASSUME i \in 1 .. Len(stack[q]), e = stack[q][i].env, v = stack[q][i].temp[n]
        PROVE  rk[envs'[v.env].mod] < rk[envs'[e].mod]
    <3>1. v.env \in 1 .. Len(envs) /\ e \in 0 .. Len(envs) /\ e # 0
      BY <1>5, <2>1, InStack, TempRef
    <3>2. e \in 1 .. Len(envs)
      BY <1>2, <3>1
    <3>3. rk[envs[v.env].mod] < rk[envs[e].mod]
      BY <2>1, <3>1 DEF RankInv, Lower
    <3> QED BY <1>2, <3>1, <3>2, <3>3
  <2>2. CASE q # p
    <3>1. stack'[q] = stack[q]
      BY <2>2, StepStack DEF StackStep
    <3> QED BY <1>5, <2>1, <3>1
  <2>3. CASE q = p
    <3>1. /\ i \in 1 .. Len(stack[p]) /\ e = stack[p][i].env
          /\ \/ v = stack[p][i].temp[n]
             \/ Merge(p) /\ i = Len(stack[p]) /\ v = Ref(Top(p).got, n)
      BY <1>5, <2>3, NewTemps
    <3>2. CASE Merge(p) /\ i = Len(stack[p]) /\ v = Ref(Top(p).got, n)
      <4> DEFINE a == Top(p)
                 d == Head(a.todo)
      <4>1. a = stack[p][i] /\ e = a.env /\ a.stage = "merge" /\ "merge" \in Loading
        BY <1>3, <3>1, <3>2 DEF Merge, Stage, Loading
      <4>2. a.todo \in Seq(Module) /\ a.todo # <<>> /\ a.got \in 1 .. Len(envs) /\ e \in 1 .. Len(envs)
        <5>1. a.todo \in Seq(Module) /\ a.todo # <<>> /\ a.got \in 0 .. Len(envs) /\ a.got # 0 /\ a.env \in 0 .. Len(envs)
          BY <1>2, <4>1, TopFacts DEF ActRec, ActOK
        <5> QED BY <1>2, <1>5, <4>1, <5>1
      <4>3. d = a.todo[1] /\ 1 \in DOMAIN a.todo /\ d \in Module
        <5> DEFINE w == a.todo
        <5>1. w \in Seq(Module) /\ Len(w) \in Nat /\ Len(w) >= 1 /\ DOMAIN w = 1 .. Len(w)
          BY <4>2, StackParts, SeqElements
        <5> HIDE DEF w
        <5>2. 1 \in DOMAIN w /\ Head(w) = w[1] /\ w[1] \in Module
          BY <5>1, SeqElements
        <5> QED BY <5>2 DEF w
      <4>4. envs[a.got].mod = d /\ Wanted(program, envs[e].mod, d)
        <5>1. GotOK(envs, stack[p], i)
          BY <3>1 DEF GotInv
        <5> QED BY <1>5, <4>1, <4>3, <5>1 DEF GotOK
      <4>5. envs[e].mod \in Module
        BY <4>2, ModType
      <4>6. rk[d] < rk[envs[e].mod]
        BY <4>3, <4>4, <4>5 DEF Falls
      <4>7. v.env = a.got
        BY <3>2 DEF Ref
      <4> QED BY <1>2, <4>2, <4>4, <4>6, <4>7
    <3> QED BY <2>1, <2>3, <3>1, <3>2
  <2> QED BY <2>2, <2>3
<1> QED BY <1>4, <1>5 DEF RankInv

LEMMA RankInit == ASSUME NEW rk PROVE Init => RankInv(rk)
<1> SUFFICES ASSUME Init PROVE RankInv(rk)
  OBVIOUS
<1>1. Len(envs) = 1 /\ envs[1].bind = Empty
  BY DEF Init
<1>2. \A e \in 1 .. Len(envs) : \A n \in Name : Lower(rk, envs, e, envs[e].bind[n].val)
  BY <1>1 DEF Lower, Empty, NoBinding, NoValue
<1>3. ASSUME NEW p \in Proc, NEW i \in 1 .. Len(stack[p]), NEW n \in Name
      PROVE  Lower(rk, envs, stack[p][i].env, stack[p][i].temp[n])
  <2> DEFINE a == Activation(IF p = Main THEN 1 ELSE 0, "exec")
  <2>1. stack[p] = <<a>>
    BY DEF Init
  <2>2. stack[p][i] = a
    BY <2>1
  <2>3. a.temp[n] = NoValue
    BY DEF Activation, NoTemp
  <2> QED BY <2>2, <2>3 DEF Lower, NoValue
<1> QED BY <1>2, <1>3 DEF RankInv

LEMMA RankNext ==
  ASSUME LoadInv, GotInv, NEW rk \in [Module -> Nat], Falls(program, rk), RankInv(rk), [Next]_vars
  PROVE  RankInv(rk)'
<1>1. CASE \E p \in Proc : Step(p)
  BY <1>1, RankStep
<1>2. CASE UNCHANGED <<program, cache, envs, stack>>
  BY <1>2 DEF RankInv, Lower
<1> QED BY <1>1, <1>2 DEF Next, MapRace, Ended, vars

RanksInv == \A rk \in [Module -> Nat] : Falls(program, rk) => RankInv(rk)

\* Whatever modules import, as long as no module imports itself through
\* others, and however many goroutines load them: a reference that an import
\* has collected or bound leads to a binding that exists, and resolveValue
\* ends with a value.
THEOREM ReferencesResolve ==
  ASSUME \A P \in Programs : Acyclic(P)
  PROVE  Spec => []RefsResolve
<1>1. Init => RanksInv
  BY RankInit DEF RanksInv
<1>2. LoadInv /\ GotInv /\ RanksInv /\ [Next]_vars => RanksInv'
  <2> SUFFICES ASSUME LoadInv, GotInv, RanksInv, [Next]_vars, NEW rk \in [Module -> Nat], Falls(program, rk)'
               PROVE  RankInv(rk)'
    BY DEF RanksInv
  <2>1. program' = program
    BY ProgramStays
  <2>2. Falls(program, rk)
    BY <2>1 DEF Falls, Wanted
  <2> QED BY <2>2, RankNext DEF RanksInv
<1>3. LoadInv /\ GotInv /\ [Next]_vars => GotInv'
  BY GotNext
<1>4. LoadInv /\ program \in Programs /\ RanksInv => RefsResolve
  <2> SUFFICES ASSUME LoadInv, program \in Programs, RanksInv PROVE RefsResolve
    OBVIOUS
  <2>1. PICK rk \in [Module -> Nat] : Falls(program, rk)
    BY DEF Acyclic
  <2>2. RankInv(rk)
    BY <2>1 DEF RanksInv
  <2>3. AllEnd
    BY <2>2, RankEnds
  <2> QED BY <2>3, EndsResolve
<1> QED BY <1>1, <1>2, <1>3, <1>4, GotInit, Loads, ProgramChosen, PTL DEF Spec

----------------------------------------------------------------------------
(* References resolve in the main goroutine, whatever cycles imports make,  *)
(* where modules declare values alone                                       *)

\* P's modules have no functions and no vars, and none imports itself.
NoFunctions(P) == \A m \in Module : \A i \in DOMAIN P[m] : P[m][i].op = "decl" => P[m][i].sig = 0
NotItself(P) == \A m \in Module : ~Wanted(P, m, m)
Plain(P) == NoVar(P) /\ NoFunctions(P) /\ NotItself(P)

\* A reference held by environment e leads to an environment made before e,
\* or to a binding that is settled for good.
AtRest(E, e, n) == E[e].st # "run" /\ E[e].bind[n].val.k # "ref"
Down(E, e, v) == v.k = "ref" => v.env < e \/ AtRest(E, v.env, v.name)

\* The declarations of an activation that have been executed are settled.
Settles(E, a) == a.stage # "declare" =>
  \A j \in DOMAIN program[E[a.env].mod] :
    LET c == program[E[a.env].mod][j]
    IN  j < a.pc /\ c.op \in {"decl", "named"} => Firm(E[a.env].bind[c.name])

PlainEnv(e) ==
  \A n \in Name : LET b == envs[e].bind[n]
                  IN  /\ ~IsGroup(b)
                      /\ b.export => n \in Exports(envs[e].mod)
                      /\ envs[e].st = "done" /\ b.export => Firm(b)
                      /\ Down(envs, e, b.val)

PlainAct(i) == LET a == stack[Main][i]
               IN  /\ Settles(envs, a)
                   /\ \A n \in Name : Down(envs, a.env, a.temp[n])
                   /\ \A j \in 1 .. Len(stack[Main]) : i < j => a.env < stack[Main][j].env

PlainInv ==
  /\ \A e \in 1 .. Len(envs) : PlainEnv(e)
  /\ \A i \in 1 .. Len(stack[Main]) : PlainAct(i)
  /\ \A e \in 1 .. Len(envs) : envs[e].st = "run" => \E i \in 1 .. Len(stack[Main]) : stack[Main][i].env = e

\* Following references ends.
LEMMA PlainEnds ==
  ASSUME LoadInv, PlainInv
  PROVE  AllEnd
<1> DEFINE r == [x \in Pairs |-> IF AtRest(envs, x[1], x[2]) THEN 0 ELSE x[1]]
<1>1. r \in [Pairs -> Nat]
  BY DEF Pairs
<1>2. \A e \in 1 .. Len(envs) : \A n \in Name : r[<<e, n>>] = IF AtRest(envs, e, n) THEN 0 ELSE e
  BY DEF Pairs
<1> HIDE DEF r
<1>3. ASSUME NEW e \in 1 .. Len(envs), NEW n \in Name, envs[e].bind[n].val.k = "ref"
      PROVE  r[<<envs[e].bind[n].val.env, envs[e].bind[n].val.name>>] < r[<<e, n>>]
  <2> DEFINE w == envs[e].bind[n].val
  <2>1. w.env \in 1 .. Len(envs) /\ w.name \in Name /\ Len(envs) \in Nat
    BY <1>3, BindingRef, LenProperties DEF LoadInv, Shape
  <2>2. w.env < e \/ AtRest(envs, w.env, w.name)
    BY <1>3 DEF PlainInv, PlainEnv, Down
  <2>3. ~AtRest(envs, e, n)
    BY <1>3 DEF AtRest
  <2>4. r[<<e, n>>] = e
    BY <1>2, <2>3
  <2>5. r[<<w.env, w.name>>] = IF AtRest(envs, w.env, w.name) THEN 0 ELSE w.env
    BY <1>2, <2>1
  <2> HIDE DEF w
  <2>6. r[<<w.env, w.name>>] < r[<<e, n>>]
    BY <2>1, <2>2, <2>4, <2>5
  <2> QED BY <2>6 DEF w
<1>4. Descends(r)
  BY <1>1, <1>3 DEF Descends
<1> QED BY <1>4, ResolveEnds DEF AllEnd

\* What `val {n} = import(...)` binds is a value.
LEMMA PlainNamed ==
  ASSUME LoadInv, PlainInv, NEW p \in Proc, stack[p] # <<>>, NEW n \in Name, ~Faults(MapValue(Top(p).temp[n]))
  PROVE  NamedValue(p, n).k \in {"lit", "nil"}
<1> DEFINE u == Top(p).temp[n]
           v == MapValue(u)
           w == NamedValue(p, n)
           S == {x \in Held : Sound(x) /\ x.k # "group"}
<1>1. u \in Collected /\ CollectedOK(envs, u)
  BY TopFacts DEF ActRec, ActOK
<1>2. w = IF v = NoValue THEN Nil ELSE Resolve(v)
  BY DEF NamedValue
<1>3. Incoming(w) /\ w \in Held /\ w.k # "ref"
  BY NamedIncoming, NamedEnds, PlainEnds
<1>4. \A e \in 1 .. Len(envs) : \A x \in Name : ~IsGroup(envs[e].bind[x])
  BY DEF PlainInv, PlainEnv
<1> HIDE DEF u, w
<1>5. u.k # "group"
  <2> SUFFICES ASSUME u.k = "group" PROVE FALSE
    OBVIOUS
  <2>1. u.env \in 1 .. Len(envs) /\ u.name \in Name /\ IsGroup(envs[u.env].bind[u.name])
    BY <1>1 DEF Collected, CollectedOK
  <2> QED BY <1>4, <2>1
<1>6. CASE u.k = "none"
  <2>1. v = NoValue
    BY <1>1, <1>6 DEF Collected, MapValue, NoValue
  <2> QED BY <1>2, <2>1 DEF Nil, w
<1>7. CASE u.k = "ref"
  <2>1. v = u /\ v # NoValue
    BY <1>7 DEF MapValue, NoValue
  <2>2. Sound(v)
    BY <1>1, <1>7, MapValueOK
  <2> HIDE DEF v
  <2>3. v \in S
    BY <1>7, <2>1, <2>2 DEF Sound
  <2>4. \A x \in S : Follow(x) \in S
    <3> SUFFICES ASSUME NEW x \in S PROVE Follow(x) \in S
      OBVIOUS
    <3>1. Sound(x) /\ x.k # "group"
      OBVIOUS
    <3>2. Sound(Follow(x)) /\ (x.k # "ref" => Follow(x) = x)
      BY <3>1, FollowSound
    <3>3. Follow(x) \in Held
      BY <3>2 DEF Sound
    <3>4. x.k = "ref" => Follow(x).k # "group"
      BY <1>4, <3>1 DEF Sound, Held, Follow, IsGroup
    <3> QED BY <3>1, <3>2, <3>3, <3>4
  <2> HIDE DEF S
  <2>5. Resolve(v) \in S
    BY <2>3, <2>4, ResolveIn
  <2>6. w.k # "group"
    BY <1>2, <2>1, <2>5 DEF S
  <2>7. w.k \in {"lit", "nil"}
    BY <1>3, <2>6 DEF Held, Incoming
  <2> QED BY <2>7 DEF w
<1> QED BY <1>1, <1>5, <1>6, <1>7 DEF Collected

\* What a declaration or `val {n} = import(...)` stores is a value.
LEMMA StoredValue ==
  ASSUME LoadInv, Plain(program), PlainInv, NEW p \in Proc
  PROVE  /\ DeclStep(p) => DeclValue(p).k = "lit"
         /\ BindNamed(p) /\ ~Faults(MapValue(Top(p).temp[Current(p).name])) =>
              NamedValue(p, Current(p).name).k \in {"lit", "nil"}
<1>1. ASSUME DeclStep(p) PROVE DeclValue(p).k = "lit"
  <2>1. /\ stack[p] # <<>> /\ Top(p).pc \in DOMAIN Code(p) /\ Current(p) = Code(p)[Top(p).pc]
        /\ Current(p).op = "decl" /\ Top(p).env \in 1 .. Len(envs)
    BY <1>1, AtBind
  <2>2. Code(p) = program[envs[Top(p).env].mod] /\ envs[Top(p).env].mod \in Module
    <3>1. Top(p).env # 0
      BY <2>1
    <3> QED BY <2>1, <3>1, ModType DEF Code
  <2>3. Current(p).sig = 0
    BY <2>1, <2>2 DEF Plain, NoFunctions
  <2> QED BY <2>3 DEF DeclValue, Lit
<1> QED BY <1>1, AtBind, PlainNamed

\* Storing a value makes no function group, and keeps the export flag or
\* clears it.
StoresValue(old, new) == \E v : StoredAny(old, new, v) /\ v.k \in {"lit", "nil", "ref"}

LEMMA PlainStored ==
  ASSUME NEW old \in BindingRec, ~IsGroup(old), NEW new, StoresValue(old, new)
  PROVE  ~IsGroup(new) /\ (new.export => old.export)
<1>1. PICK v : StoredAny(old, new, v) /\ v.k \in {"lit", "nil", "ref"}
  BY DEF StoresValue
<1>2. PICK mut \in BOOLEAN, import \in BOOLEAN : Stored(old, new, v, mut, import)
  BY <1>1 DEF StoredAny
<1>3. ~Callable(v)
  BY <1>1 DEF Callable
<1>4. ~Clashes(old, v)
  BY <1>3 DEF Clashes
<1>5. CASE Refused(old, v)
  <2>1. Immutable(old, v)
    BY <1>4, <1>5 DEF Refused
  <2>2. new = old
    BY <1>2, <1>5, <2>1 DEF Stored, Remains
  <2> QED BY <2>2
<1>6. CASE ~Refused(old, v)
  <2>1. new = Defined(old, v, mut, FALSE, import)
    BY <1>2, <1>6 DEF Stored
  <2>2. new.val = v /\ new.export = FALSE
    BY <1>3, <2>1 DEF Defined
  <2> QED BY <1>1, <2>2 DEF IsGroup
<1> QED BY <1>5, <1>6

\* What a step makes of a binding that is not a group.
LEMMA PlainChanged ==
  ASSUME LoadInv, Plain(program), PlainInv, NEW p \in Proc, Step(p), NEW e \in 1 .. Len(envs), NEW n \in Name
  PROVE  /\ ~IsGroup(envs'[e].bind[n])
         /\ envs'[e].bind[n].export => \/ envs[e].bind[n].export
                                       \/ n \in Exports(envs[e].mod)
         /\ e # Top(p).env => envs'[e].bind[n] = envs[e].bind[n]
<1> DEFINE old == envs[e].bind[n]
           new == envs'[e].bind[n]
           m == envs[e].mod
<1>1. stack[p] # <<>> /\ old \in BindingRec /\ ~IsGroup(old) /\ m \in Module
  BY StepLength, BindType, ModType DEF PlainInv, PlainEnv
<1>2. Changed(p, e, n, old, new)
  BY StepChanged DEF ChangedEnv
<1>3. SUFFICES /\ ~IsGroup(new) /\ (new.export => old.export \/ n \in Exports(m))
               /\ e # Top(p).env => new = old
  OBVIOUS
<1> HIDE DEF old, new
<1>4. CASE new = old
  BY <1>1, <1>4
<1>5. CASE Finish(p) /\ n \in Exports(m) /\ e = Top(p).env /\ new = [old EXCEPT !.export = TRUE]
  <2>1. new.val = old.val
    BY <1>1, <1>5 DEF BindingRec
  <2> QED BY <1>1, <1>5, <2>1 DEF IsGroup
<1>6. CASE e = Top(p).env /\ new = Predeclared(m, n)
  <2>1. ~IsGroup(new)
    BY <1>6 DEF Predeclared, NoBinding, NoValue, Uninit, IsGroup
  <2>2. new.export => n \in Exports(m)
    <3> SUFFICES ASSUME new.export PROVE n \in Exports(m)
      OBVIOUS
    <3> DEFINE D == Decls(m, n)
               last == CHOOSE i \in D : \A j \in D : i >= j
    <3>1. D # {} /\ program[m][last].export
      BY <1>6 DEF Predeclared, NoBinding
    <3>2. Len(program[m]) \in Nat /\ D \subseteq 1 .. Len(program[m])
      <4>1. program[m] \in Seq(Stmt)
        BY <1>1 DEF LoadInv, Shape
      <4> QED BY <4>1, SeqElements DEF Decls
    <3> HIDE DEF D
    <3>3. last \in D
      BY <3>1, <3>2, Ends
    <3> QED BY <3>1, <3>3 DEF Exports, D
  <2> QED BY <1>6, <2>1, <2>2
<1>7. CASE e = Top(p).env /\ StoresValue(old, new)
  BY <1>1, <1>7, PlainStored
<1>8. CASE e = Top(p).env /\ BindStar(p) /\ StarStored(p, n, old, new)
  <2> DEFINE v == StarValue(p, n)
             u == Top(p).temp[n]
             mut == Current(p).mut
             import == TRUE
  <2>1. n \in StarNames(p) /\ Stored(old, new, v, mut, import)
    BY <1>8 DEF StarStored
  <2>2. v.k \in {"ref", "group"} /\ (v.k = "group" => u.k = "group")
    BY <1>1, <2>1, StarKind
  <2>3. u.k # "group"
    <3>1. u \in Collected /\ CollectedOK(envs, u)
      BY <1>1, TopFacts DEF ActRec, ActOK
    <3> HIDE DEF u
    <3>2. u.k = "group" => u.env \in 1 .. Len(envs) /\ u.name \in Name /\ IsGroup(envs[u.env].bind[u.name])
      BY <3>1 DEF Collected, CollectedOK
    <3>3. u.k # "group"
      BY <3>2 DEF PlainInv, PlainEnv
    <3> QED BY <3>3
  <2>4. mut = FALSE /\ import \in BOOLEAN
    BY <1>8, CurrentVal DEF Plain
  <2> HIDE DEF v, u, mut, import
  <2>5. StoredAny(old, new, v)
    BY <2>1, <2>4 DEF StoredAny
  <2>6. StoresValue(old, new)
    BY <2>2, <2>3, <2>5 DEF StoresValue
  <2> QED BY <1>7, <1>8, <2>6
<1>9. CASE e = Top(p).env /\ BindNamed(p) /\ NamedStored(p, old, new)
  <2> DEFINE v == NamedValue(p, Current(p).name)
             mut == Current(p).mut
             import == FALSE
  <2>1. Stored(old, new, v, mut, import)
    BY <1>9 DEF NamedStored
  <2>2. v.k \in {"lit", "nil"}
    BY <1>9, StoredValue DEF NamedStored
  <2>3. mut = FALSE /\ import \in BOOLEAN
    BY <1>9, CurrentVal DEF Plain
  <2> HIDE DEF v, mut, import
  <2>4. StoredAny(old, new, v)
    BY <2>1, <2>3 DEF StoredAny
  <2>5. StoresValue(old, new)
    BY <2>2, <2>4 DEF StoresValue
  <2> QED BY <1>7, <1>9, <2>5
<1>10. CASE e = Top(p).env /\ DeclStep(p) /\ Declared(p, old, new)
  <2> DEFINE v == DeclValue(p)
             mut == Current(p).mut
             import == FALSE
  <2>1. Stored(old, new, v, mut, import)
    BY <1>1, <1>10 DEF Declared
  <2>2. v.k = "lit"
    BY <1>10, StoredValue
  <2>3. mut = FALSE /\ import \in BOOLEAN
    BY <1>10, CurrentVal DEF Plain
  <2> HIDE DEF v, mut, import
  <2>4. StoredAny(old, new, v)
    BY <2>1, <2>3 DEF StoredAny
  <2>5. StoresValue(old, new)
    BY <2>2, <2>4 DEF StoresValue
  <2> QED BY <1>7, <1>10, <2>5
<1> QED BY <1>1, <1>2, <1>4, <1>5, <1>6, <1>8, <1>9, <1>10 DEF Changed

\* A reference goes on leading where it did.
LEMMA DownStays ==
  ASSUME LoadInv, Plain(program), PlainInv, NEW p \in Proc, Step(p), NEW e, NEW v, Down(envs, e, v),
         v.k = "ref" => v.env \in 1 .. Len(envs) /\ v.name \in Name
  PROVE  Down(envs', e, v)
<1> SUFFICES ASSUME v.k = "ref", AtRest(envs, v.env, v.name)
             PROVE  AtRest(envs', v.env, v.name)
  BY DEF Down
<1>1. stack[p] # <<>>
  BY StepLength
<1>2. v.env # Top(p).env
  <2>1. ActOK(envs, p, Top(p))
    BY <1>1, TopFacts
  <2>2. envs[v.env].st # "run" /\ v.env # 0
    BY DEF AtRest
  <2> QED BY <2>1, <2>2 DEF ActOK
<1>3. envs'[v.env].bind[v.name] = envs[v.env].bind[v.name]
  BY <1>2, PlainChanged
<1>4. envs'[v.env].st = envs[v.env].st
  BY <1>2, StepChanged DEF ChangedEnv
<1> QED BY <1>3, <1>4 DEF AtRest

\* A module that ends its load has stored a value in what it exports.
LEMMA EndsSettled ==
  ASSUME LoadInv, PlainInv, Proc = {Main}, NEW p \in Proc, Finish(p), Top(p).env # 0,
         NEW n \in Exports(envs[Top(p).env].mod)
  PROVE  Firm(envs[Top(p).env].bind[n])
<1> DEFINE a == Top(p)
           s == stack[p]
           m == envs[a.env].mod
<1>1. s # <<>> /\ a.stage = "exec" /\ a.pc > Len(Code(p)) /\ p = Main
  BY DEF Finish, Stage, Active
<1>2. /\ Len(s) \in Nat /\ Len(s) >= 1 /\ a = s[Len(s)] /\ a \in ActRec
      /\ DOMAIN Code(p) = 1 .. Len(Code(p)) /\ Len(Code(p)) \in Nat
  BY <1>1, TopFacts
<1>3. Settles(envs, a)
  BY <1>1, <1>2 DEF PlainInv, PlainAct
<1>4. Code(p) = program[m]
  BY DEF Code
<1>5. PICK i \in Decls(m, n) : TRUE
  BY DEF Exports
<1>6. i \in DOMAIN program[m] /\ program[m][i].op \in {"decl", "named"} /\ program[m][i].name = n
  BY <1>5 DEF Decls
<1>7. i < a.pc
  <2>1. a.pc \in Nat
    BY <1>2 DEF ActRec
  <2> QED BY <1>1, <1>2, <1>4, <1>6, <2>1
<1> QED BY <1>1, <1>3, <1>6, <1>7 DEF Settles

\* A load that fails leaves its module failed.
LEMMA UnwindState ==
  ASSUME LoadInv, NEW p \in Proc, Unwind(p), Top(p).env # 0
  PROVE  envs' = envs \/ envs'[Top(p).env].st = "failed"
<1>1. stack[p] # <<>>
  BY DEF Unwind, LoadInv
<1>2. envs' = envs \/ envs' = [envs EXCEPT ![Top(p).env].st = "failed"]
  BY DEF Unwind
<1> QED BY <1>1, <1>2, EndState

LEMMA PlainEnvStep ==
  ASSUME LoadInv, FixedInv, Plain(program), PlainInv, Proc = {Main}, NEW p \in Proc, Step(p), NEW e \in 1 .. Len(envs')
  PROVE  PlainEnv(e)'
<1>1. /\ program' = program /\ stack[p] # <<>> /\ Len(envs) \in Nat /\ Len(envs') \in Nat
      /\ \A d \in 1 .. Len(envs) : envs'[d].mod = envs[d].mod
  BY ProgramStays, ModKept DEF Next
<1>2. CASE e \notin 1 .. Len(envs)
  <2>1. e = Len(envs) + 1 /\ Put(p)
    BY <1>1, <1>2, StepLength
  <2>2. envs'[e].bind = Empty
    BY <2>1, PutChanged
  <2> QED BY <2>2 DEF PlainEnv, Empty, NoBinding, NoValue, IsGroup, Down
<1>3. CASE e \in 1 .. Len(envs)
  <2> SUFFICES ASSUME NEW n \in Name
               PROVE  LET b == envs'[e].bind[n]
                      IN  /\ ~IsGroup(b)
                          /\ b.export => n \in Exports(envs[e].mod)
                          /\ envs'[e].st = "done" /\ b.export => Firm(b)
                          /\ Down(envs', e, b.val)
    BY <1>1, <1>3 DEF PlainEnv, Exports, Decls, IsGroup, Firm
  <2> DEFINE old == envs[e].bind[n]
             new == envs'[e].bind[n]
  <2>1. /\ ~IsGroup(old) /\ (old.export => n \in Exports(envs[e].mod))
        /\ (envs[e].st = "done" /\ old.export => Firm(old)) /\ Down(envs, e, old.val)
    BY <1>3 DEF PlainInv, PlainEnv
  <2>2. /\ ~IsGroup(new) /\ (new.export => n \in Exports(envs[e].mod))
        /\ e # Top(p).env => new = old
    BY <1>3, <2>1, PlainChanged
  <2>3. ASSUME envs'[e].st = "done", new.export PROVE Firm(new)
    <3>1. CASE e = Top(p).env
      <4>1. envs[e].st = "run" /\ e # 0
        BY <1>1, <1>3, <3>1, TopFacts DEF ActOK
      <4>2. Finish(p) \/ Unwind(p)
        BY <1>3, <2>3, <4>1, StepChanged DEF ChangedEnv
      <4>3. Finish(p)
        BY <2>3, <3>1, <4>1, <4>2, UnwindState
      <4>4. Firm(old)
        BY <2>2, <2>3, <3>1, <4>1, <4>3, EndsSettled
      <4>5. new.val = old.val
        BY <1>3, <4>4, StepFixed DEF Plain
      <4> QED BY <4>4, <4>5 DEF Firm
    <3>2. CASE e # Top(p).env
      <4>1. new = old /\ envs'[e].st = envs[e].st
        BY <1>3, <2>2, <3>2, StepChanged DEF ChangedEnv
      <4> QED BY <2>1, <2>3, <4>1
    <3> QED BY <3>1, <3>2
  <2>4. Down(envs', e, new.val)
    <3> SUFFICES ASSUME new.val.k = "ref" PROVE Down(envs', e, new.val)
      BY DEF Down
    <3>1. \/ new.val = old.val
          \/ e = Top(p).env /\ BindStar(p) /\ new.val = Top(p).temp[n]
      BY <1>3, NewRefs, PlainEnds
    <3>2. CASE new.val = old.val
      <4>1. new.val.env \in 1 .. Len(envs) /\ new.val.name \in Name
        BY <1>3, <3>2, BindingRef
      <4> DEFINE v == old.val
      <4>2. Down(envs, e, v) /\ v.env \in 1 .. Len(envs) /\ v.name \in Name
        BY <2>1, <3>2, <4>1
      <4> HIDE DEF v
      <4>3. Down(envs', e, v)
        BY <4>2, DownStays
      <4> QED BY <3>2, <4>3 DEF v, Down
    <3>3. CASE e = Top(p).env /\ new.val = Top(p).temp[n]
      <4> DEFINE i == Len(stack[p])
                 v == stack[p][i].temp[n]
      <4>1. i \in 1 .. Len(stack[p]) /\ Top(p) = stack[p][i] /\ p = Main
        BY <1>1, TopFacts
      <4>2. v.env \in 1 .. Len(envs) /\ v.name \in Name
        BY <3>3, <4>1, TempRef
      <4>3. Down(envs, e, v)
        BY <3>3, <4>1 DEF PlainInv, PlainAct
      <4>4. new.val = v
        BY <3>3, <4>1
      <4> HIDE DEF v
      <4>5. Down(envs', e, v)
        BY <4>2, <4>3, DownStays
      <4> QED BY <4>4, <4>5 DEF Down
    <3> QED BY <3>1, <3>2, <3>3
  <2> QED BY <2>2, <2>3, <2>4
<1> QED BY <1>2, <1>3

\* The value of a declaration that succeeds is there afterwards.
LEMMA StoredFirm ==
  ASSUME LoadInv, Plain(program), PlainInv, NEW p \in Proc, DeclStep(p) \/ BindNamed(p), failing' = failing
  PROVE  Firm(envs'[Top(p).env].bind[Current(p).name])
<1> DEFINE e == Top(p).env
           x == Current(p).name
           b == Binding(p, x)
           mut == Current(p).mut
           w == MapValue(Top(p).temp[x])
           v == IF DeclStep(p) THEN DeclValue(p) ELSE NamedValue(p, x)
<1>1. stack[p] # <<>> /\ e \in 1 .. Len(envs) /\ x \in Name
  BY AtBind
<1>2. p \notin failing
  BY DEF DeclStep, BindNamed, At, Stage, Active
<1>3. ~Fails(p)
  BY <1>2 DEF Fails
<1>5. Store(p, x, v, mut) /\ v.k \in {"lit", "nil"}
  <2>1. CASE DeclStep(p)
    <3>1. Store(p, x, DeclValue(p), mut)
      BY <2>1 DEF DeclStep, DeclValue
    <3>2. v = DeclValue(p) /\ DeclValue(p).k = "lit"
      BY <2>1, StoredValue
    <3> HIDE DEF v, mut, x
    <3> QED BY <3>1, <3>2
  <2>2. CASE ~DeclStep(p)
    <3>1. BindNamed(p) /\ v = NamedValue(p, x)
      BY <2>2
    <3>2. ~Faults(w)
      BY <1>3, <3>1 DEF BindNamed
    <3>3. Store(p, x, NamedValue(p, x), mut)
      BY <3>1, <3>2 DEF BindNamed, NamedValue
    <3>4. NamedValue(p, x).k \in {"lit", "nil"}
      BY <3>1, <3>2, StoredValue
    <3> HIDE DEF v, mut, x, w
    <3> QED BY <3>1, <3>3, <3>4
  <2> QED BY <2>1, <2>2
<1> HIDE DEF x, v, mut
<1>6. PICK c : envs' = [envs EXCEPT ![Top(p).env].bind = WithOne(p, x, c)] /\ StoreOutcome(p, b, v, mut, c)
  BY <1>1, <1>5, StoreResult
<1> HIDE DEF b
<1>7. c = Defined(b, v, mut, FALSE, FALSE)
  BY <1>3, <1>5, <1>6 DEF StoreOutcome
<1>8. c.val = v
  BY <1>5, <1>7 DEF Defined, Callable
<1> DEFINE B == WithOne(p, x, c)
           st == envs[e].st
<1>9. envs' = With(e, B, st)
  <2> HIDE DEF B
  <2>1. envs' = [envs EXCEPT ![Top(p).env].bind = B]
    BY <1>6 DEF B
  <2> QED BY <1>1, <2>1, BindIsWith
<1>10. B[x] = c
  BY <1>1, EnvType DEF WithOne
<1> HIDE DEF B, st, e
<1>11. With(e, B, st)[e].bind = B
  BY <1>1, WithParts
<1>12. envs'[e].bind[x] = c
  BY <1>9, <1>10, <1>11
<1> QED BY <1>5, <1>8, <1>12 DEF Firm, e, x

\* Put pushes the activation of the new module.
LEMMA PutPushes ==
  ASSUME LoadInv, NEW p \in Proc, Put(p)
  PROVE  Len(stack'[p]) = Len(stack[p]) + 1 /\ stack'[p][Len(stack[p]) + 1].env = Len(envs) + 1
<1> DEFINE s == stack[p]
           w == [Top(p) EXCEPT !.stage = "load"]
           new == Activation(Len(envs) + 1, "declare")
           r == Append(Front(s), w)
           S == ActRec \cup {w, new}
<1>1. s # <<>> /\ stack' = [stack EXCEPT ![p] = Append(r, new)]
  BY DEF Put, Stage, Active
<1>2. stack \in [Proc -> Seq(ActRec)] /\ s \in Seq(ActRec)
  BY <1>1, TopFacts DEF Shape
<1>3. stack'[p] = Append(r, new)
  BY <1>1, <1>2
<1>4. new.env = Len(envs) + 1
  BY DEF Activation
<1> HIDE DEF s, w, new
<1>5. s \in Seq(S) /\ w \in S /\ new \in S
  BY <1>2, SeqElements, IsASeq DEF S
<1> HIDE DEF S
<1>6. r \in Seq(S) /\ Len(r) = Len(s)
  BY <1>1, <1>5, ReplaceTop
<1> HIDE DEF r
<1>7. Len(Append(r, new)) = Len(s) + 1 /\ Append(r, new)[Len(s) + 1] = new
  BY <1>5, <1>6, AppendParts
<1> QED BY <1>3, <1>4, <1>7 DEF s

LEMMA SettlesStep ==
  ASSUME LoadInv, FixedInv, Plain(program), PlainInv, Proc = {Main}, NEW p \in Proc, Step(p),
         NEW i \in 1 .. Len(stack'[p])
  PROVE  Settles(envs, stack[p][i])'
<1> DEFINE s == stack[p]
           t == stack'[p]
           m == envs[s[i].env].mod
           e == s[i].env
<1>1. program' = program /\ Becomes(p, s, t, i) /\ Len(t) \in Nat /\ p = Main
  BY StepStack, ProgramStays DEF StackStep, Next
<1>2. Len(s) \in Nat /\ s # <<>> /\ Top(p) = s[Len(s)] /\ Len(s) >= 1
  BY ModKept, TopFacts
<1>3. CASE t[i].stage = "declare"
  BY <1>3 DEF Settles
<1>4. CASE t[i].stage # "declare"
  <2>1. /\ i \in 1 .. Len(s)
        /\ \/ t[i].pc = s[i].pc
           \/ /\ i = Len(s) /\ t[i].pc = s[i].pc + 1
              /\ Current(p).op \in {"decl", "named"} => (DeclStep(p) \/ BindNamed(p)) /\ failing' = failing
    BY <1>1, <1>2, <1>4 DEF Becomes, Moved, SamePlace
  <2>2. /\ s[i] \in ActRec /\ ActOK(envs, p, s[i]) /\ s[i].env \in 0 .. Len(envs) /\ Len(envs) \in Nat
    BY <2>1, InStack
  <2>3. e \in 1 .. Len(envs) /\ s[i].pc \in Nat /\ (s[i].stage = "declare" => s[i].pc = 1)
    BY <1>1, <2>2 DEF ActRec, ActOK
  <2>4. t[i].env = e /\ envs'[e].mod = m /\ m \in Module
    BY <2>1, <2>3, EnvKept, ModKept, ModType
  <2> SUFFICES ASSUME NEW j \in DOMAIN program[m], j < t[i].pc, program[m][j].op \in {"decl", "named"}
               PROVE  Firm(envs'[e].bind[program[m][j].name])
    <3> HIDE DEF m, e
    <3>1. program'[envs'[t[i].env].mod] = program[m] /\ envs'[t[i].env] = envs'[e]
      BY <1>1, <2>4
    <3> HIDE DEF t
    <3> QED BY <3>1 DEF Settles, t
  <2>5. j \in Nat /\ j >= 1 /\ program[m][j].name \in Name
    <3>1. program[m] \in Seq(Stmt)
      BY <2>4 DEF LoadInv, Shape
    <3>2. j \in 1 .. Len(program[m]) /\ program[m][j] \in Stmt /\ Len(program[m]) \in Nat
      BY <3>1, SeqElements
    <3> QED BY <3>2, StmtFields
  <2>6. CASE j < s[i].pc
    <3>1. Settles(envs, s[i]) /\ s[i].stage # "declare"
      BY <1>1, <2>1, <2>3, <2>5, <2>6 DEF PlainInv, PlainAct
    <3>2. Firm(envs[e].bind[program[m][j].name])
      BY <2>6, <3>1 DEF Settles
    <3> QED BY <2>3, <2>5, <3>2, StepFixed DEF Plain, Firm
  <2>7. CASE ~(j < s[i].pc)
    <3>1. j = s[i].pc /\ i = Len(s) /\ (Current(p).op \in {"decl", "named"} => (DeclStep(p) \/ BindNamed(p)) /\ failing' = failing)
      BY <2>1, <2>3, <2>5, <2>7
    <3>2. Top(p) = s[i] /\ Code(p) = program[m]
      <4>1. Top(p) = s[i] /\ Top(p).env # 0
        BY <1>2, <2>3, <3>1
      <4> QED BY <4>1 DEF Code
    <3>3. Current(p) = program[m][j]
      BY <3>1, <3>2 DEF Current
    <3> QED BY <3>1, <3>2, <3>3, StoredFirm
  <2> QED BY <2>6, <2>7
<1> QED BY <1>3, <1>4

\* What an import has loaded is an older environment or a loaded module.
LEMMA GotDown ==
  ASSUME LoadInv, GotInv, Plain(program), PlainInv, Proc = {Main}, NEW p \in Proc, Merge(p),
         NEW n \in Exported(Top(p).got), ~IsGroup(envs[Top(p).got].bind[n])
  PROVE  /\ Top(p).got \in 1 .. Len(envs)
         /\ Down(envs, Top(p).env, Ref(Top(p).got, n))
<1> DEFINE s == stack[p]
           a == Top(p)
           g == a.got
           b == envs[g].bind[n]
           d == Head(a.todo)
<1>1. s # <<>> /\ a.stage = "merge" /\ p = Main
  BY DEF Merge, Stage, Active
<1>2. /\ Len(s) \in Nat /\ Len(s) >= 1 /\ a = s[Len(s)] /\ a \in ActRec /\ ActOK(envs, p, a) /\ Len(envs) \in Nat
  BY <1>1, TopFacts
<1>3. g \in 1 .. Len(envs) /\ a.env \in 1 .. Len(envs) /\ a.todo \in Seq(Module) /\ a.todo # <<>> /\ n \in Name
  <2>1. g \in 0 .. Len(envs) /\ g # 0 /\ a.env \in 0 .. Len(envs) /\ a.env # 0 /\ a.todo \in Seq(Module)
        /\ a.todo # <<>>
    BY <1>1, <1>2 DEF ActOK, ActRec, Loading
  <2> QED BY <1>2, <2>1 DEF Exported
<1>4. d = a.todo[1] /\ 1 \in DOMAIN a.todo
  <2> DEFINE w == a.todo
  <2>1. w \in Seq(Module) /\ Len(w) \in Nat /\ Len(w) >= 1 /\ DOMAIN w = 1 .. Len(w)
    BY <1>3, StackParts, SeqElements
  <2> HIDE DEF w
  <2>2. 1 \in DOMAIN w /\ Head(w) = w[1]
    BY <2>1
  <2> QED BY <2>2 DEF w
<1>5. envs[g].mod = d /\ Wanted(program, envs[a.env].mod, d)
  <2>1. GotOK(envs, s, Len(s)) /\ "merge" \in Loading
    BY <1>2 DEF GotInv, Loading
  <2> QED BY <1>1, <1>2, <1>3, <1>4, <2>1 DEF GotOK
<1>6. g # a.env
  <2>1. envs[a.env].mod \in Module
    BY <1>3, ModType
  <2> QED BY <1>5, <2>1 DEF Plain, NotItself
<1>7. CASE envs[g].st = "run"
  <2>1. PICK i \in 1 .. Len(s) : s[i].env = g
    BY <1>1, <1>3, <1>7 DEF PlainInv
  <2>2. i < Len(s)
    BY <1>2, <1>6, <2>1
  <2>3. Len(s) \in 1 .. Len(s)
    BY <1>2
  <2>4. g < a.env
    BY <1>1, <1>2, <2>1, <2>2, <2>3 DEF PlainInv, PlainAct
  <2> QED BY <1>3, <2>4 DEF Down, Ref
<1>8. CASE envs[g].st # "run"
  <2>1. b.export /\ BindingOK(envs, b, envs[g].st) /\ b \in BindingRec
    BY <1>3, BindType DEF Exported
  <2>2. envs[g].st = "done" => Firm(b)
    BY <1>3, <2>1 DEF PlainInv, PlainEnv
  <2>3. b.val.k # "ref"
    BY <2>1, <2>2 DEF BindingOK, Firm
  <2> QED BY <1>3, <1>8, <2>3 DEF Down, Ref, AtRest
<1> QED BY <1>7, <1>8

LEMMA PlainActStep ==
  ASSUME LoadInv, GotInv, FixedInv, Plain(program), PlainInv, Proc = {Main}, NEW p \in Proc, Step(p),
         NEW i \in 1 .. Len(stack'[p])
  PROVE  PlainAct(i)'
<1> DEFINE s == stack[p]
           t == stack'[p]
<1>1. p = Main /\ Len(t) \in Nat /\ Becomes(p, s, t, i) /\ \A j \in 1 .. Len(t) : Becomes(p, s, t, j)
  BY StepStack DEF StackStep
<1>2. Len(s) \in Nat /\ s # <<>> /\ Top(p) = s[Len(s)] /\ Len(s) >= 1 /\ Len(envs) \in Nat
  BY ModKept, TopFacts
<1>3. Settles(envs, stack[p][i])'
  BY SettlesStep
<1>4. ASSUME NEW n \in Name PROVE Down(envs', t[i].env, t[i].temp[n])
  <2> DEFINE v == t[i].temp[n]
             e == t[i].env
  <2> SUFFICES ASSUME v.k = "ref" PROVE Down(envs', e, v)
    BY DEF Down
  <2>1. /\ i \in 1 .. Len(s) /\ e = s[i].env
        /\ \/ v = s[i].temp[n]
           \/ /\ Merge(p) /\ i = Len(s) /\ n \in Exported(Top(p).got) /\ ~IsGroup(envs[Top(p).got].bind[n])
              /\ v = Ref(Top(p).got, n)
    BY <1>4, NewTemps
  <2>2. Down(envs, e, v) /\ v.env \in 1 .. Len(envs) /\ v.name \in Name
    <3>1. CASE v = s[i].temp[n]
      BY <1>1, <1>4, <2>1, <3>1, TempRef DEF PlainInv, PlainAct
    <3>2. CASE /\ Merge(p) /\ i = Len(s) /\ n \in Exported(Top(p).got) /\ ~IsGroup(envs[Top(p).got].bind[n])
               /\ v = Ref(Top(p).got, n)
      <4>1. Top(p).got \in 1 .. Len(envs) /\ Down(envs, Top(p).env, Ref(Top(p).got, n))
        BY <3>2, GotDown
      <4>2. e = Top(p).env
        BY <1>2, <2>1, <3>2
      <4>3. v.env = Top(p).got /\ v.name = n
        BY <3>2 DEF Ref
      <4> QED BY <1>4, <3>2, <4>1, <4>2, <4>3
    <3> QED BY <2>1, <3>1, <3>2
  <2> HIDE DEF v, e
  <2> QED BY <2>2, DownStays
<1>5. ASSUME NEW j \in 1 .. Len(t), i < j PROVE t[i].env < t[j].env
  <2>1. CASE j <= Len(s)
    <3>1. i \in 1 .. Len(s) /\ j \in 1 .. Len(s) /\ i <= Len(t) /\ j <= Len(t)
      BY <1>1, <1>2, <1>5, <2>1
    <3>2. t[i].env = s[i].env /\ t[j].env = s[j].env
      BY <3>1, EnvKept
    <3>3. s[i].env < s[j].env
      BY <1>1, <1>5, <3>1 DEF PlainInv, PlainAct
    <3> QED BY <3>2, <3>3
  <2>2. CASE ~(j <= Len(s))
    <3>1. Becomes(p, s, t, j) /\ ~(j <= Len(s)) /\ j # Len(s) /\ j # Len(s) - 1
      BY <1>1, <1>2, <1>5, <2>2
    <3>2. j = Len(s) + 1 /\ t[j].env = Len(envs) + 1
      BY <3>1 DEF Becomes
    <3>3. i \in 1 .. Len(s) /\ i <= Len(t)
      BY <1>1, <1>2, <1>5, <3>2
    <3>4. t[i].env = s[i].env /\ s[i].env \in 0 .. Len(envs)
      BY <3>3, EnvKept, InStack
    <3> QED BY <1>2, <3>2, <3>4
  <2> QED BY <2>1, <2>2
<1> QED BY <1>1, <1>3, <1>4, <1>5 DEF PlainAct

\* The environments of modules that are loading are those of the stack.
LEMMA RunStep ==
  ASSUME LoadInv, PlainInv, Proc = {Main}, NEW p \in Proc, Step(p),
         NEW e \in 1 .. Len(envs'), envs'[e].st = "run"
  PROVE  \E i \in 1 .. Len(stack'[p]) : stack'[p][i].env = e
<1> DEFINE s == stack[p]
           t == stack'[p]
<1>1. /\ p = Main /\ Len(t) \in Nat
      /\ Len(t) < Len(s) => /\ Len(t) = Len(s) - 1
                            /\ Top(p).env # 0 => envs'[Top(p).env].st # "run"
  BY StepStack DEF StackStep
<1>2. Len(s) \in Nat /\ s # <<>> /\ Top(p) = s[Len(s)] /\ Len(s) >= 1 /\ Len(envs) \in Nat /\ Len(envs') \in Nat
  BY ModKept, TopFacts
<1>3. CASE e \in 1 .. Len(envs)
  <2>1. envs[e].st = "run"
    BY <1>3, StepChanged DEF ChangedEnv
  <2>2. PICK i \in 1 .. Len(s) : s[i].env = e
    BY <1>1, <1>3, <2>1 DEF PlainInv
  <2>3. CASE i <= Len(t)
    <3>1. i \in 1 .. Len(t)
      BY <1>1, <2>2, <2>3
    <3> QED BY <2>2, <2>3, <3>1, EnvKept
  <2>4. CASE ~(i <= Len(t))
    <3>1. Len(t) < Len(s) /\ i = Len(s)
      BY <1>1, <1>2, <2>2, <2>4
    <3>2. Top(p).env = e /\ e # 0
      BY <1>2, <1>3, <2>2, <3>1
    <3> QED BY <1>1, <3>1, <3>2
  <2> QED BY <2>3, <2>4
<1>4. CASE e \notin 1 .. Len(envs)
  <2>1. e = Len(envs) + 1 /\ Put(p)
    BY <1>2, <1>4, StepLength
  <2>2. Len(s) + 1 \in 1 .. Len(t) /\ t[Len(s) + 1].env = e
    BY <1>2, <2>1, PutPushes
  <2> QED BY <2>2
<1> QED BY <1>3, <1>4

LEMMA PlainInit == Proc = {Main} /\ Init => PlainInv
<1> SUFFICES ASSUME Init PROVE PlainInv
  OBVIOUS
<1> DEFINE a == Activation(1, "exec")
<1>1. Len(envs) = 1 /\ envs[1].bind = Empty /\ Main \in Proc
  BY ModulesAssumption DEF Init
<1>2. stack[Main] = <<a>>
  BY <1>1 DEF Init
<1>3. Len(stack[Main]) = 1 /\ stack[Main][1] = a
  BY <1>2
<1>4. a.env = 1 /\ a.pc = 1 /\ a.temp = NoTemp
  BY DEF Activation
<1> HIDE DEF a
<1>5. \A e \in 1 .. Len(envs) : PlainEnv(e)
  BY <1>1 DEF PlainEnv, Empty, NoBinding, NoValue, IsGroup, Down
<1>6. Settles(envs, a)
  <2> SUFFICES ASSUME NEW j \in DOMAIN program[envs[a.env].mod], j < a.pc PROVE FALSE
    BY DEF Settles
  <2>1. envs[1].mod \in Module /\ program \in [Module -> Seq(Stmt)]
    BY ModulesAssumption DEF Init
  <2>2. j \in Nat /\ j >= 1
    <3>1. program[envs[1].mod] \in Seq(Stmt)
      BY <2>1
    <3>2. j \in 1 .. Len(program[envs[1].mod]) /\ Len(program[envs[1].mod]) \in Nat
      BY <1>4, <3>1, SeqElements
    <3> QED BY <3>2
  <2> QED BY <1>4, <2>2
<1>7. \A n \in Name : Down(envs, a.env, a.temp[n])
  BY <1>4 DEF Down, NoTemp, NoValue
<1>8. \A i \in 1 .. Len(stack[Main]) : PlainAct(i)
  BY <1>3, <1>6, <1>7 DEF PlainAct
<1>9. \A e \in 1 .. Len(envs) : \E i \in 1 .. Len(stack[Main]) : stack[Main][i].env = e
  BY <1>1, <1>3, <1>4
<1> QED BY <1>5, <1>8, <1>9 DEF PlainInv

LEMMA PlainNext ==
  ASSUME LoadInv, GotInv, FixedInv, Plain(program), PlainInv, Proc = {Main}, [Next]_vars
  PROVE  PlainInv'
<1>1. CASE \E p \in Proc : Step(p)
  <2>1. PICK p \in Proc : Step(p)
    BY <1>1
  <2>2. p = Main
    OBVIOUS
  <2>3. \A e \in 1 .. Len(envs') : PlainEnv(e)'
    BY <2>1, PlainEnvStep
  <2>4. \A i \in 1 .. Len(stack'[Main]) : PlainAct(i)'
    BY <2>1, <2>2, PlainActStep
  <2>5. \A e \in 1 .. Len(envs') : envs'[e].st = "run" => \E i \in 1 .. Len(stack'[Main]) : stack'[Main][i].env = e
    BY <2>1, <2>2, RunStep
  <2> QED BY <2>3, <2>4, <2>5 DEF PlainInv
<1>2. CASE UNCHANGED <<program, cache, envs, stack>>
  <2>1. program' = program /\ envs' = envs /\ stack' = stack
    BY <1>2
  <2>2. \A e \in 1 .. Len(envs') : PlainEnv(e)'
    <3> SUFFICES ASSUME NEW e \in 1 .. Len(envs) PROVE PlainEnv(e)'
      BY <2>1
    <3>1. PlainEnv(e)
      BY DEF PlainInv
    <3> QED BY <2>1, <3>1 DEF PlainEnv, Exports, Decls, Down, AtRest, IsGroup, Firm
  <2>3. \A i \in 1 .. Len(stack'[Main]) : PlainAct(i)'
    <3> SUFFICES ASSUME NEW i \in 1 .. Len(stack[Main]) PROVE PlainAct(i)'
      BY <2>1
    <3>1. PlainAct(i)
      BY DEF PlainInv
    <3> QED BY <2>1, <3>1 DEF PlainAct, Settles, Down, AtRest, Firm
  <2> QED BY <2>1, <2>2, <2>3 DEF PlainInv
<1> QED BY <1>1, <1>2 DEF Next, MapRace, Ended, vars

\* In a program of one goroutine whose modules declare values and import each
\* other in any cycle, but none itself: a reference that an import has
\* collected or bound leads to a binding that exists, and resolveValue ends
\* with a value.
THEOREM CyclesResolve ==
  ASSUME Proc = {Main}, \A P \in Programs : Plain(P)
  PROVE  Spec => []RefsResolve
<1>1. Init => PlainInv
  BY PlainInit
<1>2. LoadInv /\ GotInv /\ FixedInv /\ program \in Programs /\ PlainInv /\ [Next]_vars => PlainInv'
  BY PlainNext
<1>3. LoadInv /\ GotInv /\ [Next]_vars => GotInv'
  BY GotNext
<1>4. LoadInv /\ PlainInv => RefsResolve
  BY PlainEnds, EndsResolve
<1>5. LoadInv /\ program \in Programs /\ FixedInv /\ [Next]_vars => FixedInv'
  BY FixedNext DEF Plain
<1> QED BY <1>1, <1>2, <1>3, <1>4, <1>5, GotInit, FixedInit, Loads, ProgramChosen, PTL DEF Spec

==============================================================================
