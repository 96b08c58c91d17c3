------------------------------- MODULE Modules -------------------------------
(***************************************************************************)
(* Loading Slug modules: Runtime.LoadModule and its cache, the two phases  *)
(* of a load (declare, execute), the import builtin, and the binding rules *)
(* of object.Environment that a module's top level relies on.              *)
(*                                                                         *)
(* Goroutine Main runs the main program; the others are tasks of it that   *)
(* import modules.  Each keeps a stack of loads in progress, because an    *)
(* import executes the imported module before it returns.  An environment  *)
(* is made for every evaluation of a module, so that evaluating a module   *)
(* twice gives two of them.                                                *)
(***************************************************************************)
EXTENDS Integers, Sequences, FiniteSets, SequencesExt

CONSTANTS
  Module,     \* module names
  MainModule, \* the module the runner was given
  Name,       \* top-level names
  Proc,       \* goroutines
  Main,       \* the main one
  Programs,   \* the module sources to consider: functions from Module
  Scripts     \* Scripts[p]: the statements of task p

\* Top-level statements.  sig = 0 declares a plain value, sig > 0 a function
\* of that signature; "star" is `val {*} = import(from)`, "named" is
\* `val {name} = import(from)`, "try" an import whose failure is handled.
\* An import has at least one argument, and skips those that it has seen.
Paths == {s \in Seq(Module) : s # <<>> /\ \A i, j \in DOMAIN s : s[i] = s[j] => i = j}
Stmt == [op : {"decl"}, name : Name, sig : Nat, mut : BOOLEAN, export : BOOLEAN]
        \cup [op : {"star"}, from : Paths, mut : BOOLEAN]
        \cup [op : {"named"}, from : Paths, name : Name, mut : BOOLEAN, export : BOOLEAN]
        \cup [op : {"try"}, from : Paths]
        \cup [op : {"use"}, name : Name]
        \cup [op : {"fail"}]

ASSUME ModulesAssumption ==
  /\ MainModule \in Module /\ Main \in Proc
  /\ IsFiniteSet(Name)
  /\ Programs \subseteq [Module -> Seq(Stmt)]
  /\ \A p \in Proc \ {Main} : /\ Scripts[p] \in Seq(Stmt)
                              /\ \A i \in DOMAIN Scripts[p] : Scripts[p][i].op = "try"

VARIABLES
  program, \* the source of each module
  cache,   \* Runtime.Modules: the environment of a cached module, 0 if none
  envs,    \* the environments made, one per evaluation
  stack,   \* per goroutine: its loads in progress, innermost last
  failing, \* goroutines whose innermost load has just failed
  fatal    \* the Go runtime has ended the process for a map race

vars == <<program, cache, envs, stack, failing, fatal>>

----------------------------------------------------------------------------
(* Values and bindings: object.Environment *)

\* An exported non-function is imported as a BindingRef, a function as its
\* FunctionGroup: fns maps signatures to implementations, delegates are the
\* groups (named by environment and name) consulted after fns.
Uninit == [k |-> "uninit"]
Lit(at) == [k |-> "lit", at |-> at]
Fn(sig, at) == [k |-> "fn", sig |-> sig, at |-> at]
Ref(e, n) == [k |-> "ref", env |-> e, name |-> n]
Group(fns, dels) == [k |-> "group", fns |-> fns, delegates |-> dels]
NoValue == [k |-> "none"]
Nil == [k |-> "nil"]

NoBinding == [val |-> NoValue, mut |-> FALSE, export |-> FALSE, import |-> FALSE]
Bound(e, n) == envs[e].bind[n] # NoBinding

\* Function f, and g where f has no value.
Over(f, g) == [x \in DOMAIN f \cup DOMAIN g |-> IF x \in DOMAIN f THEN f[x] ELSE g[x]]

Callable(v) == v.k \in {"fn", "group"}
NewFns(v) == IF v.k = "fn" THEN [sig \in {v.sig} |-> v.at] ELSE v.fns
OldFns(b) == IF b.val.k = "group" THEN b.val.fns ELSE << >>
OldDelegates(b) == IF b.val.k = "group" THEN b.val.delegates ELSE {}

\* Environment.define refuses to redefine a val, except to initialize a
\* predeclared one, to shadow an imported one, or to add an overload.
Immutable(b, v) == /\ b # NoBinding /\ ~b.mut
                   /\ b.val # Uninit /\ ~b.import
                   /\ ~(Callable(v) /\ b.val.k = "group")
Clashes(b, v) == Callable(v) /\ DOMAIN NewFns(v) \cap DOMAIN OldFns(b) # {}

\* Mutant: an overload replaces the one with its signature.
RefusedImmutable(b, v) == Immutable(b, v)

\* Mutant: nothing is immutable.
RefusedClashes(b, v) == Clashes(b, v)

Refused(b, v) == Immutable(b, v) \/ Clashes(b, v)

\* What define leaves behind when it refuses: at a signature that is there
\* already, it has set the flags and may have added some of the others.
Remains(b, v, import) ==
  IF Immutable(b, v) THEN {b}
  ELSE {[b EXCEPT !.export = FALSE, !.import = import,
                  !.val.fns = Over(Restrict(NewFns(v), sigs), @)] :
          sigs \in SUBSET (DOMAIN NewFns(v) \ DOMAIN OldFns(b))}

\* mergeCallableIntoBinding copies the functions of a group, not its delegates.
Defined(b, v, mut, export, import) ==
  [val |-> IF Callable(v) THEN Group(Over(NewFns(v), OldFns(b)), OldDelegates(b)) ELSE v,
   mut |-> IF b = NoBinding THEN mut ELSE b.mut,
   export |-> export, import |-> import]

----------------------------------------------------------------------------
(* Goroutines *)

\* stage: where a load is in LoadModule and in the statement at pc; todo and
\* temp are the modules an import still has to load and its tempMap; got is
\* the environment it loaded last; last is what the last "use" gave.
NoTemp == [n \in Name |-> NoValue]
Activation(e, stage) == [env |-> e, pc |-> 1, stage |-> stage, todo |-> <<>>, temp |-> NoTemp,
                         got |-> 0, last |-> "none"]

Empty == [n \in Name |-> NoBinding]

\* The runner caches the main module itself, and does not predeclare it.
Init ==
  /\ program \in Programs
  /\ cache = [m \in Module |-> IF m = MainModule THEN 1 ELSE 0]
  /\ envs = << [mod |-> MainModule, bind |-> Empty, st |-> "run"] >>
  /\ stack = [p \in Proc |-> << Activation(IF p = Main THEN 1 ELSE 0, "exec") >>]
  /\ failing = {}
  /\ fatal = FALSE

Active(p) == ~fatal /\ p \notin failing /\ stack[p] # <<>>
Top(p) == Last(stack[p])
Stage(p, stage) == Active(p) /\ Top(p).stage = stage
SetTop(p, a) == stack' = [stack EXCEPT ![p] = Append(Front(@), a)]
Code(p) == IF Top(p).env = 0 THEN Scripts[p] ELSE program[envs[Top(p).env].mod]
Current(p) == Code(p)[Top(p).pc]
At(p, op) == Stage(p, "exec") /\ Top(p).pc <= Len(Code(p)) /\ Current(p).op = op
GoOn(a) == [a EXCEPT !.stage = "exec", !.pc = @ + 1, !.temp = NoTemp, !.got = 0]
Binding(p, n) == envs[Top(p).env].bind[n]
SetBinding(p, n, b) == envs' = [envs EXCEPT ![Top(p).env].bind[n] = b]
Fails(p) == failing' = failing \cup {p}

----------------------------------------------------------------------------
(* LoadModule *)

Import(p) ==
  /\ Stage(p, "exec") /\ Top(p).pc <= Len(Code(p))
  /\ Current(p).op \in {"star", "named", "try"}
  /\ SetTop(p, [Top(p) EXCEPT !.stage = "check", !.todo = Current(p).from])
  /\ UNCHANGED <<program, cache, envs, failing, fatal>>

\* Mutant: a module that is not cached is taken for a cached one.
CheckCacheMissing(p) ==
  /\ Stage(p, "check")
  /\ SetTop(p, [Top(p) EXCEPT !.stage = "merge", !.got = cache[Head(Top(p).todo)]])
  /\ UNCHANGED <<program, cache, envs, failing, fatal>>

CheckCache(p) ==
  LET e == cache[Head(Top(p).todo)]
  IN  /\ Stage(p, "check")
      /\ SetTop(p, [Top(p) EXCEPT !.stage = IF e = 0 THEN "put" ELSE "merge", !.got = e])
      /\ UNCHANGED <<program, cache, envs, failing, fatal>>

\* The file is missing, or has syntax or semantic errors.
ReadFails(p) ==
  /\ Stage(p, "put") /\ program[Head(Top(p).todo)] = << [op |-> "fail"] >>
  /\ Fails(p)
  /\ UNCHANGED <<program, cache, envs, stack, fatal>>

\* Mutant: the module is cached when its load ends, not when it begins.
CachedLate(m) == cache

Cached(m) == [cache EXCEPT ![m] = Len(envs) + 1]

\* The module is parsed and cached before anything of it is declared.
Put(p) ==
  LET m == Head(Top(p).todo)
  IN  /\ Stage(p, "put") /\ program[m] # << [op |-> "fail"] >>
      /\ cache' = Cached(m)
      /\ envs' = Append(envs, [mod |-> m, bind |-> Empty, st |-> "run"])
      /\ stack' = [stack EXCEPT ![p] =
           Append(Append(Front(@), [Top(p) EXCEPT !.stage = "load"]),
                  Activation(Len(envs) + 1, "declare"))]
      /\ UNCHANGED <<program, failing, fatal>>

Decls(m, n) == {i \in DOMAIN program[m] :
                  program[m][i].op \in {"decl", "named"} /\ program[m][i].name = n}

\* predeclareTopLevel: the last declaration of a name gives its export flag,
\* the first one its mutability.
Predeclared(m, n) ==
  IF Decls(m, n) = {} THEN NoBinding
  ELSE [val |-> Uninit, import |-> FALSE,
        mut |-> program[m][CHOOSE i \in Decls(m, n) : \A j \in Decls(m, n) : i <= j].mut,
        export |-> program[m][CHOOSE i \in Decls(m, n) : \A j \in Decls(m, n) : i >= j].export]

Declare(p) ==
  LET e == Top(p).env
  IN  /\ Stage(p, "declare")
      /\ envs' = [envs EXCEPT ![e].bind = [n \in Name |-> Predeclared(envs[e].mod, n)]]
      /\ SetTop(p, [Top(p) EXCEPT !.stage = "exec"])
      /\ UNCHANGED <<program, cache, failing, fatal>>

Exports(m) == {n \in Name : \E i \in Decls(m, n) : program[m][i].export}

\* Mutant: the export flags that executing the declarations cleared stay so.
NotReexported(e) == envs[e].bind

\* applyTopLevelExportMetadata
Reexported(e) == [n \in Name |-> IF n \in Exports(envs[e].mod) /\ Bound(e, n)
                                 THEN [envs[e].bind[n] EXCEPT !.export = TRUE]
                                 ELSE envs[e].bind[n]]

\* The end of a load, of the main program or of a task.
Finish(p) ==
  LET a == Top(p)
      rest == Front(stack[p])
  IN  /\ Stage(p, "exec") /\ a.pc > Len(Code(p))
      /\ IF rest = <<>>
         THEN /\ stack' = [stack EXCEPT ![p] = <<>>]
              /\ envs' = IF a.env = 0 THEN envs ELSE [envs EXCEPT ![a.env].st = "done"]
         ELSE /\ stack' = [stack EXCEPT ![p] =
                   Append(Front(rest), [Last(rest) EXCEPT !.stage = "merge", !.got = a.env])]
              /\ envs' = [envs EXCEPT ![a.env].st = "done", ![a.env].bind = Reexported(a.env)]
      /\ UNCHANGED <<program, cache, failing, fatal>>

\* The innermost load fails: LoadModule returns an error, which the import
\* raises, unless it is handled there; the module stays cached.
Unwind(p) ==
  LET a == Top(p)
      rest == Front(stack[p])
      handled == /\ a.pc <= Len(Code(p)) /\ a.stage # "exec"
                 /\ Current(p).op = "try"
  IN  /\ ~fatal /\ p \in failing
      /\ IF handled
         THEN /\ SetTop(p, GoOn(a))
              /\ failing' = failing \ {p}
              /\ UNCHANGED envs
         ELSE /\ stack' = [stack EXCEPT ![p] = rest]
              /\ envs' = IF a.env = 0 THEN envs ELSE [envs EXCEPT ![a.env].st = "failed"]
              /\ failing' = IF rest = <<>> THEN failing \ {p} ELSE failing
      /\ UNCHANGED <<program, cache, fatal>>

----------------------------------------------------------------------------
(* The import builtin *)

IsGroup(b) == b.val.k = "group"
Exported(e) == {n \in Name : envs[e].bind[n].export}

\* Mutant: a reference to the importer's own binding.
ToImporter(p, n) == Ref(Top(p).env, n)

ToExporter(p, n) == Ref(Top(p).got, n)

\* What tempMap gets for name n of the module just loaded: the group itself
\* or a live reference, unless an earlier module exported n.
Merged(p, n) ==
  LET e == Top(p).got
      old == Top(p).temp[n]
  IN  IF n \notin Exported(e) \/ old # NoValue THEN old
      ELSE IF IsGroup(envs[e].bind[n]) THEN [k |-> "group", env |-> e, name |-> n]
      ELSE ToExporter(p, n)

\* A second function of the same name becomes a delegate of the first.
Extended(b, e, n) == [b EXCEPT !.val.delegates = @ \cup {<<e, n>>}]
Delegated(p) ==
  LET e == Top(p).got
      temp == Top(p).temp
      Meets(d, n) == /\ n \in Exported(e) /\ IsGroup(envs[e].bind[n])
                     /\ temp[n].k = "group" /\ temp[n].env = d
  IN  [d \in DOMAIN envs |->
        [envs[d] EXCEPT !.bind = [n \in Name |->
           IF Meets(d, n) THEN Extended(envs[d].bind[n], e, n) ELSE envs[d].bind[n]]]]

Merge(p) ==
  LET a == Top(p)
  IN  /\ Stage(p, "merge")
      /\ SetTop(p, [a EXCEPT !.temp = [n \in Name |-> Merged(p, n)],
                             !.todo = Tail(@), !.got = 0,
                             !.stage = IF Len(a.todo) = 1 THEN "bind" ELSE "check"])
      /\ envs' = Delegated(p)
      /\ UNCHANGED <<program, cache, failing, fatal>>

\* The values of the map that import returns.
MapValue(v) == IF v.k = "group" THEN envs[v.env].bind[v.name].val ELSE v

----------------------------------------------------------------------------
(* Statements *)

\* OpBindMapAll: binding stops at the first name that is refused, after any
\* of the others.
BindStar(p) ==
  LET e == Top(p).env
      stmt == Current(p)
      v == [n \in Name |-> MapValue(Top(p).temp[n])]
      names == {n \in Name : v[n] # NoValue}
      refused == {n \in names : Refused(Binding(p, n), v[n])}
      AllBound(some) == [n \in Name |->
        IF n \in some THEN Defined(Binding(p, n), v[n], stmt.mut, FALSE, TRUE)
        ELSE Binding(p, n)]
  IN  /\ Stage(p, "bind") /\ stmt.op = "star"
      /\ IF refused = {}
         THEN /\ envs' = [envs EXCEPT ![e].bind = AllBound(names)]
              /\ SetTop(p, GoOn(Top(p)))
              /\ UNCHANGED failing
         ELSE /\ \E n \in refused, some \in SUBSET (names \ refused) :
                   \E b \in Remains(Binding(p, n), v[n], TRUE) :
                     envs' = [envs EXCEPT ![e].bind = [AllBound(some) EXCEPT ![n] = b]]
              /\ Fails(p)
              /\ UNCHANGED stack
      /\ UNCHANGED <<program, cache, fatal>>

IgnoreImport(p) ==
  /\ Stage(p, "bind") /\ Current(p).op = "try"
  /\ SetTop(p, GoOn(Top(p)))
  /\ UNCHANGED <<program, cache, envs, failing, fatal>>

\* resolveValue follows references; a chain that is longer than the number of
\* bindings never ends.
Hops == Len(envs) * Cardinality(Name)
Resolve(v) ==
  LET chain[i \in 0 .. Hops] ==
        IF i = 0 THEN v
        ELSE LET w == chain[i - 1]
             IN  IF w.k = "ref" THEN envs[w.env].bind[w.name].val ELSE w
  IN  chain[Hops]

\* A reference that leads to an uninitialized binding raises an error; a plain
\* uninitialized value is passed on.
Faults(v) == v.k = "ref" /\ Resolve(v) = Uninit

\* OpSetGlobalConst and OpSetGlobalVar: a function joins an existing group,
\* whatever it holds; anything else is defined, without the export flag.
Store(p, n, v, mut) ==
  LET b == Binding(p, n)
      overload == v.k = "fn" /\ IsGroup(b)
  IN  IF ~overload /\ Refused(b, v)
      THEN /\ \E left \in Remains(b, v, FALSE) : SetBinding(p, n, left)
           /\ Fails(p)
           /\ UNCHANGED stack
      ELSE /\ SetBinding(p, n, IF overload
                               THEN [b EXCEPT !.val.fns = Over(NewFns(v), @)]
                               ELSE Defined(b, v, mut, FALSE, FALSE))
           /\ SetTop(p, GoOn(Top(p)))
           /\ UNCHANGED failing

DeclStep(p) ==
  LET stmt == Current(p)
      at == <<Top(p).env, Top(p).pc>>
  IN  /\ At(p, "decl")
      /\ Store(p, stmt.name, IF stmt.sig = 0 THEN Lit(at) ELSE Fn(stmt.sig, at), stmt.mut)
      /\ UNCHANGED <<program, cache, fatal>>

\* `val {name} = import(...)` indexes the map, which resolves the reference.
BindNamed(p) ==
  LET stmt == Current(p)
      v == MapValue(Top(p).temp[stmt.name])
  IN  /\ Stage(p, "bind") /\ stmt.op = "named"
      /\ IF Faults(v)
         THEN Fails(p) /\ UNCHANGED <<envs, stack>>
         ELSE Store(p, stmt.name, IF v = NoValue THEN Nil ELSE Resolve(v), stmt.mut)
      /\ UNCHANGED <<program, cache, fatal>>

\* OpGetGlobal.
Use(p) ==
  LET n == Current(p).name
      v == Binding(p, n).val
  IN  /\ At(p, "use")
      /\ IF v = NoValue \/ Faults(v)
         THEN Fails(p) /\ SetTop(p, [Top(p) EXCEPT !.last = IF v = NoValue THEN "notFound" ELSE "early"])
         ELSE /\ SetTop(p, IF Resolve(v).k = "ref" THEN [Top(p) EXCEPT !.stage = "spin"]
                           ELSE [GoOn(Top(p)) EXCEPT !.last = Resolve(v).k])
              /\ UNCHANGED failing
      /\ UNCHANGED <<program, cache, envs, fatal>>

FailStep(p) == /\ At(p, "fail")
               /\ Fails(p)
               /\ UNCHANGED <<program, cache, envs, stack, fatal>>

\* Runtime.Modules and, during an import, Environment.Bindings are Go maps
\* used without a lock: the Go runtime may stop the process when one goroutine
\* writes such a map while another uses it.
WritesCache(p) == Stage(p, "put")
UsesCache(p) == Stage(p, "check") \/ Stage(p, "put")
WritesEnv(p, e) == /\ Active(p) /\ Top(p).env = e
                   /\ \/ Stage(p, "declare") \/ Stage(p, "bind")
                      \/ At(p, "decl")
MapRace(p, q) ==
  /\ p # q
  /\ \/ WritesCache(p) /\ UsesCache(q)
     \/ Stage(q, "merge") /\ WritesEnv(p, Top(q).got)
  /\ fatal' = TRUE
  /\ UNCHANGED <<program, cache, envs, stack, failing>>

Step(p) == \/ Import(p) \/ CheckCache(p) \/ ReadFails(p) \/ Put(p) \/ Declare(p)
           \/ Finish(p) \/ Unwind(p) \/ Merge(p) \/ BindStar(p) \/ IgnoreImport(p)
           \/ DeclStep(p) \/ BindNamed(p) \/ Use(p) \/ FailStep(p)

\* Nothing goes on: resolveValue never leaves a cycle of references.
Ended == /\ fatal \/ \A p \in Proc : stack[p] = <<>> \/ Stage(p, "spin")
         /\ UNCHANGED vars

Next == \/ \E p \in Proc : Step(p)
        \/ \E p, q \in Proc : MapRace(p, q)
        \/ Ended

Spec == Init /\ [][Next]_vars

\* The scheduler runs every goroutine that can run.
LiveSpec == Spec /\ \A p \in Proc : WF_vars(Step(p))

----------------------------------------------------------------------------
(* Properties *)

\* The state has the shape of the runtime's maps and of LoadModule's locals.
TypeOK ==
  /\ cache \in [Module -> 0 .. Len(envs)]
  /\ \A e \in DOMAIN envs : /\ envs[e].mod \in Module
                            /\ envs[e].st \in {"run", "done", "failed"}
                            /\ DOMAIN envs[e].bind = Name
  /\ \A p \in Proc : \A i \in DOMAIN stack[p] :
       LET a == stack[p][i]
       IN  /\ a.env \in 0 .. Len(envs) /\ a.got \in 0 .. Len(envs)
           /\ a.stage = "load" => i < Len(stack[p]) \/ p \in failing
           /\ a.stage = "merge" => a.got # 0 /\ a.todo # <<>>
  /\ failing \subseteq Proc
  /\ fatal \in BOOLEAN

\* SLUG.ai: "a module's top-level statements execute at most once per
\* process", whatever the imports' cycles and failures.
AtMostOnce == \A d, e \in DOMAIN envs : envs[d].mod = envs[e].mod => d = e

\* A module that loaded without error exports, with a value, every name it
\* declares as exported.
ExportsComplete ==
  \A e \in DOMAIN envs : envs[e].st = "done" /\ e # 1 =>
    \A n \in Exports(envs[e].mod) :
      /\ envs[e].bind[n].export
      /\ envs[e].bind[n].val \notin {NoValue, Uninit}

Refs == {envs[e].bind[n].val : e \in DOMAIN envs, n \in Name}
        \cup UNION {{stack[p][i].temp[n] : n \in Name, i \in DOMAIN stack[p]} : p \in Proc}

\* A live reference leads to a binding that exists, and following references
\* from there always ends, in the programs of AllPrograms; of a module that
\* imports itself, and of three modules in a cycle, see the end of MCModules.
RefsResolve == \A v \in Refs : v.k = "ref" => Bound(v.env, v.name) /\ Resolve(v).k # "ref"

\* ADR-017, 5: "Local declarations override imported names": what a module
\* declared is not replaced by a later import.
LocalsWin ==
  [][\A e \in DOMAIN envs : \A n \in Name :
       envs[e].bind[n].val.k = "lit" => ~envs'[e].bind[n].import]_vars

\* ADR-030: "Do not overwrite an existing implementation for the same
\* signature": an import adds overloads and replaces none.
ImportsAddOverloads ==
  [][\A p \in Proc : Stage(p, "bind") /\ Top(p).env # 0 =>
       \A n \in Name :
         LET old == envs[Top(p).env].bind[n]
             new == envs'[Top(p).env].bind[n]
         IN  IsGroup(old) /\ IsGroup(new) =>
               Restrict(new.val.fns, DOMAIN old.val.fns) = old.val.fns]_vars

\* Every goroutine comes to an end.
Terminates == <>(fatal \/ \A p \in Proc : stack[p] = <<>>)

----------------------------------------------------------------------------
(* What the documents say, where the code does otherwise *)

\* ADR-017: "without introducing spooky partial modules".
\* An import takes the exports of a module that is still being loaded only
\* when it is itself part of that load: in a cycle.
PartialOnlyInCycle ==
  \A p \in Proc : \A i \in DOMAIN stack[p] :
    LET a == stack[p][i]
    IN  a.stage = "merge" /\ envs[a.got].st = "run" =>
          \E j \in DOMAIN stack[p] : stack[p][j].env = a.got

\* ADR-017: "Half-loaded module" bugs become "used before initialization"
\* errors: an exported name is never simply not found.
ExportsAreSeen ==
  \A p \in Proc : \A i \in DOMAIN stack[p] :
    LET a == stack[p][i]
    IN  a.stage = "merge" /\ a.got # 1 /\ envs[a.got].st = "run"
        /\ (\E n \in Name : Bound(a.got, n))
        => Exports(envs[a.got].mod) \subseteq Exported(a.got)

\* ADR-017, 2: "Accessing a binding whose current value is
\* BINDING_UNINITIALIZED raises a targeted runtime error".
UninitNeverRead == \A p \in Proc : \A i \in DOMAIN stack[p] : stack[p][i].last # "uninit"

\* ADR-017, 6: the function groups of several modules "merge their signatures
\* into the imported view".
ViewIsMerged ==
  [][\A p \in Proc :
       (Stage(p, "bind") /\ Current(p).op = "star" /\ p \notin failing') =>
         \A n \in Name : Top(p).temp[n].k = "group" =>
           LET v == MapValue(Top(p).temp[n])
               new == envs'[Top(p).env].bind[n].val
           IN  \A d \in v.delegates :
                 DOMAIN envs[d[1]].bind[d[2]].val.fns \subseteq
                   UNION ({DOMAIN new.fns} \cup {DOMAIN envs[c[1]].bind[c[2]].val.fns : c \in new.delegates})]_vars

\* SLUG.ai: "All runtime values are immutable": importing functions from a
\* module does not change what that module's own functions are.
ImportLeavesExporter ==
  [][\A p \in Proc : Stage(p, "merge") =>
       \A e \in DOMAIN envs : envs[e].bind = envs'[e].bind]_vars

\* ADR-030: "Do not overwrite an existing implementation for the same
\* signature".
OverloadsAreKept ==
  [][\A e \in DOMAIN envs : \A n \in Name :
       IsGroup(envs[e].bind[n]) /\ IsGroup(envs'[e].bind[n]) =>
         \A s \in DOMAIN envs[e].bind[n].val.fns :
           envs'[e].bind[n].val.fns[s] = envs[e].bind[n].val.fns[s]]_vars
=============================================================================
