---------------------------- MODULE Environments ----------------------------
(***************************************************************************)
(* Environments and the function groups they bind                          *)
(* (internal/object/environment.go and the overload merging of             *)
(* internal/vm/executor.go).                                               *)
(*                                                                         *)
(* A heap h has the environments, each [outer, vars], and the groups, each *)
(* a sequence of members [sig, fn]; groups are shared by reference, so a   *)
(* group value holds its index.  An operation gives [h, err], err = ""     *)
(* when it succeeds.                                                       *)
(***************************************************************************)
EXTENDS Calls

NoVars == [x \in {} |-> Nil]
EmptyHeap == [envs |-> <<[outer |-> 0, vars |-> NoVars]>>, groups |-> <<>>]
Ok(h) == [h |-> h, err |-> ""]
Bad(h, err) == [h |-> h, err |-> err]

\* NewEnclosedEnvironment: the heap with one more environment, the last.
Enclosed(h, outer) == [h EXCEPT !.envs = Append(@, [outer |-> outer, vars |-> NoVars])]
Newest(h) == Len(h.envs)

\* The environment that binds name, from env outwards; 0 when none does.
RECURSIVE Holder(_, _, _)
Holder(h, env, name) ==
  CASE env = 0 -> 0
    [] name \in DOMAIN h.envs[env].vars -> env
    [] OTHER -> Holder(h, h.envs[env].outer, name)
Has(h, env, name) == Holder(h, env, name) # 0
GetBinding(h, env, name) == h.envs[Holder(h, env, name)].vars[name]
Get(h, env, name) == GetBinding(h, env, name).v

Binding(v, mut, import) == [v |-> v, mut |-> mut, import |-> import]
SetVar(h, env, name, b) == [h EXCEPT !.envs[env].vars = (name :> b) @@ @]

-----------------------------------------------------------------------------
(* Function groups                                                         *)

isCallableObject(v) == v.k \in {"fn", "foreign", "fg"}
Member(fn) == [sig |-> signatureOf(ParamsOf(fn)), fn |-> fn]
GroupV(i) == [Val("fg") EXCEPT !.n = i]
HasSig(members, sig) == \E i \in DOMAIN members : members[i].sig = sig
WithMember(members, m) ==
  IF HasSig(members, m.sig)
  THEN [i \in DOMAIN members |-> IF members[i].sig = m.sig THEN m ELSE members[i]]
  ELSE Append(members, m)
MembersOf(h, v) == IF v.k = "fg" THEN h.groups[v.n] ELSE <<Member(v)>>

\* mergeFunctionOverload: a declaration meets a visible callable.  The
\* group, or the group made of the two functions, gets the new member; one
\* with the same signature is replaced.  Only a function merges.
MergesWith(existing, added) == added.k \in {"fn", "foreign"} /\ isCallableObject(existing)
mergeFunctionOverload(h, existing, added) ==
  IF existing.k = "fg"
  THEN [h |-> [h EXCEPT !.groups[existing.n] = WithMember(@, Member(added))], v |-> existing]
  ELSE [h |-> [h EXCEPT !.groups = Append(@, WithMember(<<Member(existing)>>, Member(added)))],
        v |-> GroupV(Len(h.groups) + 1)]

\* mergeCallableIntoBinding: the binding's value becomes a group with the
\* callable's functions; a signature it has already is an error.
mergeCallableIntoBinding(h, old, v) ==
  LET kept == IF old.k = "fg" THEN h.groups[old.n] ELSE <<>>
      new == MembersOf(h, v)
      clash == \E i \in DOMAIN new : HasSig(kept, new[i].sig)
      h1 == IF old.k = "fg" THEN [h EXCEPT !.groups[old.n] = kept \o new]
            ELSE [h EXCEPT !.groups = Append(@, new)]
  IN  [h |-> h1, v |-> IF old.k = "fg" THEN old ELSE GroupV(Len(h.groups) + 1),
       err |-> IF clash THEN "duplicate overload" ELSE ""]

-----------------------------------------------------------------------------
(* Definition and assignment                                               *)

\* A val is not redefined, except an imported one or by another overload.
define(h, env, name, v, mut, import) ==
  LET vars == h.envs[env].vars
      exists == name \in DOMAIN vars
      old == IF exists THEN vars[name] ELSE Binding(Nil, mut, import)
      refused == /\ exists /\ ~old.mut /\ ~old.import
                 /\ ~(isCallableObject(v) /\ old.v.k = "fg")
      with(m) == IF m.err # "" THEN Bad(h, m.err)
                 ELSE Ok(SetVar(m.h, env, name, Binding(m.v, old.mut, import)))
  IN  CASE refused -> Bad(h, "redefined")
        [] isCallableObject(v) -> with(mergeCallableIntoBinding(h, old.v, v))
        [] OTHER -> Ok(SetVar(h, env, name, Binding(v, old.mut, import)))

\* Assigning a function adds it to the group of the variable (and replaces
\* the member with its signature); any other value replaces the old one.
assign(h, env, name, v) ==
  LET e == Holder(h, env, name)
      old == GetBinding(h, env, name)
      members == IF old.v.k = "fg" THEN h.groups[old.v.n] ELSE <<>>
      g == IF old.v.k = "fg" THEN old.v.n ELSE Len(h.groups) + 1
      h1 == IF old.v.k = "fg" THEN [h EXCEPT !.groups[g] = WithMember(members, Member(v))]
            ELSE [h EXCEPT !.groups = Append(@, <<Member(v)>>)]
  IN  CASE e = 0 -> Bad(h, "undefined")
        [] ~old.mut -> Bad(h, "immutable")
        [] v.k \in {"fn", "foreign"} -> Ok(SetVar(h1, e, name, Binding(GroupV(g), TRUE, FALSE)))
        [] OTHER -> Ok(SetVar(h, e, name, Binding(v, TRUE, FALSE)))

\* OpSetGlobalConst and OpSetGlobalVar.  A function joins the callable that
\* is visible under its name in any scope; else it is defined here.
Named1(v, name) == IF v.k = "schema" /\ v.name = "" THEN [v EXCEPT !.name = name] ELSE v
setGlobal(h, env, name, v, mut) ==
  LET e == Holder(h, env, name)
      joined(m) == [h |-> [m.h EXCEPT !.envs[e].vars[name].v = m.v], err |-> "", v |-> m.v]
      alone(d, val) == [h |-> d.h, err |-> d.err, v |-> val]
  IN  IF e # 0 /\ MergesWith(Get(h, env, name), v)
      THEN joined(mergeFunctionOverload(h, Get(h, env, name), v))
      ELSE alone(define(h, env, name, Named1(v, name), mut, FALSE), Named1(v, name))
=============================================================================
