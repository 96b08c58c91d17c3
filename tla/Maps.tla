-------------------------------- MODULE Maps --------------------------------
(***************************************************************************)
(* Map objects (internal/object/object.go) in the hands of several tasks.  *)
(* A map literal leaves a Go map in Pairs; the first use of the object,    *)
(* whichever it is, turns it into a trie (ensureStorage), in steps that no *)
(* lock protects.  put and remove work on a clone that shares the trie.    *)
(***************************************************************************)
EXTENDS Hamt

CONSTANTS
  Object, Task, Val, Nothing,
  Literals,    \* the literals of the program: functions from keys to values
  Overlap      \* may a task use a map whose first use is still going on?

ASSUME LiteralsAssumption ==
  \A m \in Literals : DOMAIN m \subseteq Key /\ IsFiniteSet(DOMAIN m) /\ m \in [DOMAIN m -> Val]
ASSUME OverlapAssumption == Overlap \in BOOLEAN

VARIABLES
  objs,     \* the map objects: pairs and storage, each <<>> for nil, and
            \* torn while the two words of storage are being written
  at,       \* where a task is in ensureStorage
  answer    \* the last answer a task was given, and which task
vars == <<objs, at, answer>>

Idle == [pc |-> "idle"]
Crashed == [pc |-> "crashed"]
\* What a task asks of map o: the key, and the value for put.
Calls ==
  [op : {"get", "remove"}, key : Key, val : {Nothing}] \cup [op : {"put"}, key : Key, val : Val]
    \cup [op : {"len"}, key : {Nothing}, val : {Nothing}]

Init == /\ objs = <<>>
        /\ at = [t \in Task |-> Idle]
        /\ answer = <<>>

Stored(st) == [pairs |-> <<>>, storage |-> <<st>>, torn |-> FALSE]
Create(o, m) == o \notin DOMAIN objs /\ objs' = With(objs, o, m)

\* OpHash: the literal m.
Literal(o) ==
  /\ \E m \in Literals : Create(o, [pairs |-> <<m>>, storage |-> <<>>, torn |-> FALSE])
  /\ UNCHANGED <<at, answer>>

\* Nobody refers to the object any more.
InUse == {at[t].o : t \in {u \in Task : at[u].pc \notin {"idle", "crashed"}}}
Drop(o) ==
  /\ o \notin InUse
  /\ objs' = [x \in DOMAIN objs \ {o} |-> objs[x]]
  /\ UNCHANGED <<at, answer>>

-----------------------------------------------------------------------------
(* Operations, once they have the storage.  The trie never changes and a   *)
(* new object is not shared yet, so that this is one step.                 *)

Answer(t, a) == answer' = <<t, a>> /\ UNCHANGED objs
GetPair(t, st, c) ==
  LET pairs == get(st, c.key) IN Answer(t, IF c.key \in DOMAIN pairs THEN pairs[c.key] ELSE Nothing)
Length(t, st) == Answer(t, st.size)
\* fnStdPut and fnStdRemove: Clone, then PutPair or DeleteKey.
PutPair(st, c) == \E d \in Object : Create(d, Stored(put(st, c.key, c.val))) /\ UNCHANGED answer
DeleteKey(st, c) == \E d \in Object : Create(d, Stored(del(st, c.key))) /\ UNCHANGED answer
Apply(t, st, c) ==
  \/ c.op = "get" /\ GetPair(t, st, c)
  \/ c.op = "len" /\ Length(t, st)
  \/ c.op = "put" /\ PutPair(st, c)
  \/ c.op = "remove" /\ DeleteKey(st, c)

-----------------------------------------------------------------------------
(* ensureStorage                                                           *)

Goes(t, pc) == at' = [at EXCEPT ![t].pc = pc]

\* The storage is there.
Use(t, o) ==
  /\ at[t] = Idle /\ objs[o].storage # <<>>
  /\ \E c \in Calls : Apply(t, objs[o].storage[1], c)
  /\ UNCHANGED at

\* The storage is nil.  While another task writes the two words of the field,
\* this one may see the first without the second, and follows a nil pointer.
\* What the task wants of the map matters when it has the storage (Return).
Begin(t, o) ==
  /\ at[t] = Idle /\ objs[o].storage = <<>>
  /\ Overlap \/ o \notin InUse
  /\ \E next \in {[pc |-> "convert", o |-> o, st |-> EmptyStorage, left |-> <<>>]}
                   \cup (IF objs[o].torn THEN {Crashed} ELSE {}) :
       at' = [at EXCEPT ![t] = next]
  /\ UNCHANGED <<objs, answer>>

\* Pairs is read once, and what it refers to is put into the new storage pair
\* by pair, in whatever order Go walks it.
Convert(t) ==
  /\ at[t].pc = "convert"
  /\ LET pairs == objs[at[t].o].pairs
     IN  at' = [at EXCEPT ![t].pc = "fill",
                          ![t].left = IF pairs = <<>> THEN <<>> ELSE pairs[1]]
  /\ UNCHANGED <<objs, answer>>
Fill(t) ==
  /\ at[t].pc = "fill"
  /\ \E k \in DOMAIN at[t].left :
       at' = [at EXCEPT ![t].st = put(at[t].st, k, at[t].left[k]),
                        ![t].left = Without(at[t].left, k)]
  /\ UNCHANGED <<objs, answer>>
Tear(t) ==
  /\ at[t].pc = "fill" /\ at[t].left = <<>>
  /\ objs' = [objs EXCEPT ![at[t].o].torn = TRUE]
  /\ Goes(t, "store") /\ UNCHANGED answer
Store(t) ==
  /\ at[t].pc = "store"
  /\ objs' = [objs EXCEPT ![at[t].o].storage = <<at[t].st>>, ![at[t].o].torn = FALSE]
  /\ Goes(t, "clear") /\ UNCHANGED answer
Clear(t) ==
  /\ at[t].pc = "clear"
  /\ objs' = [objs EXCEPT ![at[t].o].pairs = <<>>]
  /\ Goes(t, "return") /\ UNCHANGED answer
\* return m.storage, as it is now.
Return(t) ==
  /\ at[t].pc = "return"
  /\ \E c \in Calls : Apply(t, objs[at[t].o].storage[1], c)
  /\ at' = [at EXCEPT ![t] = Idle]

Next ==
  \/ \E o \in Object : Literal(o)
  \/ \E o \in DOMAIN objs : Drop(o)
  \/ \E t \in Task : Convert(t) \/ Fill(t) \/ Tear(t) \/ Store(t) \/ Clear(t) \/ Return(t)
  \/ \E t \in Task, o \in DOMAIN objs : Use(t, o) \/ Begin(t, o)

Spec == Init /\ [][Next]_vars

-----------------------------------------------------------------------------
(* Properties                                                              *)

\* What an object holds.
Listed(st) ==
  LET all == forEach(st) IN [k \in {e[1] : e \in all} |-> (CHOOSE e \in all : e[1] = k)[2]]
Content(m) == CASE m.storage # <<>> -> Listed(m.storage[1])
                [] m.storage = <<>> /\ m.pairs # <<>> -> m.pairs[1]
                [] OTHER -> <<>>
Contents == [o \in DOMAIN objs |-> Content(objs[o])]

\* A trie is what hamtGet, hamtDelete and len rely on: every pair is on the
\* way of its key's hash and there is one for a key, no bucket is empty and
\* none has another below it, one that is too full has keys of one hash, and
\* the size is the number of pairs (hamt.go, hamtInsert and hamtDelete).
WellFormed ==
  \A o \in DOMAIN objs : objs[o].storage # <<>> =>
    LET st == objs[o].storage[1] IN
    /\ \A p \in DOMAIN st.root : LET keys == DOMAIN st.root[p] IN
         /\ keys # {} /\ ~IsBranch(st.root, p)
         /\ \A k \in keys : p = Upto(k, Len(p))
         /\ Cardinality(keys) > BucketSize => \A k, x \in keys : Hash[k] = Hash[x]
    /\ st.size = Cardinality(forEach(st)) /\ st.size = Cardinality(DOMAIN Listed(st))

\* Maps keep what PersistentMap promises: the first use of a literal changes
\* nothing anybody can see, a put or remove leaves the map it started from
\* and all that share its trie alone, and every answer is the right one
\* (object.go, ensureStorage and Clone; hamt.go).
Promised == INSTANCE PersistentMap WITH contents <- Contents
ImplementsMap == Promised!Spec

\* SLUG.ai, law immutability: "All runtime values are immutable; any 'change'
\* produces a new value."  An object keeps its content as long as it is there.
ValuesImmutable ==
  [][\A o \in DOMAIN objs \cap DOMAIN objs' : Contents'[o] = Contents[o]]_vars
=============================================================================
