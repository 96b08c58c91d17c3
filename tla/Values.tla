------------------------------- MODULE Values -------------------------------
(***************************************************************************)
(* What the operators of the bytecode do to values: arithmetic, equality,  *)
(* indexing, slices, sequences and structs (the value level of             *)
(* internal/vm/executor.go).  A result is a value or an error value, whose *)
(* name is the kind of the error; messages are left out.  The arithmetic   *)
(* of numbers is module Dec64's.                                           *)
(***************************************************************************)
EXTENDS RuntimeTypes, Dec64Bits, TLC

Nil == Val("nil")
NumV(n) == [Val("num") EXCEPT !.n = n]      \* a whole number
\* A number has its coefficient in n and an exponent other than 0 in x.
DecV(d) == [NumV(d.coef) EXCEPT !.x = SelectSeq(<<d.exp>>, LAMBDA e : e # 0)]
DecOf(v) == [coef |-> v.n, exp |-> IF v.x = <<>> THEN 0 ELSE v.x[1]]
IntOf(v) == ToInt64(DecOf(v))
BoolV(b) == [Val("bool") EXCEPT !.n = IF b THEN 1 ELSE 0]
StrV(s) == [Val("str") EXCEPT !.name = s]
SymV(s) == [Val("sym") EXCEPT !.name = s]
BytesV(bs) == [Val("bytes") EXCEPT !.sub = [i \in DOMAIN bs |-> NumV(bs[i])]]
Err(kind) == [Val("error") EXCEPT !.name = kind]
IsErr(v) == v.k = "error"
isTruthy(v) == v # BoolV(FALSE) /\ v # Nil

\* String: digits, with zeros or a point where the exponent asks for them.
\* The scientific form needs an exponent of 16.
String(d) ==
  LET zeros(n) == [i \in 1..n |-> "0"]
      digits == ToString(abs64(d.coef))
      text(s) == FoldLeft(LAMBDA acc, c : acc \o c, "", s)
      padded == text(zeros(1 - d.exp - Len(digits))) \o digits
      point == Len(padded) + d.exp
      shown == IF d.exp >= 0 THEN digits \o text(zeros(d.exp))
               ELSE SubSeq(padded, 1, point) \o "." \o SubSeq(padded, point + 1, Len(padded))
  IN  CASE IsNaN(d) -> "NaN" [] d.coef = 0 -> "0" [] OTHER -> (IF d.coef < 0 THEN "-" ELSE "") \o shown

\* The text of a value where + joins it to a string.
Inspect(v) ==
  CASE v.k \in {"str", "sym"} -> v.name
    [] v.k = "num" -> String(DecOf(v))
    [] v.k = "bool" -> IF v.n = 1 THEN "true" ELSE "false"
    [] OTHER -> v.k

-----------------------------------------------------------------------------
(* Maps: keys in insertion order with their values                         *)

Hashable(v) == v.k \in {"num", "bool", "str", "sym", "bytes"}
KeyAt(m, i) == m.sub[2 * i - 1]
ValueAt(m, i) == m.sub[2 * i]
MapLen(m) == Len(m.sub) \div 2
\* Numbers are told apart as keys by their conversion to an integer.
MapKey(v) == IF v.k = "num" THEN NumV(IntOf(v)) ELSE v
KeyIndex(m, key) == {i \in 1..MapLen(m) : MapKey(KeyAt(m, i)) = MapKey(key)}
HasKey(m, key) == KeyIndex(m, key) # {}
Lookup(m, key) ==
  IF HasKey(m, key) THEN ValueAt(m, CHOOSE i \in KeyIndex(m, key) : TRUE) ELSE Nil
MapPut(m, key, v) ==
  IF HasKey(m, key)
  THEN LET i == CHOOSE j \in KeyIndex(m, key) : TRUE IN
       [m EXCEPT !.sub[2 * i - 1] = key, !.sub[2 * i] = v]
  ELSE [m EXCEPT !.sub = @ \o <<key, v>>]
MapPutAll(m, kvs) ==
  FoldLeft(LAMBDA acc, i : MapPut(acc, kvs[2 * i - 1], kvs[2 * i]), m,
           [i \in 1..(Len(kvs) \div 2) |-> i])

-----------------------------------------------------------------------------
(* Equality                                                                *)

\* Maps are equal when they have the same entries, whatever their order;
\* other objects only when they are the same object.
RECURSIVE objectsEqual(_, _)
objectsEqual(a, b) ==
  /\ a.k = b.k
  /\ CASE a.k \in {"list", "bytes"} -> Pairwise(objectsEqual, a.sub, b.sub)
       [] a.k = "map" ->
            /\ MapLen(a) = MapLen(b)
            /\ \A i \in 1..MapLen(a) :
                 HasKey(b, KeyAt(a, i)) /\ objectsEqual(ValueAt(a, i), Lookup(b, KeyAt(a, i)))
       [] a.k = "num" -> Cmp(DecOf(a), DecOf(b)) = 0
       [] a.k = "nil" -> TRUE
       [] OTHER -> a = b

-----------------------------------------------------------------------------
(* Operators                                                               *)

\* Strings are compared by their characters.
Alphabet == "0123456789abcdefghijklmnopqrstuvwxyz"
Code(c) == CHOOSE i \in 1..Len(Alphabet) : SubSeq(Alphabet, i, i) = c
RECURSIVE Before(_, _)
Before(s, t) ==
  CASE t = "" -> FALSE
    [] s = "" -> TRUE
    [] OTHER -> LET c == Code(SubSeq(s, 1, 1))
                    d == Code(SubSeq(t, 1, 1))
                IN  c < d \/ (c = d /\ Before(SubSeq(s, 2, Len(s)), SubSeq(t, 2, Len(t))))
Less(a, b) == IF a.k = "num" THEN Cmp(DecOf(a), DecOf(b)) = -1 ELSE Before(a.name, b.name)

RECURSIVE Repeat(_, _)
Repeat(s, n) == IF n <= 0 THEN "" ELSE s \o Repeat(s, n - 1)

Byte(v) == v.k = "num" /\ IntOf(v) \in 0..255

\* The shorter operand is repeated; an empty one makes the result empty.
doBytesBitwise(op, l, r) ==
  LET long == IF Len(l) >= Len(r) THEN l ELSE r
      short == IF Len(l) >= Len(r) THEN r ELSE l
  IN  IF short = <<>> THEN BytesV(<<>>)
      ELSE BytesV([i \in DOMAIN long |->
                     Bits(op, long[i].n, short[((i - 1) % Len(short)) + 1].n)])
evalBytesBitwise(op, l, r) ==
  LET bytes(v) == IF v.k = "bytes" THEN v.sub ELSE <<NumV(IntOf(v))>> IN
  IF /\ "bytes" \in {l.k, r.k}
     /\ \A v \in {l, r} : v.k = "bytes" \/ Byte(v)
  THEN doBytesBitwise(op, bytes(l), bytes(r)) ELSE Err("operand")

evalBinary(op, l, r) ==
  LET both(k) == l.k = k /\ r.k = k
      num(f(_, _)) == IF both("num") THEN DecV(f(DecOf(l), DecOf(r))) ELSE Err("operand")
      ordered(b) == IF l.k = r.k /\ l.k \in {"num", "str", "sym"} THEN BoolV(b) ELSE Err("operand")
  IN  CASE op = "+" ->
             (CASE both("num") -> num(Add)
                [] "str" \in {l.k, r.k} -> StrV(Inspect(l) \o Inspect(r))
                [] both("list") \/ both("bytes") -> [l EXCEPT !.sub = @ \o r.sub]
                [] OTHER -> Err("operand"))
        [] op = "-" -> num(Sub)
        [] op = "*" -> (CASE both("num") -> num(Mul)
                          [] l.k = "str" /\ r.k = "num" ->
                               IF IntOf(r) < 0 THEN Err("repetition") ELSE StrV(Repeat(l.name, IntOf(r)))
                          [] OTHER -> Err("operand"))
        [] op = "/" -> num(Div)
        [] op = "%" -> num(Mod)
        [] op = "==" -> BoolV(objectsEqual(l, r))
        [] op = "!=" -> BoolV(~objectsEqual(l, r))
        [] op = "<" -> ordered(Less(l, r))
        [] op = ">" -> ordered(Less(r, l))
        [] op = "<=" -> ordered(~Less(r, l))
        [] op = ">=" -> ordered(~Less(l, r))
        [] op \in {"&", "|", "^"} ->
             IF both("num") THEN num(LAMBDA a, b : Bitwise2(op, a, b)) ELSE evalBytesBitwise(op, l, r)
        [] op = "<<" -> num(ShiftLeft)
        [] op = ">>" -> num(ShiftRight)

evalPrefix(op, v) ==
  CASE op = "!" -> BoolV(~isTruthy(v))
    [] op = "-" -> IF v.k = "num" THEN DecV(Neg(DecOf(v))) ELSE Err("type")
    [] op = "~" -> (CASE v.k = "num" -> DecV(BitNot(DecOf(v)))
                      [] v.k = "bytes" -> BytesV([i \in DOMAIN v.sub |-> 255 - v.sub[i].n])
                      [] OTHER -> Err("type"))

\* item :+ onto the end or +: onto the front of a list or of bytes
Extended(seq, item, front) ==
  LET joined(s, e) == IF front THEN <<e>> \o s ELSE Append(s, e) IN
  CASE seq.k = "list" -> [seq EXCEPT !.sub = joined(@, item)]
    [] seq.k = "bytes" /\ item.k = "num" ->
         IF Byte(item) THEN [seq EXCEPT !.sub = joined(@, NumV(IntOf(item)))] ELSE Err("byte range")
    [] OTHER -> Err("type")
listAppend(seq, item) == Extended(seq, item, FALSE)
listPrepend(item, seq) == Extended(seq, item, TRUE)

-----------------------------------------------------------------------------
(* Slices and indexing.  Positions count from 0, as in the code.            *)

SliceV(start, end, step) == [Val("slice") EXCEPT !.sub = <<start, end, step>>]

computeSliceIndices(length, slice) ==
  LET or(i, default) == IF slice.sub[i] = Nil THEN default ELSE IntOf(slice.sub[i])
      fromEnd(i) == IF i < 0 THEN i + length ELSE i
      start == fromEnd(or(1, 0))
      end == fromEnd(or(2, length))
      step == or(3, 1)
  IN  [start |-> IF start < 0 THEN 0 ELSE start,
       end |-> IF end > length THEN length ELSE end,
       step |-> IF step <= 0 THEN 1 ELSE step]

sequenceSliceLen(start, end, step) ==
  IF step <= 0 \/ start >= end THEN 0 ELSE (end - start + step - 1) \div step

\* The elements at start, start + step, ... below end.
Sliced(s, slice) ==
  LET at(c) == [i \in 1..sequenceSliceLen(c.start, c.end, c.step) |->
                  s[c.start + (i - 1) * c.step + 1]]
  IN  at(computeSliceIndices(Len(s), slice))

Chars(str) == [i \in 1..Len(str) |-> StrV(SubSeq(str, i, i))]
Joined(chars) == FoldLeft(LAMBDA acc, c : acc \o c.name, "", chars)
Elements(v) == IF v.k = "str" THEN Chars(v.name) ELSE v.sub
Resequenced(v, s) == IF v.k = "str" THEN StrV(Joined(s)) ELSE [v EXCEPT !.sub = s]

FieldNames(fields) == [i \in DOMAIN fields |-> fields[i].name]
FieldOf(v, name) ==
  LET at == {i \in DOMAIN v.x : v.x[i].name = name} IN
  IF at = {} THEN Nil ELSE v.sub[CHOOSE i \in at : TRUE]

\* dot: m.name, which falls back from the symbol to the string key.
evalIndex(left, index, dot) ==
  LET s == Elements(left)
      pos == IF IntOf(index) < 0 THEN Len(s) + IntOf(index) ELSE IntOf(index)
  IN  CASE left.k \in {"list", "str", "bytes"} ->
             (CASE index.k = "slice" -> Resequenced(left, Sliced(s, index))
                [] index.k # "num" -> Err("index")
                [] pos \notin 0..(Len(s) - 1) -> Nil
                [] OTHER -> s[pos + 1])
        [] left.k = "map" ->
             (CASE ~Hashable(index) -> Err("key")
                [] dot /\ index.k = "sym" /\ ~HasKey(left, index) -> Lookup(left, StrV(index.name))
                [] OTHER -> Lookup(left, index))
        [] left.k = "struct" ->
             IF index.k \in {"sym", "str"} THEN FieldOf(left, index.name) ELSE Err("field")
        [] OTHER -> Err("index")

\* Pairs come off the stack from the last: of equal keys the first wins.
mapFromPairs(kvs) ==
  IF \E i \in 1..(Len(kvs) \div 2) : ~Hashable(kvs[2 * i - 1]) THEN Err("key")
  ELSE MapPutAll(MapOf(<<>>), FlattenSeq(Reverse([i \in 1..(Len(kvs) \div 2) |->
                                                    <<kvs[2 * i - 1], kvs[2 * i]>>])))

-----------------------------------------------------------------------------
(* Structs.  A schema has its fields in x; a struct value has its schema's   *)
(* name, the fields in x and their values in sub.                            *)

SchemaV(name, fields) == [Val("schema") EXCEPT !.name = name, !.x = fields]
StructV(schema, values) ==
  [Val("struct") EXCEPT !.name = schema.name, !.x = schema.x, !.sub = values]

structFieldTagsFromType(ann) ==
  CASE ann = <<>> \/ (\E i \in DOMAIN ann : ann[i] = "|") -> ""
    [] ann[1] \in {"num", "str", "bool", "list", "map", "bytes", "sym", "fn", "chan", "task",
                   "struct"} -> ann[1]
    [] ann[1] \in Symbols -> ""
    [] OTHER -> "struct(" \o ann[1] \o ")"

\* nil passes every hint.
HintHolds(ann, v) ==
  LET tag == structFieldTagsFromType(ann) IN
  CASE tag = "" \/ v.k = "nil" -> TRUE
    [] tag = "fn" -> v.k \in {"fn", "fg"}
    [] tag = "struct" -> v.k \in {"struct", "schema"}
    [] tag = "struct(" \o ann[1] \o ")" -> v.k \in {"struct", "schema"} /\ v.name = ann[1]
    [] OTHER -> v.k = tag
validateStructHints(fields, values) == \A i \in DOMAIN fields : HintHolds(fields[i].ann, values[i])

\* The map's keys name fields of the schema, each once.
structValuesFromMap(fields, m) ==
  LET names == [i \in 1..MapLen(m) |-> KeyAt(m, i).name] IN
  /\ \A i \in 1..MapLen(m) : KeyAt(m, i).k \in {"sym", "str"}
  /\ \A i \in DOMAIN names : names[i] \in ToSet(FieldNames(fields))
  /\ \A i, j \in DOMAIN names : names[i] = names[j] => i = j
Given(m, name) == {i \in 1..MapLen(m) : KeyAt(m, i).name = name}

\* fallback: the value of a field the map does not name.
Filled(schema, m, fallback) ==
  LET value(i) == LET at == Given(m, schema.x[i].name) IN
                  IF at = {} THEN fallback[i] ELSE ValueAt(m, CHOOSE j \in at : TRUE)
      values == [i \in DOMAIN schema.x |-> value(i)]
  IN  CASE m.k # "map" -> Err("struct")
        [] ~structValuesFromMap(schema.x, m) -> Err("field")
        [] ~validateStructHints(schema.x, values) -> Err("hint")
        [] OTHER -> StructV(schema, values)
structCopy(v, m) ==
  CASE m.k # "map" -> Err("copy")
    [] v.k = "struct" -> Filled(v, m, v.sub)
    [] v.k = "map" -> MapPutAll(v, m.sub)
    [] OTHER -> Err("copy")
=============================================================================
