------------------------------ MODULE CrdtTypes ------------------------------
(***************************************************************************)
(* crdt/ and the requests of clients: the four CRDT types as the code      *)
(* implements them.  A dictionary with a default is a total function.      *)
(***************************************************************************)
EXTENDS Integers, FiniteSets, Functions

CONSTANTS Nodes,       \* replicas of the key; a node is also a causal actor
          Elements,    \* elements of sets and values of registers
          Amounts,     \* amounts clients ask for
          MaxOps,      \* bound: mutations of one node
          MaxWire      \* the greatest integer of a uint64 field

ASSUME TypesAssumption ==
  /\ IsFiniteSet(Nodes) /\ MaxOps \in Nat /\ MaxWire \in Nat /\ Amounts \subseteq Nat

CrdtType == {"gcounter", "pncounter", "orset", "mvregister"}

-----------------------------------------------------------------------------
(* The types *)

NoCounter == [n \in Nodes |-> 0]
CounterIncrement(c, n, amount) == [c EXCEPT ![n] = @ + amount]
CounterValue(c) == SumFunction(c)
\* Mutant: components are added up.
CounterMergeAdds(c, d) == [n \in Nodes |-> c[n] + d[n]]
CounterMerge(c, d) == [n \in Nodes |-> IF c[n] < d[n] THEN d[n] ELSE c[n]]

PNCounterIncrement(c, n, amount) == [c EXCEPT !.positive = CounterIncrement(@, n, amount)]
PNCounterDecrement(c, n, amount) == [c EXCEPT !.negative = CounterIncrement(@, n, amount)]
PNCounterValue(c) == CounterValue(c.positive) - CounterValue(c.negative)
PNCounterMerge(c, d) == [positive |-> CounterMerge(c.positive, d.positive),
                         negative |-> CounterMerge(c.negative, d.negative)]

SetAdd(s, e, dot) == [s EXCEPT !.adds[e] = @ \cup {dot}]
\* Mutant: all dots of the element are forgotten, none is remembered as removed.
SetRemoveForgets(s, e) == [s EXCEPT !.adds[e] = {}]
SetRemove(s, e) == [s EXCEPT !.removed = @ \cup (s.adds[e] \ s.removed)]
SetValue(s) == {e \in Elements : s.adds[e] \ s.removed # {}}
SetMerge(s, t) == [adds    |-> [e \in Elements |-> s.adds[e] \cup t.adds[e]],
                   removed |-> s.removed \cup t.removed]

Json(v) == [json |-> v]
FromJson(j) == j.json

Visible(r) == {d \in DOMAIN r.values : d \notin r.superseded}
\* Mutant: a write leaves what it overwrites visible.
RegisterWriteKeeps(r, v, dot) ==
  [values     |-> [d \in DOMAIN r.values \cup {dot} |-> IF d = dot THEN Json(v) ELSE r.values[d]],
   superseded |-> r.superseded]
RegisterWrite(r, v, dot) ==
  [values     |-> [d \in DOMAIN r.values \cup {dot} |-> IF d = dot THEN Json(v) ELSE r.values[d]],
   superseded |-> r.superseded \cup Visible(r)]
RegisterValues(r) == {<<d, FromJson(r.values[d])>> : d \in Visible(r)}
\* Two values under one dot are refused.
Contradict(r, s) == \E d \in DOMAIN r.values \cap DOMAIN s.values : r.values[d] # s.values[d]
RegisterMerge(r, s) ==
  [values     |-> [d \in DOMAIN r.values \cup DOMAIN s.values |->
                     IF d \in DOMAIN s.values THEN s.values[d] ELSE r.values[d]],
   superseded |-> r.superseded \cup s.superseded]

EmptyState(type) ==
  CASE type = "gcounter"   -> NoCounter
    [] type = "pncounter"  -> [positive |-> NoCounter, negative |-> NoCounter]
    [] type = "orset"      -> [adds |-> [e \in Elements |-> {}], removed |-> {}]
    [] type = "mvregister" -> [values |-> [d \in {} |-> Json(d)], superseded |-> {}]

\* _materialize(): a register shows one value per visible write.
Materialize(type, s) ==
  CASE type = "gcounter"   -> CounterValue(s)
    [] type = "pncounter"  -> PNCounterValue(s)
    [] type = "orset"      -> SetValue(s)
    [] type = "mvregister" -> RegisterValues(s)

MergeState(type, s, t) ==
  CASE type = "gcounter"   -> CounterMerge(s, t)
    [] type = "pncounter"  -> PNCounterMerge(s, t)
    [] type = "orset"      -> SetMerge(s, t)
    [] type = "mvregister" -> RegisterMerge(s, t)

-----------------------------------------------------------------------------
(* Requests *)

Operations ==
  [gcounter |-> {"increment"}, pncounter |-> {"increment", "decrement"},
   orset |-> {"add", "remove"}, mvregister |-> {"write"}]

\* What the methods of CrdtClient can ask for.
Requests ==
  (UNION {[type : {t}, operation : Operations[t] \cap {"increment", "decrement"}, amount : Amounts,
           value : {"none"}] : t \in {"gcounter", "pncounter"}})
  \cup (UNION {[type : {t}, operation : Operations[t], amount : {0}, value : Elements] :
               t \in {"orset", "mvregister"}})

\* The mutation is a oneof of the message; only its own field is sent.
EncodeMutationRequest(r) ==
  [crdt_type |-> r.type, which |-> r.operation,
   amount |-> IF r.operation \in {"increment", "decrement"} THEN {r.amount} ELSE {},
   element |-> IF r.operation \in {"add", "remove"} THEN {r.value} ELSE {},
   value_json |-> IF r.operation = "write" THEN {Json(r.value)} ELSE {}]

\* encode_mutation_request() refuses amounts below one; the wire has no more
\* than MaxWire.
Encodable(r) == r.operation \in {"increment", "decrement"} => r.amount \in 1 .. MaxWire

DecodeMutationRequest(m) ==
  [type |-> m.crdt_type, operation |-> m.which,
   amount |-> IF m.amount = {} THEN 0 ELSE CHOOSE a \in m.amount : TRUE,
   value |-> IF m.element # {} THEN CHOOSE e \in m.element : TRUE
             ELSE IF m.value_json # {} THEN FromJson(CHOOSE j \in m.value_json : TRUE)
             ELSE "none"]

ApplyMutation(s, r, n, dot) ==
  CASE r.type = "gcounter" -> CounterIncrement(s, n, r.amount)
    [] r.type = "pncounter" /\ r.operation = "increment" -> PNCounterIncrement(s, n, r.amount)
    [] r.type = "pncounter" /\ r.operation = "decrement" -> PNCounterDecrement(s, n, r.amount)
    [] r.operation = "add"    -> SetAdd(s, r.value, dot)
    [] r.operation = "remove" -> SetRemove(s, r.value)
    [] r.operation = "write"  -> RegisterWrite(s, r.value, dot)
=============================================================================
