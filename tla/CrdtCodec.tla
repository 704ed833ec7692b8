------------------------------ MODULE CrdtCodec ------------------------------
(***************************************************************************)
(* replication/codec.py and persistence/codec.py: entries on the wire, in  *)
(* the answers of a node and in SQLite.  A repeated field is the set of    *)
(* its items: it lists what differs from the default of the dictionary,    *)
(* and decoding reads what is missing as the default.                      *)
(***************************************************************************)
EXTENDS CrdtTypes

Vectors == INSTANCE VersionVectors WITH Actors <- Nodes

\* Counters: like version vectors, but the field is called value.
ComponentsToProto(c) == {[actor |-> n, value |-> c[n]] : n \in {m \in Nodes : c[m] > 0}}
ComponentsFromProto(p) ==
  [n \in Nodes |-> IF \E i \in p : i.actor = n THEN (CHOOSE i \in p : i.actor = n).value ELSE 0]

AddsToProto(adds) == {[element |-> e, dots |-> adds[e]] : e \in {f \in Elements : adds[f] # {}}}
AddsFromProto(p) == [e \in Elements |-> UNION {i.dots : i \in {j \in p : j.element = e}}]

ValuesToProto(values) == {[dot |-> d, value_json |-> values[d]] : d \in DOMAIN values}
ValuesFromProto(p) == [d \in {i.dot : i \in p} |-> (CHOOSE i \in p : i.dot = d).value_json]

\* protobuf refuses an integer that is too large for its field.
Fits(v) == \A n \in Nodes : v[n] <= MaxWire
StateFits(e) ==
  CASE e.type = "gcounter"  -> Fits(e.state)
    [] e.type = "pncounter" -> Fits(e.state.positive) /\ Fits(e.state.negative)
    [] OTHER -> TRUE

\* The repeated fields of a state in its own message, in order.
FieldsToProto(type, s) ==
  CASE type = "gcounter"   -> <<ComponentsToProto(s)>>
    [] type = "pncounter"  -> <<ComponentsToProto(s.positive), ComponentsToProto(s.negative)>>
    [] type = "orset"      -> <<AddsToProto(s.adds), s.removed>>
    [] type = "mvregister" -> <<ValuesToProto(s.values), s.superseded>>

FieldsFromProto(type, f) ==
  CASE type = "gcounter"   -> ComponentsFromProto(f[1])
    [] type = "pncounter"  -> [positive |-> ComponentsFromProto(f[1]),
                               negative |-> ComponentsFromProto(f[2])]
    [] type = "orset"      -> [adds |-> AddsFromProto(f[1]), removed |-> f[2]]
    [] type = "mvregister" -> [values |-> ValuesFromProto(f[1]), superseded |-> f[2]]

\* The member of the oneof, if one is set: counters are copied into the message, but
\* sets and registers are filled item by item, and without an item nothing is set.
Oneof(type, fields) ==
  IF type \in {"orset", "mvregister"} /\ fields = <<{}, {}>> THEN {} ELSE {fields}

StateToProto(e) ==
  [crdt_type |-> e.type, state_version |-> Vectors!VersionToProto(e.version),
   state |-> Oneof(e.type, FieldsToProto(e.type, e.state))]

\* The entry that is decoded; none if the oneof is not set, which is refused.
StateFromProto(p) ==
  {[type |-> p.crdt_type, version |-> Vectors!VersionFromProto(p.state_version),
    state |-> FieldsFromProto(p.crdt_type, f)] : f \in p.state}

\* The digest of an entry, with which anti-entropy compares replicas.
DigestToProto(e) == [crdt_type |-> e.type, state_version |-> Vectors!VersionToProto(e.version)]
DigestFromProto(p) == [type |-> p.crdt_type, version |-> Vectors!VersionFromProto(p.state_version)]

\* The answer to a read or a fetch: the value as JSON, the entry only for peers.  An
\* answer whose entry is refused gives the peer nothing to merge.
EncodeCrdtResponse(e, includeState) ==
  [crdt_type |-> e.type, value_json |-> Json(Materialize(e.type, e.state)),
   state |-> IF includeState THEN {StateToProto(e)} ELSE {}]
DecodeCrdtResponse(m) ==
  [type |-> m.crdt_type, value |-> FromJson(m.value_json),
   state |-> UNION {StateFromProto(p) : p \in m.state}]

\* SQLite keeps JSON, whose integers are unbounded.
EncodeCrdtState(type, s) ==
  Json(CASE type = "gcounter"   -> [components |-> ComponentsToProto(s)]
         [] type = "pncounter"  -> [positive |-> ComponentsToProto(s.positive),
                                    negative |-> ComponentsToProto(s.negative)]
         [] type = "orset"      -> [adds |-> AddsToProto(s.adds), removed |-> s.removed]
         [] type = "mvregister" -> [values |-> ValuesToProto(s.values),
                                    superseded |-> s.superseded])

DecodeCrdtState(type, raw) ==
  LET p == FromJson(raw) IN
  CASE type = "gcounter"   -> ComponentsFromProto(p.components)
    [] type = "pncounter"  -> [positive |-> ComponentsFromProto(p.positive),
                               negative |-> ComponentsFromProto(p.negative)]
    [] type = "orset"      -> [adds |-> AddsFromProto(p.adds), removed |-> p.removed]
    [] type = "mvregister" -> [values |-> ValuesFromProto(p.values), superseded |-> p.superseded]

EncodeVersionVector(v) == Json(Vectors!VersionToProto(v))
DecodeVersionVector(raw) == Vectors!VersionFromProto(FromJson(raw))

EncodeEntry(e) ==
  [crdt_type |-> e.type, state_json |-> EncodeCrdtState(e.type, e.state),
   state_version_json |-> EncodeVersionVector(e.version)]
DecodeEntry(r) ==
  [type |-> r.crdt_type, state |-> DecodeCrdtState(r.crdt_type, r.state_json),
   version |-> DecodeVersionVector(r.state_version_json)]
=============================================================================
