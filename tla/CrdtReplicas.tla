---------------------------- MODULE CrdtReplicas ----------------------------
(***************************************************************************)
(* The replicas of one key with its real contents: nodes mutate, send      *)
(* their entry, answer fetches and restart from SQLite.  seen is history:  *)
(* the mutations an entry is made of, each with the mutations its replica  *)
(* had seen.  What a node shows is compared with what they say.            *)
(*                                                                         *)
(* Causal contexts, which do not change the contents, are in CausalCluster.*)
(***************************************************************************)
EXTENDS CrdtCodec

VARIABLES entry,   \* the entry of each node, NoEntry without one
          count,   \* the mutations of each node, which is its part of the clock
          seen,    \* history
          sent     \* messages under way, by type; lost and repeated at will

vars == <<entry, count, seen, sent>>

NoEntry == [type |-> "none", state |-> "none", version |-> NoCounter]
Present(n) == entry[n].type # "none"

Init ==
  /\ entry = [n \in Nodes |-> NoEntry] /\ count = [n \in Nodes |-> 0]
  /\ seen = [n \in Nodes |-> {}] /\ sent = [t \in CrdtType |-> {}]

\* Mutant: a removal does not advance the version.
MutateQuietRemove(n, request) ==
  LET r   == DecodeMutationRequest(EncodeMutationRequest(request))
      dot == <<n, count[n] + 1>>
      old == IF Present(n) THEN entry[n].state ELSE EmptyState(r.type)
  IN /\ Encodable(request) /\ count[n] < MaxOps
     /\ Present(n) => entry[n].type = r.type
     /\ count' = [count EXCEPT ![n] = @ + 1]
     /\ entry' = [entry EXCEPT ![n] = [type    |-> r.type,
                                       state   |-> ApplyMutation(old, r, n, dot),
                                       version |-> IF r.operation = "remove" THEN @.version
                                                   ELSE [@.version EXCEPT ![n] = dot[2]]]]
     /\ seen' = [seen EXCEPT ![n] = @ \cup {[dot |-> dot, request |-> request,
                                             saw |-> {o.dot : o \in seen[n]}]}]
     /\ UNCHANGED sent

\* mutate() of a request that came over the wire.  A key of another type refuses.
Mutate(n, request) ==
  LET r   == DecodeMutationRequest(EncodeMutationRequest(request))
      dot == <<n, count[n] + 1>>
      old == IF Present(n) THEN entry[n].state ELSE EmptyState(r.type)
  IN /\ Encodable(request) /\ count[n] < MaxOps
     /\ Present(n) => entry[n].type = r.type
     /\ count' = [count EXCEPT ![n] = @ + 1]
     /\ entry' = [entry EXCEPT ![n] = [type    |-> r.type,
                                       state   |-> ApplyMutation(old, r, n, dot),
                                       version |-> [@.version EXCEPT ![n] = dot[2]]]]
     /\ seen' = [seen EXCEPT ![n] = @ \cup {[dot |-> dot, request |-> request,
                                             saw |-> {o.dot : o \in seen[n]}]}]
     /\ UNCHANGED sent

\* merge_entry(): an entry of another type, or one that contradicts, is refused.
MergeEntry(n, incoming, ops) ==
  /\ Present(n) => /\ entry[n].type = incoming.type
                   /\ incoming.type = "mvregister" => ~Contradict(entry[n].state, incoming.state)
  /\ entry' = [entry EXCEPT ![n] =
       IF ~Present(n) THEN incoming
       ELSE [type    |-> @.type, state |-> MergeState(@.type, @.state, incoming.state),
             version |-> CounterMerge(@.version, incoming.version)]]
  /\ seen' = [seen EXCEPT ![n] = @ \cup ops]
  /\ UNCHANGED <<count, sent>>

\* A worker of the outbox sends the entry, if it can be encoded.
Replicate(n) ==
  /\ Present(n) /\ StateFits(entry[n])
  /\ sent' = [sent EXCEPT ![entry[n].type] =
                @ \cup {[message |-> StateToProto(entry[n]), ops |-> seen[n]]}]
  /\ UNCHANGED <<entry, count, seen>>

\* A message that is refused changes nothing.
Deliver(n, m) == \E e \in StateFromProto(m.message) : MergeEntry(n, e, m.ops)

\* A causal repair fetches the entry of a peer, whatever it is.
Fetch(n, p) ==
  /\ n # p /\ Present(p) /\ StateFits(entry[p])
  /\ \E e \in DecodeCrdtResponse(EncodeCrdtResponse(entry[p], TRUE)).state :
       MergeEntry(n, e, seen[p])

\* What the peers of n are told of its entry.
Digest(n) == DigestFromProto(DigestToProto(entry[n]))

\* Anti-entropy fetches it only if the digests have the same type and the peer
\* has something new.
Reconcile(n, p) ==
  /\ Present(n) => entry[n].type = Digest(p).type
  /\ \E a \in Nodes : entry[n].version[a] < Digest(p).version[a]
  /\ Fetch(n, p)

Restart(n) ==
  /\ Present(n)
  /\ entry' = [entry EXCEPT ![n] = DecodeEntry(EncodeEntry(@))]
  /\ UNCHANGED <<count, seen, sent>>

Next == \E n \in Nodes :
  \/ \E r \in Requests : Mutate(n, r)
  \/ Replicate(n) \/ Restart(n)
  \/ \E t \in CrdtType : \E m \in sent[t] : Deliver(n, m)
  \/ \E p \in Nodes : Fetch(n, p) \/ Reconcile(n, p)

Spec == Init /\ [][Next]_vars

-----------------------------------------------------------------------------
OpsOf(ops, operation) == {o \in ops : o.request.operation = operation}
Total(ops, operation) ==
  SumFunctionOnSet([o \in ops |-> o.request.amount], OpsOf(ops, operation))

\* What the mutations in ops say: counters add up, an element is in the set if
\* some addition of it was seen by no removal of it, and a register shows the
\* writes that no other write had seen.
Meaning(type, ops) ==
  CASE type = "gcounter"  -> Total(ops, "increment")
    [] type = "pncounter" -> Total(ops, "increment") - Total(ops, "decrement")
    [] type = "orset"     ->
         {e \in Elements : \E a \in OpsOf(ops, "add") :
            /\ a.request.value = e
            /\ \A r \in OpsOf(ops, "remove") : r.request.value = e => a.dot \notin r.saw}
    [] type = "mvregister" ->
         {<<w.dot, w.request.value>> : w \in {v \in OpsOf(ops, "write") :
            \A x \in OpsOf(ops, "write") : v.dot \notin x.saw}}

\* What a client is shown.
Shown(n) == DecodeCrdtResponse(EncodeCrdtResponse(entry[n], FALSE)).value

\* A node shows exactly what the mutations in its entry say, however they were
\* merged, encoded, repeated, reordered and restored: no increment is lost or
\* counted twice, an addition survives a concurrent removal and nothing removed
\* returns, concurrent writes are all shown and overwritten ones are not.
ValuesExact ==
  \A n \in Nodes : Present(n) => Shown(n) = Meaning(entry[n].type, seen[n])

\* Equal digests mean equal states, which anti-entropy relies on when it compares
\* digests and not states (compare_digest()).
VersionsTellContents ==
  \A n, p \in Nodes :
    Digest(n) = Digest(p) => entry[n].state = entry[p].state

\* Whatever a replica holds and a peer can decode can be merged, in either order,
\* and merging it again changes nothing; the register never meets two values under
\* one dot (merge() of the four types).
MergesAgree ==
  \A n \in Nodes : \A m \in IF Present(n) THEN sent[entry[n].type] ELSE {} :
    \A e \in StateFromProto(m.message) :
      LET t == entry[n].type
          s == entry[n].state
          i == e.state
      IN /\ t = "mvregister" => ~Contradict(s, i)
         /\ MergeState(t, s, i) = MergeState(t, i, s)
         /\ MergeState(t, MergeState(t, s, i), i) = MergeState(t, s, i)

\* The one entry that a replica can hold and its peers refuse is a set that has seen
\* no addition, only removals that found nothing: no addition, removal of something,
\* count or write is ever kept from a peer by the empty oneof (state_to_proto(),
\* state_from_proto()).
RefusedIsEmpty ==
  \A t \in CrdtType : \A m \in sent[t] :
    StateFromProto(m.message) = {} <=> t = "orset" /\ OpsOf(m.ops, "add") = {}
=============================================================================
