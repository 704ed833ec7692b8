------------------------ MODULE CausalClusterProofs -------------------------
(***************************************************************************)
(* The safety properties of CausalCluster, for any nodes, keys, sessions   *)
(* and preference lists, whatever is lost, repeated or reordered; and each *)
(* node of CausalCluster is an AtomicReplica.                              *)
(***************************************************************************)
EXTENDS CausalCluster, CausalEntriesProofs

\* A node's entries are grounded in what was written and contain its own
\* mutations; its clock covers them and counts those mutations.
NodeOK(n) ==
  /\ Within(written, frontier[n])
  /\ frontier[n][n] = Len(written[n])
  /\ \A k \in Keys : /\ Grounded(written, k, store[n][k])
                     /\ Leq(store[n][k].context, frontier[n])
                     /\ OwnComplete(written, k, store[n][k], n)

\* What a session, its request and its repair hold is grounded too.
SessionOK(s) ==
  /\ Within(written, token[s]) /\ Within(written, gathered[s]) /\ Within(written, found[s].context)
  /\ pc[s] = "idle" => fetched[s] = {} /\ answers[s] = {}
  /\ pc[s] # "idle" => Within(written, request[s].token)
  /\ \A f \in fetched[s] : Grounded(written, request[s].key, f.entry)
  /\ \A a \in answers[s] : Grounded(written, request[s].key, a.entry) /\ Within(written, a.proof)

SentOK == \A m \in sent : Grounded(written, m.key, m.entry)

\* The inductive invariant.
IndInv ==
  TypeOK /\ SentOK /\ (\A n \in Nodes : NodeOK(n)) /\ (\A s \in Sessions : SessionOK(s))

-----------------------------------------------------------------------------
(* What the invariant says *)

LEMMA Types ==
  ASSUME TypeOK
  PROVE  /\ written \in Histories
         /\ \A n \in Nodes : /\ Len(written[n]) \in Nat /\ frontier[n] \in Vector
                             /\ \A k \in Keys : store[n][k] \in Entry /\ store[n][k].context \in Vector
         /\ \A s \in Sessions : /\ token[s] \in Vector /\ gathered[s] \in Vector
                                /\ found[s] \in Entry /\ found[s].context \in Vector
                                /\ \A f \in fetched[s] : f.entry \in Entry /\ f.peer \in Nodes
                                /\ \A a \in answers[s] : a.entry \in Entry /\ a.proof \in Vector
         /\ \A m \in sent : m.entry \in Entry /\ m.key \in Keys
<1>1. written \in Histories /\ \A n \in Nodes : Len(written[n]) \in Nat
  BY DEF TypeOK, Histories, Nodes
<1>2. \A e \in Entry : e.context \in Vector
  BY EntryParts, Zenon
<1>3. ASSUME NEW n \in Nodes
      PROVE  /\ frontier[n] \in Vector
             /\ \A k \in Keys : store[n][k] \in Entry /\ store[n][k].context \in Vector
  BY <1>2 DEF TypeOK
<1>4. ASSUME NEW s \in Sessions
      PROVE  /\ token[s] \in Vector /\ gathered[s] \in Vector
             /\ found[s] \in Entry /\ found[s].context \in Vector
  BY <1>2, Zenon DEF TypeOK
<1>5. ASSUME NEW s \in Sessions
      PROVE  /\ \A f \in fetched[s] : f.entry \in Entry /\ f.peer \in Nodes
             /\ \A a \in answers[s] : a.entry \in Entry /\ a.proof \in Vector
  <2>1. fetched[s] \subseteq Fetched /\ answers[s] \subseteq Reply
    BY Zenon DEF TypeOK
  <2> QED BY <2>1, Zenon DEF Fetched, Reply
<1>6. \A m \in sent : m.entry \in Entry /\ m.key \in Keys
  BY Zenon DEF TypeOK, Message
<1> QED BY <1>1, <1>3, <1>4, <1>5, <1>6, Zenon

LEMMA RequestTypes ==
  ASSUME TypeOK, NEW s \in Sessions, pc[s] # "idle"
  PROVE  /\ request[s] \in Request
         /\ request[s].node \in Nodes /\ request[s].key \in Keys /\ request[s].token \in Vector
         /\ request[s].kind \in {"read", "write", "remove"}
<1>1. request[s] \in Request
  BY Zenon DEF TypeOK
<1> QED BY <1>1, Zenon DEF Request

\* The variables of a session are as they were.
SameSession(s) ==
  /\ token'[s] = token[s] /\ request'[s] = request[s] /\ pc'[s] = pc[s] /\ found'[s] = found[s]
  /\ fetched'[s] = fetched[s] /\ answers'[s] = answers[s] /\ gathered'[s] = gathered[s]

LEMMA OtherSession ==
  ASSUME IndInv, NEW s \in Sessions, SameSession(s), written' = written
  PROVE  SessionOK(s)'
BY Zenon DEF IndInv, SessionOK, SameSession

LEMMA SessionFrame ==
  ASSUME IndInv, NEW s \in Sessions, written' = written, sent' = sent, TypeOK',
         \A n \in Nodes : NodeOK(n)', SessionOK(s)', \A u \in Sessions \ {s} : SameSession(u)
  PROVE  IndInv'
<1>1. SentOK'
  BY Zenon DEF IndInv, SentOK
<1>2. ASSUME NEW u \in Sessions \ {s} PROVE SessionOK(u)'
  BY <1>2, OtherSession, Zenon
<1> QED BY <1>1, <1>2, Zenon DEF IndInv

LEMMA SameNodes ==
  ASSUME IndInv, written' = written, store' = store, frontier' = frontier
  PROVE  \A n \in Nodes : NodeOK(n)'
BY Zenon DEF IndInv, NodeOK

\* The clock of a node counts its own mutations: what else it observes adds none.
LEMMA OwnCounter ==
  ASSUME IndInv, NEW n \in Nodes, NEW v \in Vector, Within(written, v)
  PROVE  /\ Merge(frontier[n], v) \in Vector /\ Within(written, Merge(frontier[n], v))
         /\ Merge(frontier[n], v)[n] = Len(written[n]) /\ Leq(frontier[n], Merge(frontier[n], v))
         /\ Leq(v, Merge(frontier[n], v))
<1>1. frontier[n] \in Vector /\ written \in Histories /\ Len(written[n]) \in Nat /\ NodeOK(n)
  BY Types, Zenon DEF IndInv
<1>2. /\ Merge(frontier[n], v) \in Vector /\ Leq(frontier[n], Merge(frontier[n], v))
      /\ Leq(v, Merge(frontier[n], v))
  BY <1>1, MergeIsJoin, Zenon
<1>3. Within(written, Merge(frontier[n], v))
  BY <1>1, WithinMerge, Zenon DEF NodeOK
<1>4. Merge(frontier[n], v)[n] = MaxOf(frontier[n][n], v[n])
  BY Zenon DEF Merge, Nodes
<1>5. frontier[n][n] = Len(written[n]) /\ v[n] <= Len(written[n]) /\ v[n] \in Nat
  BY <1>1, Zenon DEF NodeOK, Within, Nodes, Vector
<1> QED BY <1>1, <1>2, <1>3, <1>4, <1>5, Zenon DEF MaxOf

LEMMA ObserveStep ==
  ASSUME IndInv, NEW n \in Nodes, NEW v \in Vector, Within(written, v),
         written' = written, store' = store,
         frontier' = [frontier EXCEPT ![n] = Merge(frontier[n], v)]
  PROVE  frontier' \in [Nodes -> Vector] /\ \A m \in Nodes : NodeOK(m)'
<1> DEFINE c == Merge(frontier[n], v)
<1>1. c \in Vector /\ Within(written, c) /\ c[n] = Len(written[n]) /\ Leq(frontier[n], c)
  BY OwnCounter, Zenon
<1>2. TypeOK /\ frontier[n] \in Vector /\ NodeOK(n) /\ \A k \in Keys : store[n][k].context \in Vector
  BY Types, Zenon DEF IndInv
<1> HIDE DEF c
<1>3. frontier' = [frontier EXCEPT ![n] = c]
  BY Zenon DEF c
<1>4. frontier' \in [Nodes -> Vector] /\ frontier'[n] = c
      /\ \A m \in Nodes \ {n} : frontier'[m] = frontier[m]
  BY <1>1, <1>2, <1>3 DEF TypeOK
<1>5. NodeOK(n)'
  <2>1. \A k \in Keys : Leq(store[n][k].context, c)
    BY <1>1, <1>2, LeqOrder DEF NodeOK
  <2> QED BY <1>1, <1>2, <1>4, <2>1, Zenon DEF NodeOK
<1>6. ASSUME NEW m \in Nodes \ {n} PROVE NodeOK(m)'
  BY <1>4, Zenon DEF IndInv, NodeOK
<1> QED BY <1>4, <1>5, <1>6, Zenon

LEMMA MergeAtStep ==
  ASSUME IndInv, NEW n \in Nodes, NEW k \in Keys, NEW e \in Entry, Grounded(written, k, e),
         MergeAt(n, k, e), written' = written
  PROVE  /\ store' \in [Nodes -> [Keys -> Entry]] /\ frontier' \in [Nodes -> Vector]
         /\ \A m \in Nodes : NodeOK(m)'
         /\ store'[n][k] = MergeEntries(store[n][k], e)
<1> DEFINE f == MergeEntries(store[n][k], e)
           c == Merge(frontier[n], f.context)
<1>1. /\ TypeOK /\ NodeOK(n) /\ written \in Histories /\ store[n][k] \in Entry /\ frontier[n] \in Vector
      /\ \A j \in Keys : store[n][j].context \in Vector
  BY Types, Zenon DEF IndInv
<1>2. f \in Entry /\ EntryLeq(store[n][k], f) /\ Grounded(written, k, f)
  BY <1>1, MergeEntriesResult, MergeIsGrounded, Zenon DEF NodeOK
<1>3. store' = [store EXCEPT ![n][k] = f] /\ frontier' = [frontier EXCEPT ![n] = c]
  BY Zenon DEF MergeAt
<1> HIDE DEF f
<1>4. f.context \in Vector
  BY <1>2, EntryParts, Zenon
<1>5. c \in Vector /\ Within(written, c) /\ c[n] = Len(written[n]) /\ Leq(frontier[n], c)
      /\ Leq(f.context, c)
  BY <1>2, <1>4, OwnCounter, Zenon DEF Grounded
<1> HIDE DEF c
<1>6. /\ store' \in [Nodes -> [Keys -> Entry]] /\ frontier' \in [Nodes -> Vector]
      /\ store'[n][k] = f /\ frontier'[n] = c
      /\ \A j \in Keys \ {k} : store'[n][j] = store[n][j]
      /\ \A m \in Nodes \ {n} : store'[m] = store[m] /\ frontier'[m] = frontier[m]
  BY <1>1, <1>2, <1>3, <1>5, Zenon DEF TypeOK
<1>7. NodeOK(n)'
  <2>1. ASSUME NEW j \in Keys
        PROVE  /\ Grounded(written, j, store'[n][j]) /\ Leq(store'[n][j].context, c)
               /\ OwnComplete(written, j, store'[n][j], n)
    <3>1. CASE j = k
      BY <1>1, <1>2, <1>5, <1>6, <3>1, CompleteGrows, Zenon DEF NodeOK, Nodes
    <3>2. CASE j # k
      BY <1>1, <1>5, <1>6, <3>2, LeqOrder, Zenon DEF NodeOK
    <3> QED BY <3>1, <3>2, Zenon
  <2> QED BY <1>5, <1>6, <2>1, Zenon DEF NodeOK
<1>8. ASSUME NEW m \in Nodes \ {n} PROVE NodeOK(m)'
  BY <1>6, Zenon DEF IndInv, NodeOK
<1> QED BY <1>6, <1>7, <1>8, Zenon DEF f

-----------------------------------------------------------------------------
(* One lemma per action *)

\* A request and its token arrive as they were sent.
LEMMA DecodedRequest ==
  ASSUME NEW n \in Nodes, NEW kind \in {"read", "write", "remove"}, NEW k \in Keys, NEW v \in Vector
  PROVE  DecodeRequest(n, EncodeRequest(kind, k, v))
           = [kind |-> kind, node |-> n, key |-> k, token |-> v]
<1>1. TokenFromProto(TokenToProto(v)) = v
  BY ProtoRoundTrip, Zenon DEF TokenFromProto, TokenToProto
<1> QED BY <1>1, Zenon DEF DecodeRequest, EncodeRequest

LEMMA RouteIsNode ==
  ASSUME NEW c, NEW k \in Keys
  PROVE  Route(c, k) \in Nodes
<1>1. Preference[k] \in Seq(Nodes) /\ Preference[k] # <<>>
  BY ClusterAssumption, Zenon
<1>2. \A i \in DOMAIN Preference[k] : Preference[k][i] \in Nodes
  BY <1>1
<1>3. Preference[k][1] \in Nodes
  BY <1>1
<1> QED BY <1>2, <1>3, Zenon DEF Route, ReplicasOf

LEMMA BeginStep ==
  ASSUME IndInv, NEW s \in Sessions, NEW kind \in {"read", "write", "remove"}, NEW n \in Nodes,
         NEW k \in Keys, Begin(s, kind, n, k)
  PROVE  IndInv'
<1> DEFINE r == [kind |-> kind, node |-> n, key |-> k, token |-> token[s]]
<1>1. /\ TypeOK /\ SessionOK(s) /\ NodeOK(n) /\ token[s] \in Vector /\ store[n][k] \in Entry
      /\ store[n][k].context \in Vector /\ Within(written, store[n][k].context)
  BY Types, Zenon DEF IndInv, NodeOK, Grounded
<1>2. r \in Request /\ r # NoRequest /\ r.token = token[s] /\ r.key = k
  BY <1>1, ClusterAssumption DEF Request
<1>3. request' = [request EXCEPT ![s] = r]
  <2>1. DecodeRequest(n, EncodeRequest(kind, k, token[s])) = r
    BY <1>1, DecodedRequest, Zenon
  <2> HIDE DEF r
  <2> QED BY <2>1, Zenon DEF Begin
<1> HIDE DEF r
<1>4. /\ pc[s] = "idle" /\ UNCHANGED <<nodeVars, sessionVars, fetched, answers>>
      /\ \/ /\ pc' = [pc EXCEPT ![s] = IF kind = "read" THEN "answer" ELSE "mutate"]
            /\ found' = [found EXCEPT ![s] = store[n][k]] /\ gathered' = gathered
         \/ /\ pc' = [pc EXCEPT ![s] = "fetch"]
            /\ gathered' = [gathered EXCEPT ![s] = store[n][k].context] /\ found' = found
  BY Zenon DEF Begin, Pass
<1>5. /\ pc' \in [Sessions -> {"idle", "fetch", "merge", "mutate", "answer"}] /\ pc'[s] # "idle"
      /\ found' \in [Sessions -> Entry] /\ gathered' \in [Sessions -> Vector]
      /\ request' \in [Sessions -> Request \cup {NoRequest}] /\ request'[s] = r
      /\ Within(written, found'[s].context) /\ Within(written, gathered'[s])
      /\ \A u \in Sessions \ {s} : /\ pc'[u] = pc[u] /\ found'[u] = found[u]
                                   /\ gathered'[u] = gathered[u] /\ request'[u] = request[u]
  <2>1. /\ request' \in [Sessions -> Request \cup {NoRequest}] /\ request'[s] = r
        /\ \A u \in Sessions \ {s} : request'[u] = request[u]
    BY <1>1, <1>2, <1>3, Zenon DEF TypeOK
  <2>2. CASE /\ pc' = [pc EXCEPT ![s] = IF kind = "read" THEN "answer" ELSE "mutate"]
             /\ found' = [found EXCEPT ![s] = store[n][k]] /\ gathered' = gathered
    BY <1>1, <2>1, <2>2, Zenon DEF TypeOK, SessionOK
  <2>3. CASE /\ pc' = [pc EXCEPT ![s] = "fetch"]
             /\ gathered' = [gathered EXCEPT ![s] = store[n][k].context] /\ found' = found
    BY <1>1, <2>1, <2>3, Zenon DEF TypeOK, SessionOK
  <2> QED BY <1>4, <2>2, <2>3, Zenon
<1>6. /\ written' = written /\ store' = store /\ frontier' = frontier /\ sent' = sent
      /\ token' = token /\ seen' = seen /\ fetched' = fetched /\ answers' = answers
  BY <1>4, Zenon DEF nodeVars, sessionVars
<1>7. TypeOK'
  <2>1. \A u \in Sessions : pc'[u] = "idle" <=> request'[u] = NoRequest
    BY <1>1, <1>2, <1>5, Zenon DEF TypeOK
  <2> QED BY <1>1, <1>5, <1>6, <2>1, Zenon DEF TypeOK
<1>8. SessionOK(s)'
  BY <1>1, <1>2, <1>4, <1>5, <1>6, Zenon DEF SessionOK
<1>9. \A u \in Sessions \ {s} : SameSession(u)
  BY <1>5, <1>6, Zenon DEF SameSession
<1> QED BY <1>6, <1>7, <1>8, <1>9, SameNodes, SessionFrame, Zenon

\* A request ends.
LEMMA EndResult ==
  ASSUME TypeOK, NEW s \in Sessions, End(s)
  PROVE  /\ request' \in [Sessions -> Request \cup {NoRequest}]
         /\ pc' \in [Sessions -> {"idle", "fetch", "merge", "mutate", "answer"}]
         /\ found' \in [Sessions -> Entry] /\ fetched' \in [Sessions -> SUBSET Fetched]
         /\ answers' \in [Sessions -> SUBSET Reply] /\ gathered' \in [Sessions -> Vector]
         /\ \A u \in Sessions : pc'[u] = "idle" <=> request'[u] = NoRequest
         /\ pc'[s] = "idle" /\ found'[s] = NoEntry /\ fetched'[s] = {} /\ answers'[s] = {}
         /\ gathered'[s] = Zero
         /\ \A u \in Sessions \ {s} :
              /\ request'[u] = request[u] /\ pc'[u] = pc[u] /\ found'[u] = found[u]
              /\ fetched'[u] = fetched[u] /\ answers'[u] = answers[u] /\ gathered'[u] = gathered[u]
<1>1. Zero \in Vector /\ NoEntry \in Entry
  BY NoEntryIsEntry, Zenon
<1>2. /\ request' \in [Sessions -> Request \cup {NoRequest}] /\ request'[s] = NoRequest
      /\ \A u \in Sessions \ {s} : request'[u] = request[u]
  BY Zenon DEF TypeOK, End
<1>3. /\ pc' \in [Sessions -> {"idle", "fetch", "merge", "mutate", "answer"}] /\ pc'[s] = "idle"
      /\ \A u \in Sessions \ {s} : pc'[u] = pc[u]
  BY Zenon DEF TypeOK, End
<1>4. /\ found' \in [Sessions -> Entry] /\ found'[s] = NoEntry
      /\ gathered' \in [Sessions -> Vector] /\ gathered'[s] = Zero
      /\ \A u \in Sessions \ {s} : found'[u] = found[u] /\ gathered'[u] = gathered[u]
  BY <1>1, Zenon DEF TypeOK, End
<1>5. /\ fetched' \in [Sessions -> SUBSET Fetched] /\ fetched'[s] = {}
      /\ answers' \in [Sessions -> SUBSET Reply] /\ answers'[s] = {}
      /\ \A u \in Sessions \ {s} : fetched'[u] = fetched[u] /\ answers'[u] = answers[u]
  BY Zenon DEF TypeOK, End
<1>6. \A u \in Sessions : pc'[u] = "idle" <=> request'[u] = NoRequest
  BY <1>2, <1>3, Zenon DEF TypeOK
<1> QED BY <1>2, <1>3, <1>4, <1>5, <1>6, Zenon

LEMMA EndStep ==
  ASSUME IndInv, NEW s \in Sessions, End(s), written' = written, sent' = sent,
         store' \in [Nodes -> [Keys -> Entry]], frontier' \in [Nodes -> Vector],
         token' \in [Sessions -> Vector], seen' \in [Sessions -> [Keys -> Dots]],
         \A n \in Nodes : NodeOK(n)', Within(written, token'[s]),
         \A u \in Sessions \ {s} : token'[u] = token[u]
  PROVE  IndInv'
<1>1. TypeOK /\ written \in Histories
  BY Types, Zenon DEF IndInv
<1>2. TypeOK'
  BY <1>1, EndResult, Zenon DEF TypeOK
<1>3. SessionOK(s)'
  <2>1. pc'[s] = "idle" /\ found'[s] = NoEntry /\ fetched'[s] = {} /\ answers'[s] = {}
        /\ gathered'[s] = Zero
    BY <1>1, EndResult, Zenon
  <2>2. Within(written, Zero) /\ NoEntry.context = Zero
    BY <1>1, NothingIsGrounded, Zenon DEF NoEntry
  <2> QED BY <2>1, <2>2, Zenon DEF SessionOK
<1>4. \A u \in Sessions \ {s} : SameSession(u)
  BY <1>1, EndResult DEF SameSession
<1> QED BY <1>2, <1>3, <1>4, SessionFrame, Zenon

LEMMA FailStep ==
  ASSUME IndInv, NEW s \in Sessions, Fail(s)
  PROVE  IndInv'
<1>1. /\ End(s) /\ written' = written /\ sent' = sent /\ store' = store /\ frontier' = frontier
      /\ token' = token /\ seen' = seen
  BY Zenon DEF Fail, nodeVars, sessionVars
<1>2. \A n \in Nodes : NodeOK(n)'
  BY <1>1, SameNodes, Zenon
<1>3. TypeOK /\ SessionOK(s)
  BY Zenon DEF IndInv
<1>4. Within(written, token'[s])
  BY <1>1, <1>3, Zenon DEF SessionOK
<1> QED BY <1>1, <1>2, <1>3, <1>4, EndStep, Zenon DEF TypeOK

LEMMA FetchReadStep ==
  ASSUME IndInv, NEW s \in Sessions, NEW p \in Nodes, FetchRead(s, p)
  PROVE  IndInv'
<1> DEFINE k == request[s].key
           f == [peer |-> p, entry |-> store[p][k]]
<1>1. /\ pc[s] = "fetch" /\ fetched' = [fetched EXCEPT ![s] = @ \cup {f}]
      /\ UNCHANGED <<nodeVars, sessionVars, request, pc, found, answers, gathered>>
  BY Zenon DEF FetchRead
<1>2. TypeOK /\ SessionOK(s) /\ NodeOK(p) /\ k \in Keys /\ store[p][k] \in Entry
  BY <1>1, RequestTypes, Types, Zenon DEF IndInv
<1>3. f \in Fetched /\ f.entry = store[p][k] /\ Grounded(written, k, f.entry)
  BY <1>2, Zenon DEF Fetched, NodeOK
<1> HIDE DEF f
<1>4. /\ fetched' \in [Sessions -> SUBSET Fetched] /\ fetched'[s] = fetched[s] \cup {f}
      /\ \A u \in Sessions \ {s} : fetched'[u] = fetched[u]
  BY <1>1, <1>2, <1>3, Zenon DEF TypeOK
<1>5. /\ written' = written /\ store' = store /\ frontier' = frontier /\ sent' = sent
      /\ token' = token /\ seen' = seen /\ request' = request /\ pc' = pc /\ found' = found
      /\ answers' = answers /\ gathered' = gathered
  BY <1>1, Zenon DEF nodeVars, sessionVars
<1>6. TypeOK'
  BY <1>2, <1>4, <1>5, Zenon DEF TypeOK
<1>7. SessionOK(s)'
  BY <1>1, <1>2, <1>3, <1>4, <1>5, Zenon DEF SessionOK
<1>8. \A u \in Sessions \ {s} : SameSession(u)
  BY <1>4, <1>5, Zenon DEF SameSession
<1> QED BY <1>5, <1>6, <1>7, <1>8, SameNodes, SessionFrame, Zenon

LEMMA FetchAnswerStep ==
  ASSUME IndInv, NEW s \in Sessions, NEW f \in fetched[s], FetchAnswer(s, f)
  PROVE  IndInv'
<1> DEFINE v == Merge(frontier[f.peer], f.entry.context)
           a == [entry |-> f.entry, peer |-> f.peer, proof |-> v]
<1>1. /\ TypeOK /\ SessionOK(s) /\ f.entry \in Entry /\ f.peer \in Nodes /\ pc[s] # "idle"
      /\ Grounded(written, request[s].key, f.entry) /\ f.entry.context \in Vector
  BY Types, EntryParts, Zenon DEF IndInv, SessionOK
<1>2. /\ fetched' = [fetched EXCEPT ![s] = @ \ {f}]
      /\ answers' = [answers EXCEPT ![s] = @ \cup {a}]
      /\ frontier' = [frontier EXCEPT ![f.peer] = v]
      /\ UNCHANGED <<written, store, sent, sessionVars, request, pc, found, gathered>>
  BY Zenon DEF FetchAnswer
<1>3. v \in Vector /\ Within(written, v)
  BY <1>1, OwnCounter, Zenon DEF Grounded
<1>4. frontier' \in [Nodes -> Vector] /\ \A n \in Nodes : NodeOK(n)'
  BY <1>1, <1>2, ObserveStep, Zenon DEF Grounded
<1> HIDE DEF v
<1>5. a \in Reply /\ a.entry = f.entry /\ a.proof = v
  BY <1>1, <1>3, Zenon DEF Reply
<1> HIDE DEF a
<1>6. /\ fetched' \in [Sessions -> SUBSET Fetched] /\ fetched'[s] = fetched[s] \ {f}
      /\ answers' \in [Sessions -> SUBSET Reply] /\ answers'[s] = answers[s] \cup {a}
      /\ \A u \in Sessions \ {s} : fetched'[u] = fetched[u] /\ answers'[u] = answers[u]
  BY <1>1, <1>2, <1>5, Zenon DEF TypeOK
<1>7. /\ written' = written /\ store' = store /\ sent' = sent /\ token' = token /\ seen' = seen
      /\ request' = request /\ pc' = pc /\ found' = found /\ gathered' = gathered
  BY <1>2, Zenon DEF sessionVars
<1>8. TypeOK'
  BY <1>1, <1>4, <1>6, <1>7, Zenon DEF TypeOK
<1>9. SessionOK(s)'
  BY <1>1, <1>3, <1>5, <1>6, <1>7, Zenon DEF SessionOK
<1>10. \A u \in Sessions \ {s} : SameSession(u)
  BY <1>6, <1>7, Zenon DEF SameSession
<1> QED BY <1>4, <1>7, <1>8, <1>9, <1>10, SessionFrame, Zenon

LEMMA GatherStep ==
  ASSUME IndInv, NEW s \in Sessions, Gather(s)
  PROVE  IndInv'
<1>1. /\ TypeOK /\ SessionOK(s) /\ pc[s] = "fetch"
  BY Zenon DEF IndInv, Gather
<1>2. /\ pc' \in [Sessions -> {"idle", "fetch", "merge", "mutate", "answer"}] /\ pc'[s] = "merge"
      /\ fetched' \in [Sessions -> SUBSET Fetched] /\ fetched'[s] = {}
      /\ \A u \in Sessions \ {s} : pc'[u] = pc[u] /\ fetched'[u] = fetched[u]
  BY <1>1, Zenon DEF TypeOK, Gather
<1>3. /\ written' = written /\ store' = store /\ frontier' = frontier /\ sent' = sent
      /\ token' = token /\ seen' = seen /\ request' = request /\ found' = found
      /\ answers' = answers /\ gathered' = gathered
  BY Zenon DEF Gather, nodeVars, sessionVars
<1>4. TypeOK'
  BY <1>1, <1>2, <1>3, Zenon DEF TypeOK
<1>5. SessionOK(s)'
  BY <1>1, <1>2, <1>3, Zenon DEF SessionOK
<1>6. \A u \in Sessions \ {s} : SameSession(u)
  BY <1>2, <1>3, Zenon DEF SameSession
<1> QED BY <1>3, <1>4, <1>5, <1>6, SameNodes, SessionFrame, Zenon

LEMMA MergeAnswerStep ==
  ASSUME IndInv, NEW s \in Sessions, NEW a \in answers[s], MergeAnswer(s, a)
  PROVE  IndInv'
<1> DEFINE n == request[s].node
           k == request[s].key
           merged == MergeEntries(store[n][k], a.entry)
           plain == Merge(gathered[s], a.proof)
           full == Merge(plain, merged.context)
<1>1. /\ pc[s] = "merge" /\ answers' = [answers EXCEPT ![s] = @ \ {a}]
      /\ \/ a.entry = NoEntry /\ gathered' = [gathered EXCEPT ![s] = plain] /\ UNCHANGED <<store, frontier>>
         \/ gathered' = [gathered EXCEPT ![s] = full] /\ MergeAt(n, k, a.entry)
      /\ UNCHANGED <<written, sent, sessionVars, request, pc, found, fetched>>
  BY Zenon DEF MergeAnswer
<1>2. /\ TypeOK /\ SessionOK(s) /\ written \in Histories /\ a.entry \in Entry /\ a.proof \in Vector
      /\ gathered[s] \in Vector /\ Grounded(written, k, a.entry) /\ Within(written, a.proof)
      /\ Within(written, gathered[s]) /\ n \in Nodes /\ k \in Keys
  BY <1>1, Types, RequestTypes, Zenon DEF IndInv, SessionOK
<1>3. plain \in Vector /\ Within(written, plain)
  BY <1>2, MergeIsJoin, WithinMerge, Zenon
<1>4. store[n][k] \in Entry /\ Grounded(written, k, store[n][k])
  BY <1>2, Types, Zenon DEF IndInv, NodeOK
<1>5. full \in Vector /\ Within(written, full)
  <2>1. merged \in Entry /\ Grounded(written, k, merged)
    BY <1>2, <1>4, MergeEntriesResult, MergeIsGrounded, Zenon
  <2>2. merged.context \in Vector /\ Within(written, merged.context)
    BY <2>1, EntryParts, Zenon DEF Grounded
  <2> HIDE DEF plain, merged
  <2> QED BY <1>2, <1>3, <2>2, MergeIsJoin, WithinMerge, Zenon
<1>6. /\ store' \in [Nodes -> [Keys -> Entry]] /\ frontier' \in [Nodes -> Vector]
      /\ \A m \in Nodes : NodeOK(m)'
  <2>1. CASE UNCHANGED <<store, frontier>>
    BY <1>1, <1>2, <2>1, SameNodes, Zenon DEF TypeOK
  <2>2. CASE MergeAt(n, k, a.entry)
    BY <1>1, <1>2, <2>2, MergeAtStep, Zenon
  <2> QED BY <1>1, <2>1, <2>2, Zenon
<1> HIDE DEF plain, full, n, k
<1>7. /\ gathered' \in [Sessions -> Vector] /\ Within(written, gathered'[s])
      /\ answers' \in [Sessions -> SUBSET Reply] /\ answers'[s] = answers[s] \ {a}
      /\ \A u \in Sessions \ {s} : gathered'[u] = gathered[u] /\ answers'[u] = answers[u]
  BY <1>1, <1>2, <1>3, <1>5, Zenon DEF TypeOK
<1>8. /\ written' = written /\ sent' = sent /\ token' = token /\ seen' = seen
      /\ request' = request /\ pc' = pc /\ found' = found /\ fetched' = fetched
  BY <1>1, Zenon DEF sessionVars
<1>9. TypeOK'
  BY <1>2, <1>6, <1>7, <1>8, Zenon DEF TypeOK
<1>10. SessionOK(s)'
  BY SMTT(30), <1>1, <1>2, <1>7, <1>8 DEF SessionOK
<1>11. \A u \in Sessions \ {s} : SameSession(u)
  BY <1>7, <1>8, Zenon DEF SameSession
<1> QED BY <1>6, <1>8, <1>9, <1>10, <1>11, SessionFrame, Zenon

LEMMA RecheckStep ==
  ASSUME IndInv, NEW s \in Sessions, Recheck(s)
  PROVE  IndInv'
<1> DEFINE n == request[s].node
           k == request[s].key
           proved == Merge(gathered[s], store[n][k].context)
<1>1. /\ pc[s] = "merge" /\ answers[s] = {}
      /\ UNCHANGED <<store, frontier>> \/ MergeAt(n, k, OnlyContext(proved))
      /\ \/ Pass(s, request[s].kind, store'[n][k]) /\ UNCHANGED <<request, repairVars>>
         \/ End(s)
      /\ UNCHANGED <<written, sent, sessionVars>>
  BY Zenon DEF Recheck
<1>2. /\ TypeOK /\ SessionOK(s) /\ written \in Histories /\ n \in Nodes /\ k \in Keys
      /\ gathered[s] \in Vector /\ Within(written, gathered[s])
  BY <1>1, Types, RequestTypes, Zenon DEF IndInv, SessionOK
<1>3. store[n][k].context \in Vector /\ Within(written, store[n][k].context)
  BY <1>2, Types, Zenon DEF IndInv, NodeOK, Grounded
<1>4. proved \in Vector /\ Within(written, proved)
  BY <1>2, <1>3, MergeIsJoin, WithinMerge, Zenon
<1>5. written' = written /\ sent' = sent /\ token' = token /\ seen' = seen
  BY <1>1, Zenon DEF sessionVars
<1> HIDE DEF proved
<1>6. OnlyContext(proved) \in Entry /\ Grounded(written, k, OnlyContext(proved))
  BY <1>2, <1>4, NoEntryIsEntry, ContextIsGrounded, Zenon
<1>7. /\ store' \in [Nodes -> [Keys -> Entry]] /\ frontier' \in [Nodes -> Vector]
      /\ \A m \in Nodes : NodeOK(m)'
  <2>1. CASE UNCHANGED <<store, frontier>>
    BY <1>2, <1>5, <2>1, SameNodes, Zenon DEF TypeOK
  <2>2. CASE MergeAt(n, k, OnlyContext(proved))
    BY <1>2, <1>5, <1>6, <2>2, MergeAtStep, Zenon
  <2> QED BY <1>1, <2>1, <2>2, Zenon
<1> HIDE DEF n, k
<1>8. CASE End(s)
  BY <1>2, <1>5, <1>7, <1>8, EndStep, Zenon DEF TypeOK, SessionOK
<1>9. CASE Pass(s, request[s].kind, store'[n][k]) /\ UNCHANGED <<request, repairVars>>
  <2>1. store'[n][k] \in Entry /\ Within(written, store'[n][k].context)
    BY <1>2, <1>5, <1>7, Zenon DEF NodeOK, Grounded
  <2>2. /\ pc' \in [Sessions -> {"idle", "fetch", "merge", "mutate", "answer"}] /\ pc'[s] # "idle"
        /\ found' \in [Sessions -> Entry] /\ found'[s] = store'[n][k]
        /\ \A u \in Sessions \ {s} : pc'[u] = pc[u] /\ found'[u] = found[u]
    BY <1>2, <1>9, <2>1, Zenon DEF TypeOK, Pass
  <2>3. request' = request /\ fetched' = fetched /\ answers' = answers /\ gathered' = gathered
    BY <1>9, Zenon DEF repairVars
  <2>4. TypeOK'
    <3>1. \A u \in Sessions : pc'[u] = "idle" <=> request'[u] = NoRequest
      BY <1>1, <1>2, <2>2, <2>3, Zenon DEF TypeOK
    <3> QED BY <1>2, <1>5, <1>7, <2>2, <2>3, <3>1, Zenon DEF TypeOK
  <2>5. SessionOK(s)'
    BY <1>1, <1>2, <1>5, <2>1, <2>2, <2>3, Zenon DEF SessionOK
  <2>6. \A u \in Sessions \ {s} : SameSession(u)
    BY <1>5, <2>2, <2>3, Zenon DEF SameSession
  <2> QED BY <1>5, <1>7, <2>4, <2>5, <2>6, SessionFrame, Zenon
<1> QED BY <1>1, <1>8, <1>9, Zenon

LEMMA AnswerStep ==
  ASSUME IndInv, NEW s \in Sessions, Answer(s)
  PROVE  IndInv'
<1> DEFINE n == request[s].node
           k == request[s].key
           v == Merge(frontier[n], found[s].context)
           t == Merge(token[s], v)
           d == [a \in Actors |-> seen[s][k][a] \cup found[s].dots[a]]
<1>1. /\ pc[s] = "answer" /\ frontier' = [frontier EXCEPT ![n] = v]
      /\ token' = [token EXCEPT ![s] = t] /\ End(s)
      /\ seen' = [seen EXCEPT ![s][k] = [a \in Actors |-> @[a] \cup found[s].dots[a]]]
      /\ written' = written /\ store' = store /\ sent' = sent
  BY Zenon DEF Answer
<1>2. /\ TypeOK /\ SessionOK(s) /\ written \in Histories /\ n \in Nodes /\ k \in Keys
      /\ found[s] \in Entry /\ found[s].context \in Vector /\ Within(written, found[s].context)
      /\ token[s] \in Vector /\ Within(written, token[s])
  BY <1>1, Types, RequestTypes, Zenon DEF IndInv, SessionOK
<1>3. v \in Vector /\ Within(written, v)
  BY <1>2, OwnCounter, Zenon
<1>4. frontier' \in [Nodes -> Vector] /\ \A m \in Nodes : NodeOK(m)'
  BY <1>1, <1>2, ObserveStep, Zenon
<1> HIDE DEF v
<1>5. t \in Vector /\ Within(written, t)
  BY <1>2, <1>3, MergeIsJoin, WithinMerge, Zenon
<1> HIDE DEF t
<1>6. token' \in [Sessions -> Vector] /\ token'[s] = t /\ \A u \in Sessions \ {s} : token'[u] = token[u]
  BY <1>1, <1>2, <1>5, Zenon DEF TypeOK
<1>7. seen' \in [Sessions -> [Keys -> Dots]]
  <2>1. seen \in [Sessions -> [Keys -> Dots]]
    BY <1>2, Zenon DEF TypeOK
  <2>2. seen[s][k] \in Dots /\ found[s].dots \in Dots
    BY <1>2, <2>1, EntryParts, Zenon
  <2>3. d \in Dots
    BY <2>2, Zenon DEF Dots
  <2>4. seen' = [seen EXCEPT ![s] = [seen[s] EXCEPT ![k] = d]]
    BY <1>1, <1>2, <2>1, Zenon
  <2> HIDE DEF d, k
  <2> QED BY <1>2, <2>1, <2>3, <2>4, Zenon
<1>8. store' \in [Nodes -> [Keys -> Entry]]
  BY <1>1, <1>2, Zenon DEF TypeOK
<1> QED BY <1>1, <1>4, <1>5, <1>6, <1>7, <1>8, EndStep, Zenon

\* What a session holds stays grounded when somebody writes.
LEMMA SessionGrows ==
  ASSUME IndInv, NEW s \in Sessions, written' \in Histories, Extends(written, written'),
         token'[s] = token[s], request'[s] = request[s], gathered'[s] = gathered[s],
         fetched'[s] = fetched[s], answers'[s] = answers[s],
         pc'[s] = "idle" <=> pc[s] = "idle", Within(written', found'[s].context)
  PROVE  SessionOK(s)'
<1>1. TypeOK /\ SessionOK(s) /\ written \in Histories /\ token[s] \in Vector /\ gathered[s] \in Vector
  BY Types, Zenon DEF IndInv
<1>2. Within(written', token[s]) /\ Within(written', gathered[s])
  BY <1>1, WithinGrows, Zenon DEF SessionOK
<1>3. pc[s] # "idle" => Within(written', request[s].token)
  BY <1>1, RequestTypes, WithinGrows, Zenon DEF SessionOK
<1>4. ASSUME NEW f \in fetched[s] PROVE Grounded(written', request[s].key, f.entry)
  <2>1. pc[s] # "idle" /\ f.entry \in Entry /\ Grounded(written, request[s].key, f.entry)
    BY <1>1, Types, Zenon DEF SessionOK
  <2> QED BY <1>1, <2>1, RequestTypes, GroundedGrows, Zenon
<1>5. ASSUME NEW a \in answers[s]
      PROVE  Grounded(written', request[s].key, a.entry) /\ Within(written', a.proof)
  <2>1. pc[s] # "idle" /\ a.entry \in Entry /\ Grounded(written, request[s].key, a.entry)
        /\ a.proof \in Vector /\ Within(written, a.proof)
    BY <1>1, Types, Zenon DEF SessionOK
  <2> QED BY <1>1, <2>1, RequestTypes, GroundedGrows, WithinGrows, Zenon
<1> QED BY <1>1, <1>2, <1>3, <1>4, <1>5, Zenon DEF SessionOK

LEMMA MutateStep ==
  ASSUME IndInv, NEW s \in Sessions, Mutate(s)
  PROVE  IndInv'
<1> DEFINE n == request[s].node
           k == request[s].key
           base == Base(n, k, request[s].token)
           counter == base[n] + 1
           new == Mutated(store[n][k], base, n, counter)
           c == WithDot(base, n, counter)
           msg == [key |-> k, entry |-> new]
<1>1. /\ pc[s] = "mutate" /\ written' = [written EXCEPT ![n] = Append(@, k)]
      /\ store' = [store EXCEPT ![n][k] = new] /\ frontier' = [frontier EXCEPT ![n] = c]
      /\ sent' = sent \cup {msg}
      /\ pc' = [pc EXCEPT ![s] = "answer"] /\ found' = [found EXCEPT ![s] = new]
      /\ UNCHANGED <<sessionVars, request, repairVars>>
  BY Zenon DEF Mutate, Allocation
<1>2. /\ TypeOK /\ SessionOK(s) /\ written \in Histories /\ n \in Nodes /\ k \in Keys
      /\ request[s].token \in Vector /\ Within(written, request[s].token)
  BY <1>1, Types, RequestTypes, Zenon DEF IndInv, SessionOK
<1>3. /\ NodeOK(n) /\ store[n][k] \in Entry /\ store[n][k].context \in Vector
      /\ Grounded(written, k, store[n][k]) /\ OwnComplete(written, k, store[n][k], n)
      /\ frontier[n] \in Vector /\ Len(written[n]) \in Nat
      /\ \A j \in Keys : store[n][j].context \in Vector /\ Leq(store[n][j].context, frontier[n])
  BY <1>2, Types, Zenon DEF IndInv, NodeOK
<1>4. base \in Vector /\ Within(written, base) /\ base[n] = Len(written[n]) /\ Leq(frontier[n], base)
  <2> DEFINE v == Merge(store[n][k].context, request[s].token)
  <2>1. v \in Vector /\ Within(written, v)
    BY <1>2, <1>3, MergeIsJoin, WithinMerge, Zenon DEF Grounded
  <2>2. base = Merge(frontier[n], v)
    BY Zenon DEF Base
  <2> HIDE DEF v, base
  <2> QED BY <1>2, <2>1, <2>2, OwnCounter, Zenon
<1> DEFINE e == store[n][k]
           x == e.context
           y == frontier[n]
<1>5. Leq(e.context, base)
  <2>1. x \in Vector /\ y \in Vector /\ Leq(x, y)
    BY <1>2, <1>3, Zenon
  <2>2. base \in Vector /\ Leq(y, base)
    BY <1>4, Zenon
  <2> HIDE DEF x, y, base
  <2>3. Leq(x, base)
    BY <2>1, <2>2, LeqOrder, Zenon
  <2> QED BY <2>3, Zenon DEF x
<1> HIDE DEF base, n, k
<1>6. counter \in Nat /\ counter = Len(written[n]) + 1
  BY SMTT(30), <1>3, <1>4
<1> HIDE DEF counter
<1>7. written' \in Histories /\ Appended(written, written', n, k) /\ Extends(written, written')
  <2>1. written' \in Histories /\ Appended(written, written', n, k)
    BY <1>1, <1>2, AppendExtends, Zenon DEF Nodes
  <2> QED BY <1>2, <2>1, AppendedExtends, Zenon DEF Nodes
<1>8. /\ new \in Entry /\ Grounded(written', k, new) /\ OwnComplete(written', k, new, n)
      /\ c \in Vector /\ Within(written', c) /\ c[n] = Len(written'[n])
      /\ new.context = c /\ Leq(base, c)
  <2> DEFINE w2 == written'
  <2>1. /\ written \in Histories /\ w2 \in Histories /\ k \in Keys /\ e \in Entry /\ n \in Actors
        /\ base \in Vector /\ counter \in Nat /\ counter = Len(written[n]) + 1
    BY <1>2, <1>3, <1>4, <1>6, <1>7, Zenon DEF Nodes
  <2>2. /\ Grounded(written, k, e) /\ OwnComplete(written, k, e, n) /\ Within(written, base)
        /\ Leq(e.context, base) /\ Appended(written, w2, n, k)
    BY <1>3, <1>4, <1>5, <1>7, Zenon
  <2>3. new = Mutated(e, base, n, counter)
    OBVIOUS
  <2> HIDE DEF w2, e, new
  <2>4. /\ new \in Entry /\ Grounded(w2, k, new) /\ OwnComplete(w2, k, new, n)
        /\ c \in Vector /\ Within(w2, c) /\ c[n] = Len(w2[n])
        /\ new.context = c /\ Leq(base, c)
    BY <2>1, <2>2, <2>3, MutationIsGrounded
  <2> QED BY <2>4, Zenon DEF w2
<1> HIDE DEF new, c, e
<1>9. /\ store' \in [Nodes -> [Keys -> Entry]] /\ frontier' \in [Nodes -> Vector]
      /\ store'[n][k] = new /\ frontier'[n] = c
      /\ \A j \in Keys \ {k} : store'[n][j] = store[n][j]
      /\ \A m \in Nodes \ {n} : store'[m] = store[m] /\ frontier'[m] = frontier[m]
  BY <1>1, <1>2, <1>8, Zenon DEF TypeOK
<1>10. ASSUME NEW j \in Keys
       PROVE  /\ Grounded(written', j, store'[n][j]) /\ Leq(store'[n][j].context, c)
              /\ OwnComplete(written', j, store'[n][j], n)
  <2>1. CASE j = k
    BY <1>8, <1>9, <2>1, LeqOrder, Zenon
  <2>2. CASE j # k
    <3>1. store'[n][j] = store[n][j] /\ store[n][j] \in Entry /\ Grounded(written, j, store[n][j])
          /\ OwnComplete(written, j, store[n][j], n)
      BY <1>2, <1>3, <1>9, <2>2, Types, Zenon DEF NodeOK
    <3>2. Leq(store[n][j].context, base)
      BY <1>3, <1>4, LeqOrder, Zenon
    <3>3. Leq(store[n][j].context, c)
      BY <1>3, <1>4, <1>8, <3>2, LeqOrder, Zenon
    <3>4. OwnComplete(written', j, store[n][j], n)
      BY <1>2, <1>7, <2>2, <3>1, CompleteElsewhere, Zenon DEF Nodes
    <3> QED BY <1>2, <1>7, <3>1, <3>3, <3>4, GroundedGrows, Zenon
  <2> QED BY <2>1, <2>2, Zenon
<1>11. ASSUME NEW m \in Nodes, m = n PROVE NodeOK(m)'
  BY <1>8, <1>9, <1>10, <1>11, Zenon DEF NodeOK
<1>12. ASSUME NEW m \in Nodes, m # n PROVE NodeOK(m)'
  <2>1. NodeOK(m) /\ frontier[m] \in Vector /\ \A j \in Keys : store[m][j] \in Entry
    BY <1>2, Types, Zenon DEF IndInv
  <2>2. written'[m] = written[m]
    BY <1>7, <1>12, Zenon DEF Appended, Nodes
  <2>3. Within(written', frontier[m])
    BY <1>2, <1>7, <2>1, WithinGrows, Zenon DEF NodeOK
  <2>4. ASSUME NEW j \in Keys
        PROVE  Grounded(written', j, store[m][j]) /\ OwnComplete(written', j, store[m][j], m)
    BY <1>2, <1>7, <1>12, <2>1, GroundedGrows, CompleteElsewhere, Zenon DEF NodeOK, Nodes
  <2> QED BY <1>9, <1>12, <2>1, <2>2, <2>3, <2>4, Zenon DEF NodeOK
<1>13. msg \in Message /\ msg.key = k /\ msg.entry = new
  BY <1>2, <1>8, Zenon DEF Message
<1> HIDE DEF msg
<1>14. /\ pc' \in [Sessions -> {"idle", "fetch", "merge", "mutate", "answer"}] /\ pc'[s] = "answer"
       /\ found' \in [Sessions -> Entry] /\ found'[s] = new
       /\ \A u \in Sessions \ {s} : pc'[u] = pc[u] /\ found'[u] = found[u]
       /\ token' = token /\ seen' = seen /\ request' = request /\ fetched' = fetched
       /\ answers' = answers /\ gathered' = gathered
  BY <1>1, <1>2, <1>8, Zenon DEF TypeOK, sessionVars, repairVars
<1>15. TypeOK'
  <2>1. \A u \in Sessions : pc'[u] = "idle" <=> request'[u] = NoRequest
    BY <1>1, <1>2, <1>14 DEF TypeOK
  <2>2. sent' \in SUBSET Message
    BY <1>1, <1>2, <1>13, Zenon DEF TypeOK
  <2>3. written' \in [Nodes -> Seq(Keys)]
    BY <1>7, Zenon DEF Histories, Nodes
  <2> QED BY <1>2, <1>9, <1>14, <2>1, <2>2, <2>3, Zenon DEF TypeOK
<1>16. SentOK'
  <2>1. ASSUME NEW m \in sent PROVE Grounded(written', m.key, m.entry)
    BY <1>2, <1>7, Types, GroundedGrows, Zenon DEF IndInv, SentOK
  <2> QED BY <1>1, <1>8, <1>13, <2>1, Zenon DEF SentOK
<1>17. ASSUME NEW u \in Sessions PROVE SessionOK(u)'
  <2>1. Within(written', found'[u].context)
    <3>1. CASE u = s
      BY <1>8, <1>14, <3>1, Zenon
    <3>2. CASE u # s
      BY <1>2, <1>7, <1>14, <3>2, Types, WithinGrows, Zenon DEF IndInv, SessionOK
    <3> QED BY <3>1, <3>2, Zenon
  <2>2. pc'[u] = "idle" <=> pc[u] = "idle"
    BY <1>1, <1>14, Zenon
  <2> QED BY <1>7, <1>14, <2>1, <2>2, SessionGrows, Zenon
<1> QED BY <1>11, <1>12, <1>15, <1>16, <1>17, Zenon DEF IndInv

LEMMA DeliverStep ==
  ASSUME IndInv, NEW n \in Nodes, NEW m \in sent, Deliver(n, m)
  PROVE  IndInv'
<1>1. TypeOK /\ m.entry \in Entry /\ m.key \in Keys /\ Grounded(written, m.key, m.entry)
  BY Types, Zenon DEF IndInv, SentOK
<1>2. /\ MergeAt(n, m.key, m.entry) /\ written' = written /\ sent' = sent
      /\ token' = token /\ seen' = seen /\ request' = request /\ pc' = pc /\ found' = found
      /\ fetched' = fetched /\ answers' = answers /\ gathered' = gathered
  BY Zenon DEF Deliver, sessionVars, repairVars
<1>3. /\ store' \in [Nodes -> [Keys -> Entry]] /\ frontier' \in [Nodes -> Vector]
      /\ \A p \in Nodes : NodeOK(p)'
  BY <1>1, <1>2, MergeAtStep, Zenon
<1>4. TypeOK'
  BY <1>1, <1>2, <1>3, Zenon DEF TypeOK
<1>5. SentOK'
  BY <1>2, Zenon DEF IndInv, SentOK
<1>6. \A s \in Sessions : SessionOK(s)'
  BY <1>2, OtherSession, Zenon DEF SameSession
<1> QED BY <1>3, <1>4, <1>5, <1>6, Zenon DEF IndInv

-----------------------------------------------------------------------------
(* The induction *)

LEMMA InitIndInv ==
  ASSUME Init
  PROVE  IndInv
<1>1. Zero \in Vector /\ NoEntry \in Entry /\ NoEntry.context = Zero /\ NoEntry.dots \in Dots
      /\ Leq(Zero, Zero)
  BY NoEntryIsEntry, EntryParts, Zenon DEF NoEntry
<1>2. TypeOK
  BY <1>1 DEF Init, TypeOK
<1>3. written \in Histories /\ Within(written, Zero) /\ \A k \in Keys : Grounded(written, k, NoEntry)
  BY <1>2, Types, NothingIsGrounded, Zenon
<1>4. ASSUME NEW n \in Nodes PROVE NodeOK(n)
  <2>1. written[n] = <<>> /\ frontier[n] = Zero /\ \A k \in Keys : store[n][k] = NoEntry
    BY Zenon DEF Init
  <2>2. Len(written[n]) = 0 /\ Zero[n] = 0
    BY <2>1, Zenon DEF Zero, Nodes
  <2> QED BY <1>1, <1>3, <2>1, <2>2 DEF NodeOK, OwnComplete
<1>5. SentOK /\ \A s \in Sessions : SessionOK(s)
  BY <1>1, <1>3, Zenon DEF Init, SentOK, SessionOK
<1> QED BY <1>2, <1>4, <1>5, Zenon DEF IndInv

LEMMA SessionNext ==
  ASSUME IndInv, NEW s \in Sessions, SessionStep(s)
  PROVE  IndInv'
<1>1. CASE \E kind \in {"read", "write", "remove"}, c \in Nodes \cup Routers, k \in Keys :
             Begin(s, kind, Route(c, k), k)
  BY <1>1, BeginStep, RouteIsNode, Zenon
<1>2. CASE Fail(s)
  BY <1>2, FailStep, Zenon
<1>3. CASE \E p \in Nodes : FetchRead(s, p)
  BY <1>3, FetchReadStep, Zenon
<1>4. CASE \E f \in fetched[s] : FetchAnswer(s, f)
  BY <1>4, FetchAnswerStep, Zenon
<1>5. CASE Gather(s)
  BY <1>5, GatherStep
<1>6. CASE \E a \in answers[s] : MergeAnswer(s, a)
  BY <1>6, MergeAnswerStep
<1>7. CASE Recheck(s)
  BY <1>7, RecheckStep
<1>8. CASE Mutate(s)
  BY <1>8, MutateStep
<1>9. CASE Answer(s)
  BY <1>9, AnswerStep
<1> QED BY <1>1, <1>2, <1>3, <1>4, <1>5, <1>6, <1>7, <1>8, <1>9, Zenon DEF SessionStep

LEMMA NextStep ==
  ASSUME IndInv, [Next]_vars
  PROVE  IndInv'
<1>1. CASE \E s \in Sessions : SessionStep(s)
  BY <1>1, SessionNext, Zenon
<1>2. CASE \E n \in Nodes, m \in sent : Deliver(n, m)
  BY <1>2, DeliverStep, Zenon
<1>3. CASE UNCHANGED vars
  <2>1. TypeOK' /\ SentOK'
    BY <1>3, Zenon DEF vars, IndInv, TypeOK, SentOK
  <2>2. \A n \in Nodes : NodeOK(n)'
    BY <1>3, Zenon DEF vars, IndInv, NodeOK
  <2>3. \A s \in Sessions : SessionOK(s)'
    BY <1>3, Zenon DEF vars, IndInv, SessionOK
  <2> QED BY <2>1, <2>2, <2>3, Zenon DEF IndInv
<1> QED BY <1>1, <1>2, <1>3, Zenon DEF Next

LEMMA InductiveInvariant == Spec => []IndInv
BY InitIndInv, NextStep, PTL DEF Spec

\* A session has a request exactly while it is not idle, and every message, entry
\* and vector keeps its shape.
THEOREM ClusterTypeCorrect == Spec => []TypeOK
<1>1. IndInv => TypeOK
  BY Zenon DEF IndInv
<1> QED BY <1>1, InductiveInvariant, PTL

\* The clock of a node counts its own mutations, and no clock, token, repair or
\* proof of _fetch_response() names a mutation that was not made.
THEOREM KnowledgeIsGrounded == Spec => []NoFutureKnowledge
<1>1. IndInv => NoFutureKnowledge
  BY Zenon DEF IndInv, NodeOK, SessionOK, Within, NoFutureKnowledge, Nodes
<1> QED BY <1>1, InductiveInvariant, PTL

\* The clock of a node dominates the contexts of its entries, and these dominate
\* their versions, after any merge, repair or mutation.
THEOREM ClockIsAhead == Spec => []ClockCoversStore
<1>1. ASSUME IndInv PROVE ClockCoversStore
  <2>1. ASSUME NEW n \in Nodes, NEW k \in Keys
        PROVE  /\ Dominates(frontier[n], store[n][k].context)
               /\ Dominates(store[n][k].context, store[n][k].version)
    <3>1. /\ frontier[n] \in Vector /\ store[n][k].context \in Vector /\ store[n][k].version \in Vector
          /\ Leq(store[n][k].context, frontier[n]) /\ Leq(store[n][k].version, store[n][k].context)
      BY <1>1, Types, EntryParts, Zenon DEF IndInv, NodeOK, Grounded
    <3> QED BY <3>1, CompareIsOrder, Zenon
  <2> QED BY <2>1, Zenon DEF ClockCoversStore
<1> QED BY <1>1, InductiveInvariant, PTL

\* Of two entries of a key anywhere in the cluster, the one whose version
\* dominates contains the mutations of the other: compare_digest() may go by the
\* versions alone.
THEOREM VersionsCanBeTrusted == Spec => []VersionsTellStates
<1>1. ASSUME IndInv PROVE VersionsTellStates
  <2>1. ASSUME NEW k \in Keys, NEW e \in EntriesOf(k) PROVE e \in Entry /\ Exact(written, k, e)
    <3>1. CASE e \in {store[n][k] : n \in Nodes}
      BY <1>1, <3>1, Types, Zenon DEF IndInv, NodeOK, Grounded
    <3>2. CASE e \in {m.entry : m \in {x \in sent : x.key = k}}
      BY <1>1, <3>2, Types, Zenon DEF IndInv, SentOK, Grounded
    <3>3. CASE e \in UNION {{a.entry : a \in fetched[s] \cup answers[s]} :
                              s \in {x \in Sessions : pc[x] # "idle" /\ request[x].key = k}}
      <4>1. PICK s \in Sessions : request[s].key = k /\ e \in {a.entry : a \in fetched[s] \cup answers[s]}
        BY <3>3, Zenon
      <4> QED BY <1>1, <4>1, Types, Zenon DEF IndInv, SessionOK, Grounded
    <3> QED BY <2>1, <3>1, <3>2, <3>3, Zenon DEF EntriesOf
  <2>2. ASSUME NEW k \in Keys, NEW e \in EntriesOf(k), NEW f \in EntriesOf(k),
               Dominates(e.version, f.version), NEW a \in Actors
        PROVE  f.dots[a] \subseteq e.dots[a]
    <3>1. e \in Entry /\ f \in Entry /\ Exact(written, k, e) /\ Exact(written, k, f)
      BY <2>1, Zenon
    <3>2. e.version \in Vector /\ f.version \in Vector
      BY <3>1, EntryParts, Zenon
    <3>3. e.version[a] \in Nat /\ f.version[a] \in Nat /\ f.version[a] <= e.version[a]
      BY <2>2, <3>2, CompareIsOrder, Zenon DEF Leq, Vector
    <3>4. /\ e.dots[a] = {i \in 1..Len(written[a]) : i <= e.version[a] /\ written[a][i] = k}
          /\ f.dots[a] = {i \in 1..Len(written[a]) : i <= f.version[a] /\ written[a][i] = k}
      BY <3>1, Zenon DEF Exact, DotsUpTo
    <3>5. Len(written[a]) \in Nat
      BY <1>1, Types, Zenon DEF IndInv, Nodes
    <3> QED BY <3>3, <3>4, <3>5
  <2> QED BY <2>2, Zenon DEF VersionsTellStates
<1> QED BY <1>1, InductiveInvariant, PTL
-----------------------------------------------------------------------------
(* CausalCluster implements AtomicReplica at every node *)

\* What a handler has read at a node, the clock of the node has observed.
Observed(s) ==
  /\ \A f \in fetched[s] : Leq(f.entry.context, frontier[f.peer])
  /\ pc[s] = "answer" => Leq(found[s].context, frontier[request[s].node])

ObservedInv == \A s \in Sessions : Observed(s)

\* A step adds to what session s holds only what it finds in a store.
FreshReads(s) ==
  /\ \A f \in fetched'[s] : f \in fetched[s] \/ \E k \in Keys : f.entry = store'[f.peer][k]
  /\ pc'[s] = "answer" =>
       \/ pc[s] = "answer" /\ found'[s] = found[s] /\ request'[s] = request[s]
       \/ \E k \in Keys : found'[s] = store'[request'[s].node][k]

\* A step of the cluster is a step or a stutter of the replica at node m.
AtomicAt(m) == Leq(frontier[m], frontier'[m]) /\ (Node(m)!Next \/ UNCHANGED Node(m)!vars)

LEMMA ObservedStays ==
  ASSUME IndInv, IndInv', ObservedInv, NEW s \in Sessions, FreshReads(s),
         \A m \in Nodes : Leq(frontier[m], frontier'[m])
  PROVE  Observed(s)'
<1>1. /\ TypeOK /\ TypeOK' /\ Observed(s)
      /\ \A m \in Nodes : /\ frontier[m] \in Vector /\ frontier'[m] \in Vector
                          /\ \A k \in Keys : Leq(store'[m][k].context, frontier'[m])
  BY Zenon DEF IndInv, TypeOK, NodeOK, ObservedInv
<1>2. ASSUME NEW f \in fetched'[s] PROVE Leq(f.entry.context, frontier'[f.peer])
  <2>1. fetched'[s] \subseteq Fetched
    BY <1>1, Zenon DEF TypeOK
  <2>2. f.peer \in Nodes /\ f.entry.context \in Vector
    BY <2>1, EntryParts, Zenon DEF Fetched
  <2>3. CASE f \in fetched[s]
    BY <1>1, <2>2, <2>3, LeqOrder, Zenon DEF Observed
  <2> QED BY <1>1, <2>2, <2>3, Zenon DEF FreshReads
<1>3. ASSUME pc'[s] = "answer" PROVE Leq(found'[s].context, frontier'[request'[s].node])
  <2>1. request'[s] \in Request
    BY <1>1, <1>3, Zenon DEF TypeOK
  <2>2. request'[s].node \in Nodes
    BY <2>1, Zenon DEF Request
  <2>3. found[s].context \in Vector
    BY <1>1, Types, Zenon
  <2>4. CASE pc[s] = "answer" /\ found'[s] = found[s] /\ request'[s] = request[s]
    BY <1>1, <2>2, <2>3, <2>4, LeqOrder DEF Observed
  <2> QED BY <1>1, <1>3, <2>2, <2>4, Zenon DEF FreshReads
<1> QED BY <1>2, <1>3, Zenon DEF Observed

\* What the steps of a session read.
LEMMA StepReads ==
  ASSUME IndInv, NEW s \in Sessions, SessionStep(s)
  PROVE  \A u \in Sessions : FreshReads(u)
<1>1. TypeOK
  BY Zenon DEF IndInv
<1>2. ASSUME NEW kind \in {"read", "write", "remove"}, NEW n \in Nodes, NEW k \in Keys,
             Begin(s, kind, n, k)
      PROVE  \A u \in Sessions : FreshReads(u)
  <2>1. token[s] \in Vector
    BY <1>1, Types, Zenon
  <2>2. request' = [request EXCEPT ![s] = DecodeRequest(n, EncodeRequest(kind, k, token[s]))]
    BY <1>2, Zenon DEF Begin
  <2>3. request'[s].node = n /\ \A u \in Sessions \ {s} : request'[u] = request[u]
    BY <1>1, <2>1, <2>2, DecodedRequest DEF TypeOK
  <2>4. /\ fetched' = fetched /\ store' = store
        /\ pc'[s] = "answer" => found'[s] = store[n][k]
        /\ \A u \in Sessions \ {s} : pc'[u] = pc[u] /\ found'[u] = found[u]
    BY <1>1, <1>2, Zenon DEF TypeOK, Begin, Pass, nodeVars
  <2> QED BY <2>3, <2>4, Zenon DEF FreshReads
<1>3. ASSUME End(s) PROVE \A u \in Sessions : FreshReads(u)
  <2>1. /\ pc'[s] = "idle" /\ fetched'[s] = {}
        /\ \A u \in Sessions \ {s} : /\ pc'[u] = pc[u] /\ found'[u] = found[u]
                                     /\ fetched'[u] = fetched[u] /\ request'[u] = request[u]
    BY <1>1, <1>3, Zenon DEF TypeOK, End
  <2> QED BY <2>1, Zenon DEF FreshReads
<1>4. ASSUME NEW p \in Nodes, FetchRead(s, p) PROVE \A u \in Sessions : FreshReads(u)
  <2>1. request[s].key \in Keys
    BY <1>1, <1>4, RequestTypes, Zenon DEF FetchRead
  <2> DEFINE f == [peer |-> p, entry |-> store[p][request[s].key]]
  <2>2. f.entry = store[f.peer][request[s].key]
    OBVIOUS
  <2>3. /\ fetched'[s] = fetched[s] \cup {f} /\ store' = store
        /\ \A u \in Sessions \ {s} : fetched'[u] = fetched[u]
        /\ pc' = pc /\ found' = found /\ request' = request
    BY <1>1, <1>4, Zenon DEF TypeOK, FetchRead, nodeVars
  <2> HIDE DEF f
  <2> QED BY <2>1, <2>2, <2>3 DEF FreshReads
<1>5. ASSUME (\E f \in fetched[s] : FetchAnswer(s, f)) \/ Gather(s)
                \/ \E a \in answers[s] : MergeAnswer(s, a)
      PROVE  \A u \in Sessions : FreshReads(u)
  <2>1. \A u \in Sessions : fetched'[u] \subseteq fetched[u]
    BY <1>1, <1>5 DEF TypeOK, FetchAnswer, Gather, MergeAnswer
  <2>2. found' = found /\ request' = request /\ \A u \in Sessions : pc'[u] = "answer" => pc[u] = "answer"
    BY <1>1, <1>5, Zenon DEF TypeOK, FetchAnswer, Gather, MergeAnswer
  <2> QED BY <2>1, <2>2, Zenon DEF FreshReads
<1>6. ASSUME Recheck(s), ~End(s) PROVE \A u \in Sessions : FreshReads(u)
  <2>1. request[s].key \in Keys
    BY <1>1, <1>6, RequestTypes, Zenon DEF Recheck
  <2>2. /\ fetched' = fetched /\ request' = request
        /\ found'[s] = store'[request[s].node][request[s].key]
        /\ \A u \in Sessions \ {s} : pc'[u] = pc[u] /\ found'[u] = found[u]
    BY <1>1, <1>6 DEF TypeOK, Recheck, Pass, repairVars
  <2> QED BY <2>1, <2>2, Zenon DEF FreshReads
<1>7. ASSUME Mutate(s) PROVE \A u \in Sessions : FreshReads(u)
  <2>1. request[s].key \in Keys /\ request[s].node \in Nodes
    BY <1>1, <1>7, RequestTypes, Zenon DEF Mutate
  <2>2. /\ fetched' = fetched /\ request' = request
        /\ found'[s] = store'[request[s].node][request[s].key]
        /\ \A u \in Sessions \ {s} : pc'[u] = pc[u] /\ found'[u] = found[u]
    BY <1>1, <1>7, <2>1, Zenon DEF TypeOK, Mutate, repairVars
  <2> QED BY <2>1, <2>2, Zenon DEF FreshReads
<1> QED BY <1>2, <1>3, <1>4, <1>5, <1>6, <1>7, RouteIsNode, Zenon DEF SessionStep, Fail, Answer

\* AtomicReplica uses the operators of CausalEntries that CausalCluster uses.
LEMMA NodeOperators ==
  ASSUME NEW n
  PROVE  /\ Node(n)!Zero = Zero /\ Node(n)!NoEntry = NoEntry
         /\ \A v, w : Node(n)!Merge(v, w) = Merge(v, w)
         /\ \A v, a, c : Node(n)!WithDot(v, a, c) = WithDot(v, a, c)
         /\ \A e, f : Node(n)!MergeEntries(e, f) = MergeEntries(e, f)
         /\ \A e, b, a, c : Node(n)!Mutated(e, b, a, c) = Mutated(e, b, a, c)
         /\ \A w, k, v : Node(n)!DotsUpTo(w, k, v) = DotsUpTo(w, k, v)
<1>1. Node(n)!Zero = Zero /\ Node(n)!NoEntry = NoEntry
  BY Zenon DEF Node!Zero, Zero, Node!NoEntry, NoEntry
<1>2. \A i, j : Node(n)!MaxOf(i, j) = MaxOf(i, j)
  BY Zenon DEF Node!MaxOf, MaxOf
<1>3. \A v, w : Node(n)!Merge(v, w) = Merge(v, w)
  BY <1>2, Zenon DEF Node!Merge, Merge
<1>4. \A v, a, c : Node(n)!WithDot(v, a, c) = WithDot(v, a, c)
  BY <1>2, Zenon DEF Node!WithDot, WithDot
<1>5. \A e, f : Node(n)!MergeEntries(e, f) = MergeEntries(e, f)
  BY <1>3, Zenon DEF Node!MergeEntries, MergeEntries
<1>6. \A e, b, a, c : Node(n)!Mutated(e, b, a, c) = Mutated(e, b, a, c)
  BY <1>3, <1>4, Zenon DEF Node!Mutated, Mutated
<1>7. \A w, k, v : Node(n)!DotsUpTo(w, k, v) = DotsUpTo(w, k, v)
  BY Zenon DEF Node!DotsUpTo, DotsUpTo
<1> QED BY <1>1, <1>3, <1>4, <1>5, <1>6, <1>7, Zenon

LEMMA QuietNode ==
  ASSUME IndInv, NEW m \in Nodes, written' = written, store'[m] = store[m], frontier'[m] = frontier[m]
  PROVE  AtomicAt(m)
<1>1. frontier[m] \in Vector
  BY Types, Zenon DEF IndInv
<1> QED BY <1>1, LeqOrder, Zenon DEF AtomicAt, Node!vars

\* _success() and _fetch_response() observe what the clock has observed already.
LEMMA ObservedAgain ==
  ASSUME IndInv, NEW n \in Nodes, NEW v \in Vector, Leq(v, frontier[n])
  PROVE  [frontier EXCEPT ![n] = Merge(frontier[n], v)] = frontier
<1>1. frontier \in [Nodes -> Vector] /\ frontier[n] \in Vector
  BY Zenon DEF IndInv, TypeOK
<1>2. Merge(frontier[n], v) = frontier[n]
  BY <1>1, Zenon DEF Merge, Vector, Leq, MaxOf
<1> QED BY <1>1, <1>2, Zenon

\* Entries that arrive or are repaired from are entries that can be known.
LEMMA MergeAtAtomic ==
  ASSUME IndInv, NEW n \in Nodes, NEW k \in Keys, NEW e \in Entry, Grounded(written, k, e),
         MergeAt(n, k, e), written' = written, NEW m \in Nodes
  PROVE  AtomicAt(m)
<1>1. TypeOK /\ written \in Histories /\ frontier[n] \in Vector /\ store[n][k] \in Entry
  BY Types, Zenon DEF IndInv
<1>2. /\ store'[n] = [store[n] EXCEPT ![k] = MergeEntries(@, e)]
      /\ frontier'[n] = Merge(frontier[n], MergeEntries(store[n][k], e).context)
      /\ m # n => store'[m] = store[m] /\ frontier'[m] = frontier[m]
  BY <1>1, Zenon DEF MergeAt, TypeOK
<1>3. CASE m # n
  BY <1>2, <1>3, QuietNode, Zenon
<1>4. CASE m = n
  <2>1. e.version \in Vector /\ e.context \in Vector /\ Within(written, e.version)
        /\ Within(written, e.context)
    BY <1>1, EntryParts, GroundedVersion, Zenon DEF Grounded
  <2>2. e.version \in Node(n)!Known /\ e.context \in Node(n)!Known
    BY <1>1, <2>1, KnownIs, Zenon DEF Node!Known, KnownIn
  <2>3. e = [dots |-> DotsUpTo(written, k, e.version), version |-> e.version, context |-> e.context]
    BY Zenon DEF Grounded, Exact, Entry
  <2>4. e = Node(n)!KnownEntry(k, e.version, e.context)
    BY <2>3, NodeOperators, Zenon DEF Node!KnownEntry
  <2>5. /\ store'[n] = [store[n] EXCEPT ![k] = Node(n)!MergeEntries(@, e)]
        /\ frontier'[n] = Node(n)!Merge(frontier[n], Node(n)!MergeEntries(store[n][k], e).context)
    BY <1>2, NodeOperators
  <2>6. Node(n)!MergeIn(k) \/ UNCHANGED Node(n)!vars
    BY <2>2, <2>4, <2>5, Zenon DEF Node!MergeIn, Node!vars
  <2>7. Leq(frontier[n], frontier'[n])
    BY <1>1, <1>2, MergeEntriesResult, EntryParts, MergeIsJoin
  <2> QED BY <1>4, <2>6, <2>7, Zenon DEF AtomicAt, Node!Next
<1> QED BY <1>3, <1>4, Zenon

\* A mutation is a mutation at its node, and a mutation elsewhere for the others.
LEMMA MutateAtomic ==
  ASSUME IndInv, NEW s \in Sessions, Mutate(s), NEW n \in Nodes, NEW k \in Keys,
         request[s].node = n, request[s].key = k, NEW m \in Nodes
  PROVE  AtomicAt(m)
<1> DEFINE v == request[s].token
           base == Merge(frontier[n], Merge(store[n][k].context, v))
<1>1. /\ TypeOK /\ SessionOK(s) /\ written \in Histories /\ v \in Vector /\ Within(written, v)
      /\ \A p \in Nodes : frontier[p] \in Vector
      /\ \A p \in Nodes : store[p][k].context \in Vector
  BY Types, RequestTypes, Zenon DEF IndInv, SessionOK, Mutate
<1>2. /\ written' = [written EXCEPT ![n] = Append(@, k)]
      /\ store'[n] = [store[n] EXCEPT ![k] = Mutated(@, base, n, base[n] + 1)]
      /\ frontier'[n] = WithDot(base, n, base[n] + 1)
      /\ m # n => store'[m] = store[m] /\ frontier'[m] = frontier[m]
  BY <1>1, Zenon DEF Mutate, Base, Allocation, TypeOK
<1>3. CASE m # n
  <2>1. Node(m)!OtherWrites(n, k)
    BY <1>2, <1>3, Zenon DEF Node!OtherWrites
  <2> QED BY <1>1, <1>2, <1>3, <2>1, LeqOrder, Zenon DEF AtomicAt, Node!Next, Nodes
<1>4. CASE m = n
  <2>1. v \in Node(n)!Known
    BY <1>1, KnownIs, Zenon DEF Node!Known, KnownIn
  <2> DEFINE b == Node(n)!Merge(frontier[n], Node(n)!Merge(store[n][k].context, v))
  <2>2. /\ store'[n] = [store[n] EXCEPT ![k] = Node(n)!Mutated(@, b, n, b[n] + 1)]
        /\ frontier'[n] = Node(n)!WithDot(b, n, b[n] + 1)
    <3>1. b = base
      BY NodeOperators
    <3> HIDE DEF b, base
    <3>2. /\ Node(n)!Mutated(store[n][k], b, n, b[n] + 1) = Mutated(store[n][k], b, n, b[n] + 1)
          /\ Node(n)!WithDot(b, n, b[n] + 1) = WithDot(b, n, b[n] + 1)
      BY NodeOperators
    <3> QED BY <1>2, <3>1, <3>2, Zenon
  <2>3. Node(n)!Mutate(k)
    BY <1>2, <2>1, <2>2, Zenon DEF Node!Mutate
  <2>4. base \in Vector /\ Leq(frontier[n], base)
    BY <1>1, MergeIsJoin, Zenon
  <2>5. base[n] + 1 \in Nat
    <3> HIDE DEF base
    <3>1. base[n] \in Nat
      BY <2>4, Zenon DEF Vector, Nodes
    <3> QED BY <3>1
  <2>6. Leq(frontier[n], frontier'[n])
    <3> HIDE DEF base
    <3>1. WithDot(base, n, base[n] + 1) \in Vector /\ Leq(base, WithDot(base, n, base[n] + 1))
      BY <1>1, <2>4, <2>5, WithDotResult, Zenon DEF Nodes
    <3> QED BY <1>1, <1>2, <2>4, <3>1, LeqOrder
  <2> QED BY <1>1, <1>4, <2>3, <2>6, Zenon DEF AtomicAt, Node!Next
<1> QED BY <1>3, <1>4, Zenon

LEMMA SessionAtomic ==
  ASSUME IndInv, ObservedInv, NEW s \in Sessions, SessionStep(s), NEW m \in Nodes
  PROVE  AtomicAt(m)
<1>1. TypeOK /\ Observed(s)
  BY Zenon DEF IndInv, ObservedInv
<1>2. ASSUME UNCHANGED <<written, store, frontier>> PROVE AtomicAt(m)
  BY <1>2, QuietNode, Zenon
<1>3. ASSUME \/ \E kind \in {"read", "write", "remove"}, c \in Nodes \cup Routers, k \in Keys :
                  Begin(s, kind, Route(c, k), k)
             \/ Fail(s) \/ Gather(s) \/ \E p \in Nodes : FetchRead(s, p)
      PROVE  UNCHANGED <<written, store, frontier>>
  BY <1>3, Zenon DEF Begin, Fail, Gather, FetchRead, nodeVars
<1>4. ASSUME NEW f \in fetched[s], FetchAnswer(s, f) PROVE UNCHANGED <<written, store, frontier>>
  <2>1. f.peer \in Nodes /\ f.entry.context \in Vector /\ Leq(f.entry.context, frontier[f.peer])
    BY <1>1, Types, EntryParts, Zenon DEF Observed
  <2> QED BY <1>4, <2>1, ObservedAgain, Zenon DEF FetchAnswer
<1>5. ASSUME Answer(s) PROVE UNCHANGED <<written, store, frontier>>
  <2>1. request[s].node \in Nodes /\ found[s].context \in Vector
        /\ Leq(found[s].context, frontier[request[s].node])
    BY <1>1, <1>5, Types, RequestTypes, Zenon DEF Observed, Answer
  <2> QED BY <1>5, <2>1, ObservedAgain, Zenon DEF Answer
<1>6. ASSUME NEW a \in answers[s], MergeAnswer(s, a) PROVE AtomicAt(m)
  <2>1. request[s].node \in Nodes /\ request[s].key \in Keys /\ a.entry \in Entry
        /\ Grounded(written, request[s].key, a.entry)
    BY <1>1, <1>6, Types, RequestTypes, Zenon DEF IndInv, SessionOK, MergeAnswer
  <2>2. /\ written' = written
        /\ UNCHANGED <<store, frontier>> \/ MergeAt(request[s].node, request[s].key, a.entry)
    BY <1>6, Zenon DEF MergeAnswer
  <2> QED BY <1>2, <2>1, <2>2, MergeAtAtomic, Zenon
<1>7. ASSUME Recheck(s) PROVE AtomicAt(m)
  <2> DEFINE proved == Merge(gathered[s], store[request[s].node][request[s].key].context)
  <2>1. /\ request[s].node \in Nodes /\ request[s].key \in Keys /\ SessionOK(s)
        /\ NodeOK(request[s].node) /\ gathered[s] \in Vector /\ written \in Histories
        /\ store[request[s].node][request[s].key].context \in Vector
    BY <1>1, <1>7, Types, RequestTypes, Zenon DEF IndInv, Recheck
  <2>2. proved \in Vector /\ Within(written, proved)
    BY <2>1, MergeIsJoin, WithinMerge, Zenon DEF SessionOK, NodeOK, Grounded
  <2>3. /\ written' = written
        /\ UNCHANGED <<store, frontier>> \/ MergeAt(request[s].node, request[s].key, OnlyContext(proved))
    BY <1>7, Zenon DEF Recheck
  <2> HIDE DEF proved
  <2>4. OnlyContext(proved) \in Entry /\ Grounded(written, request[s].key, OnlyContext(proved))
    BY <2>1, <2>2, NoEntryIsEntry, ContextIsGrounded, Zenon
  <2> QED BY <1>2, <2>1, <2>3, <2>4, MergeAtAtomic, Zenon
<1>8. ASSUME Mutate(s) PROVE AtomicAt(m)
  <2>1. request[s].node \in Nodes /\ request[s].key \in Keys
    BY <1>1, <1>8, RequestTypes, Zenon DEF Mutate
  <2> QED BY <1>8, <2>1, MutateAtomic, Zenon
<1> QED BY <1>2, <1>3, <1>4, <1>5, <1>6, <1>7, <1>8, Zenon DEF SessionStep

LEMMA NextAtomic ==
  ASSUME IndInv, ObservedInv, [Next]_vars, NEW m \in Nodes
  PROVE  AtomicAt(m)
<1>1. ASSUME NEW n \in Nodes, NEW x \in sent, Deliver(n, x) PROVE AtomicAt(m)
  <2>1. /\ x.key \in Keys /\ x.entry \in Entry /\ Grounded(written, x.key, x.entry)
        /\ MergeAt(n, x.key, x.entry) /\ written' = written
    BY <1>1, Types, Zenon DEF IndInv, SentOK, Deliver
  <2> QED BY <2>1, MergeAtAtomic, Zenon
<1>2. ASSUME UNCHANGED vars PROVE AtomicAt(m)
  BY <1>2, QuietNode, Zenon DEF vars
<1> QED BY <1>1, <1>2, SessionAtomic, Zenon DEF Next

LEMMA NextReads ==
  ASSUME IndInv, [Next]_vars
  PROVE  \A s \in Sessions : FreshReads(s)
<1>1. ASSUME (\E n \in Nodes, x \in sent : Deliver(n, x)) \/ UNCHANGED vars
      PROVE  UNCHANGED <<fetched, pc, found, request>>
  BY <1>1, Zenon DEF Deliver, repairVars, vars
<1>2. UNCHANGED <<fetched, pc, found, request>> => \A s \in Sessions : FreshReads(s)
  BY Zenon DEF FreshReads
<1> QED BY <1>1, <1>2, StepReads, Zenon DEF Next

\* Every node of the cluster behaves as the replica that DurableReplica implements:
\* the requests, repairs and deliveries of crdt_service.py and causal_repair.py
\* make mutations and merges there, one at a time, and nothing else.
THEOREM NodesAreReplicas == Spec => NodesAreAtomic
<1> SUFFICES ASSUME NEW n \in Nodes PROVE Spec => Node(n)!Spec
  BY Zenon DEF NodesAreAtomic
<1>1. Init => ObservedInv
  BY Zenon DEF Init, ObservedInv, Observed
<1>2. IndInv /\ IndInv' /\ ObservedInv /\ [Next]_vars => ObservedInv'
  BY NextAtomic, NextReads, ObservedStays, Zenon DEF AtomicAt, ObservedInv
<1>3. Init => Node(n)!Init
  BY NodeOperators DEF Init, Node!Init, Nodes
<1>4. IndInv /\ ObservedInv /\ [Next]_vars => [Node(n)!Next]_(Node(n)!vars)
  BY NextAtomic, Zenon DEF AtomicAt
<1> QED BY <1>1, <1>2, <1>3, <1>4, InductiveInvariant, PTL DEF Spec, Node!Spec
=============================================================================
