---------------------------- MODULE InferenceProofs ---------------------------
(***************************************************************************)
(* Proofs about InferenceServer, for any clients, policies, requests and   *)
(* bounds.  One inductive invariant says where a question and its answer   *)
(* are: between a client and the pipeline they are in one place (Wire), a  *)
(* connection is in the pipeline at most once (Apart) and the flag that    *)
(* lets its next request in knows (Flag); a region, the request queued     *)
(* from it and the response in it carry one number (Numbers, Numbered);    *)
(* and the weights of a batch are no older than any question in it that    *)
(* is still waited for (Weights, Timely).                                  *)
(***************************************************************************)
EXTENDS InferenceServer, TLAPS, SequenceTheorems, FiniteSetTheorems

-----------------------------------------------------------------------------
(* The inductive invariant.                                                 *)

States == {"new", "greeting", "idle", "waiting", "gone"}
Answer == [seq : Nat, version : Int]
Shared == [seq : Nat, response : Answer]
Peer == [known : BOOLEAN, hello : BOOLEAN, alive : BOOLEAN, queued : BOOLEAN, mapped : BOOLEAN,
         shut : BOOLEAN]
Queued == [client : Clients, seq : Nat]
Batch == [reqs : Seq(Queued), version : Int, failed : BOOLEAN]
RemoteEvaluators == [at : States, seq : Nat, got : Int]
ComputeStates == [at : {"waiting", "putting", "ended"}, batch : Batch]
FinisherStates == [at : {"waiting", "answering", "writing", "refusing", "sending", "dead", "ended"},
                   batch : Batch]

TypeOK ==
    /\ client \in [Clients -> RemoteEvaluators]
    /\ inbox \in [Clients -> Seq({"HELLO", "EVAL"})]
    /\ outbox \in [Clients -> Seq({"WELCOME", "DONE", "ERROR"})]
    /\ region \in [Clients -> Shared]
    /\ server \in [Clients -> Peer]
    /\ policies \in [Policies -> Int]
    /\ queue \in Seq(Queued) /\ late \in BOOLEAN
    /\ compute \in ComputeStates
    /\ inflight \in Seq(Batch)
    /\ finisher \in FinisherStates
    /\ io \in {"running", "ended"} /\ host \in {"up", "stopping", "down"}
    /\ floor \in [Clients -> Int]

(* What the threads hold: a batch while they work on one, the last one put before the end excepted. *)
Threads ==
    /\ compute.at = "putting" => compute.batch.reqs # <<>>
    /\ compute.at # "putting" => compute.batch = NoBatch
    /\ finisher.at \in {"answering", "writing", "refusing", "sending"} => finisher.batch.reqs # <<>>
    /\ finisher.at \in {"waiting", "ended"} => finisher.batch.reqs = <<>>
    /\ \A b \in DOMAIN inflight : inflight[b].reqs = <<>> => inflight[b] = NoBatch

(* No connection has two requests in the pipeline: within a list, nor in two. *)
Holders(reqs) == {reqs[i].client : i \in DOMAIN reqs}
Once(reqs) == \A i, j \in DOMAIN reqs : reqs[i].client = reqs[j].client => i = j
Disjoint(s, t) == \A i \in DOMAIN s, j \in DOMAIN t : s[i].client # t[j].client
Apart ==
    /\ Once(queue) /\ Once(compute.batch.reqs) /\ Once(finisher.batch.reqs)
    /\ \A b \in DOMAIN inflight : Once(inflight[b].reqs)
    /\ Disjoint(queue, compute.batch.reqs)
    /\ Disjoint(queue, finisher.batch.reqs)
    /\ Disjoint(compute.batch.reqs, finisher.batch.reqs)
    /\ \A b \in DOMAIN inflight :
        /\ Disjoint(queue, inflight[b].reqs)
        /\ Disjoint(compute.batch.reqs, inflight[b].reqs)
        /\ Disjoint(finisher.batch.reqs, inflight[b].reqs)
        /\ \A d \in DOMAIN inflight : d # b => Disjoint(inflight[b].reqs, inflight[d].reqs)
Held(c) ==
    \/ c \in Holders(queue) \/ c \in Holders(compute.batch.reqs) \/ c \in Holders(finisher.batch.reqs)
    \/ \E b \in DOMAIN inflight : c \in Holders(inflight[b].reqs)

(* Between a client and the pipeline a question or its answer is in one place: on its way to the
   server, in the pipeline, or on its way back; and its client waits for it or is gone. *)
Wire(c) ==
    /\ inbox[c] \in {<<>>, <<"HELLO">>, <<"EVAL">>}
    /\ inbox[c] = <<"HELLO">> => client[c].at \in {"greeting", "gone"}
    /\ inbox[c] = <<"EVAL">> => client[c].at \in {"waiting", "gone"}
    /\ Held(c) => inbox[c] = <<>> /\ client[c].at \in {"waiting", "gone"}
    /\ \A i \in DOMAIN outbox[c] : outbox[c][i] # "ERROR" =>
        /\ inbox[c] = <<>> /\ ~Held(c)
        /\ outbox[c][i] = "WELCOME" => At(c, "greeting")
        /\ outbox[c][i] = "DONE" => At(c, "waiting")
        /\ \A j \in DOMAIN outbox[c] : outbox[c][j] # "ERROR" => i = j

(* The flag that lets a client's next request in says that it has one in the pipeline. *)
Flag(c) == server[c].alive => (server[c].queued <=> Held(c))

(* A region's counter is its client's, a response in it is of no later request, and the requests of
   the pipeline are those the regions hold. *)
Numbers(c) ==
    /\ ~At(c, "gone") => region[c].seq = client[c].seq
    /\ region[c].response.seq <= region[c].seq
TheRegions(reqs) == \A i \in DOMAIN reqs : reqs[i].seq = region[reqs[i].client].seq
Numbered ==
    /\ TheRegions(queue) /\ TheRegions(compute.batch.reqs) /\ TheRegions(finisher.batch.reqs)
    /\ \A b \in DOMAIN inflight : TheRegions(inflight[b].reqs)

(* A batch, and the response to the request a client waits with, has weights that were current since. *)
Between(c, v) == floor[c] <= v /\ v <= policies[Current]
Weights(c) ==
    /\ floor[c] <= policies[Current]
    /\ At(c, "waiting") /\ region[c].response.seq = client[c].seq => Between(c, region[c].response.version)
Fresh(batch) ==
    \A i \in DOMAIN batch.reqs : At(batch.reqs[i].client, "waiting") => Between(batch.reqs[i].client, batch.version)
Timely ==
    /\ Fresh(compute.batch) /\ Fresh(finisher.batch)
    /\ \A b \in DOMAIN inflight : Fresh(inflight[b])

Client(c) == Wire(c) /\ Flag(c) /\ Numbers(c) /\ Weights(c)
IInv ==
    /\ TypeOK /\ Threads /\ Apart /\ Numbered /\ Timely
    /\ policies[Current] >= 0
    /\ \A c \in Clients : Client(c)

-----------------------------------------------------------------------------
(* Types                                                                   *)

(* The end of an actor keeps the types of what it touches. *)
LEMMA EndsTypes ==
    ASSUME TypeOK, NEW c \in Clients, Ends(c)
    PROVE  /\ client' \in [Clients -> RemoteEvaluators] /\ inbox' = inbox
           /\ outbox' \in [Clients -> Seq({"WELCOME", "DONE", "ERROR"})]
           /\ region' \in [Clients -> Shared] /\ floor' \in [Clients -> Int]
<1>1. region \in [Clients -> Shared] BY DEF TypeOK
<1>2. region' = [region EXCEPT ![c].response = NoResponse] BY DEF Ends
<1>3. NoResponse \in Answer BY DEF NoResponse, Answer
<1>4. region' \in [Clients -> Shared] BY <1>1, <1>2, <1>3 DEF Shared
<1>5. client' \in [Clients -> RemoteEvaluators] BY DEF TypeOK, Ends, RemoteEvaluators, States, Outside
<1> QED BY <1>4, <1>5 DEF TypeOK, Ends

(* A message sent keeps the type of the outboxes. *)
LEMMA SentTypes ==
    ASSUME TypeOK, NEW c \in Clients, NEW msg \in {"WELCOME", "DONE", "ERROR"}, Sent(c, msg)
    PROVE  outbox' \in [Clients -> Seq({"WELCOME", "DONE", "ERROR"})]
<1>1. Append(outbox[c], msg) \in Seq({"WELCOME", "DONE", "ERROR"}) BY DEF TypeOK
<1> QED BY <1>1 DEF TypeOK, Sent

(* What the server writes of a connection is of the type it keeps. *)
LEMMA PeerTypes ==
    ASSUME TypeOK, NEW c \in Clients
    PROVE  /\ [server EXCEPT ![c] = Stranger] \in [Clients -> Peer]
           /\ \A b \in BOOLEAN :
                /\ [server EXCEPT ![c].hello = TRUE, ![c].mapped = TRUE, ![c].alive = b] \in [Clients -> Peer]
                /\ [server EXCEPT ![c].queued = FALSE, ![c].shut = TRUE, ![c].alive = b] \in [Clients -> Peer]
                /\ [server EXCEPT ![c].queued = FALSE, ![c].alive = b] \in [Clients -> Peer]
           /\ [server EXCEPT ![c].queued = TRUE] \in [Clients -> Peer]
           /\ StillAlive(c) \in BOOLEAN
<1>1. server \in [Clients -> Peer] BY DEF TypeOK
<1>2. server[c] \in Peer BY <1>1
<1>3. StillAlive(c) \in BOOLEAN BY Zenon DEF StillAlive
<1>4. Stranger \in Peer BY DEF Stranger, Peer
<1> QED BY <1>1, <1>2, <1>3, <1>4 DEF Peer

(* The finisher answers a client, and goes on with the rest of its batch. *)
LEMMA AnsweringType ==
    ASSUME TypeOK, finisher.batch.reqs # <<>>
    PROVE  Answering \in Clients /\ NextRequest(finisher.batch) \in FinisherStates
<1>1. finisher.batch \in Batch /\ finisher.batch.reqs \in Seq(Queued) BY DEF TypeOK, FinisherStates, Batch
<1>2. Head(finisher.batch.reqs) \in Queued /\ Tail(finisher.batch.reqs) \in Seq(Queued) BY <1>1
<1>3. Answering \in Clients BY <1>2 DEF Answering, Queued
<1>4. [finisher.batch EXCEPT !.reqs = Tail(@)] \in Batch BY <1>1, <1>2 DEF Batch
<1>5. NoBatch \in Batch BY DEF NoBatch, Batch
<1> QED BY <1>3, <1>4, <1>5 DEF NextRequest, FinisherStates
(* The n first of the living requests, in this order, are in the new batch; the queue keeps the rest. *)
Taken(order, n) ==
    /\ order \in [DOMAIN order -> DOMAIN queue] /\ DOMAIN order \subseteq Nat
    /\ \A i, j \in DOMAIN order : order[i] = order[j] => i = j
    /\ \A i \in DOMAIN queue : server[queue[i].client].alive => \E k \in DOMAIN order : order[k] = i
    /\ n \in DOMAIN order
    /\ compute'.batch.reqs # <<>>
    /\ \A i \in DOMAIN compute'.batch.reqs : i \in DOMAIN order /\ i <= n /\ compute'.batch.reqs[i] = queue[order[i]]
    /\ \A i \in DOMAIN queue' : n + i \in DOMAIN order /\ i > 0 /\ queue'[i] = queue[order[n + i]]
    /\ \A k \in DOMAIN order : IF k <= n THEN k \in DOMAIN compute'.batch.reqs ELSE k - n \in DOMAIN queue'
    /\ n \in Nat /\ DOMAIN compute'.batch.reqs \subseteq Nat /\ DOMAIN queue' \subseteq Nat

(* What _take_batch takes and leaves: the living requests in their order, some first ones and the rest. *)
LEMMA TakeBatchTakes ==
    ASSUME TypeOK, TakeBatch
    PROVE  /\ compute' \in ComputeStates /\ compute'.at = "putting"
           /\ compute'.batch.version = policies[Current]
           /\ queue' \in Seq(Queued)
           /\ \E order, n : Taken(order, n)
<1>1. queue \in Seq(Queued) /\ policies \in [Policies -> Int] BY DEF TypeOK
<1>2. PICK order \in InOrder(Live) :
         LET live == [i \in DOMAIN order |-> queue[order[i]]]
         IN  /\ live # <<>> /\ Due(live)
             /\ \E n \in Fitting(live) : Launches(SubSeq(live, 1, n)) /\ queue' = Remaining(live, n)
  BY DEF TakeBatch
<1> DEFINE m == Cardinality(Live)
           live == [i \in DOMAIN order |-> queue[order[i]]]
<1>3. m \in Nat
  <2>1. Live \subseteq 1..Len(queue) BY <1>1 DEF Live
  <2>2. Len(queue) \in Int BY <1>1
  <2>3. IsFiniteSet(1..Len(queue)) BY <2>2, FS_Interval
  <2>4. IsFiniteSet(Live) BY <2>1, <2>3, FS_Subset
  <2> QED BY <2>4, FS_CardinalityType
<1>4. /\ order \in [1..m -> Live] /\ \A i, j \in 1..m : order[i] = order[j] => i = j
      /\ \A i \in Live : \E k \in 1..m : order[k] = i
  BY <1>2 DEF InOrder, Bijection, Injection, Surjection, IsInjective
<1>5. DOMAIN order = 1..m BY <1>4
<1>6. Live \subseteq DOMAIN queue BY DEF Live
<1>7. live \in [1..m -> Queued] BY <1>1, <1>4, <1>5, <1>6
<1>8. live \in Seq(Queued) /\ Len(live) = m BY <1>3, <1>7
<1>9. PICK n \in Fitting(live) : Launches(SubSeq(live, 1, n)) /\ queue' = Remaining(live, n)
  BY <1>2
<1> HIDE DEF m
<1>10. n \in 1..m BY <1>8 DEF Fitting
<1> DEFINE reqs == SubSeq(live, 1, n)
<1> HIDE DEF live
<1>11. reqs \in Seq(Queued) /\ Len(reqs) = n /\ \A i \in 1..n : reqs[i] = live[i]
  BY <1>3, <1>8, <1>10, SubSeqProperties
<1>12. queue' \in Seq(Queued) /\ Len(queue') = m - n /\ \A i \in 1..(m - n) : queue'[i] = live[n + i]
  BY <1>3, <1>8, <1>9, <1>10, SubSeqProperties DEF Remaining
<1>13. compute'.at = "putting" /\ compute'.batch.reqs = reqs /\ compute'.batch.version = policies[Current]
  BY <1>9 DEF Launches, ServedVersion
<1> HIDE DEF reqs
<1>14. compute' \in ComputeStates
  <2>1. PICK f \in BOOLEAN :
            compute' = [at |-> "putting", batch |-> [reqs |-> reqs, version |-> policies[Current], failed |-> f]]
    <3> DEFINE w == UNION {Wants[r.client] : r \in Range(reqs)}
    <3>1. compute' = [at |-> "putting", batch |-> [reqs |-> reqs, version |-> policies[Current], failed |-> ~Served(w)]]
      BY <1>9 DEF Launches, ServedVersion, reqs
    <3> HIDE DEF w
    <3>2. CASE Served(w) BY <3>1, <3>2, Zenon
    <3>3. CASE ~Served(w) BY <3>1, <3>3, Zenon
    <3> QED BY <3>2, <3>3
  <2> QED BY <2>1, <1>1, <1>11, CurrentAssumption DEF ComputeStates, Batch
<1>15. Taken(order, n)
  <2>1. \A i \in 1..m : live[i] = queue[order[i]] BY <1>5 DEF live
  <2>2. DOMAIN reqs = 1..n /\ DOMAIN queue' = 1..(m - n) BY <1>11, <1>12, <1>10, <1>3
  <2>3. \A i \in DOMAIN queue : server[queue[i].client].alive => \E k \in DOMAIN order : order[k] = i
    BY <1>4, <1>5 DEF Live
  <2>4. reqs # <<>> BY <1>11, <1>10
  <2>5. \A k \in 1..m : k > n => k - n \in 1..(m-n) BY <1>3, <1>10
  <2>6. \A i \in 1..(m-n) : n + i \in 1..m BY <1>3, <1>10
  <2>7. \A i \in DOMAIN reqs : i \in DOMAIN order /\ i <= n /\ reqs[i] = queue[order[i]]
    BY <2>1, <2>2, <1>3, <1>5, <1>10, <1>11
  <2>8. \A i \in DOMAIN queue' : n + i \in DOMAIN order /\ i > 0 /\ queue'[i] = queue[order[n + i]]
    BY <2>1, <2>2, <2>6, <1>5, <1>12
  <2>9. \A k \in DOMAIN order : IF k <= n THEN k \in DOMAIN reqs ELSE k - n \in DOMAIN queue'
    BY <2>2, <2>5, <1>3, <1>5, <1>10
  <2> QED BY <1>3, <1>4, <1>5, <1>6, <1>10, <1>13, <2>2, <2>3, <2>4, <2>7, <2>8, <2>9 DEF Taken
<1> QED BY <1>12, <1>13, <1>14, <1>15

(* Every step keeps the types. *)
LEMMA TypesKept == TypeOK /\ Threads /\ [Next]_vars => TypeOK'
<1> SUFFICES ASSUME TypeOK, Threads, [Next]_vars PROVE TypeOK' OBVIOUS
<1> USE DEF wire, threads, ServerSide, ClientSide, Elsewhere
<1>1. ASSUME NEW c \in Clients, Connect(c) PROVE TypeOK'
  <2>1. client' \in [Clients -> RemoteEvaluators]
    <3>1. client \in [Clients -> RemoteEvaluators] BY DEF TypeOK
    <3>2. client' = [client EXCEPT ![c].at = "greeting"] BY <1>1 DEF Connect
    <3> QED BY <3>1, <3>2 DEF RemoteEvaluators, States
  <2>2. server' \in [Clients -> Peer]
    BY <1>1 DEF Connect, TypeOK, Peer, Stranger
  <2>3. inbox' \in [Clients -> Seq({"HELLO", "EVAL"})]
    BY <1>1 DEF Connect, TypeOK, Tell
  <2> QED BY <1>1, <2>1, <2>2, <2>3 DEF Connect, TypeOK, Tell
<1>2. ASSUME NEW c \in Clients, ConnectFails(c) PROVE TypeOK'
  <2>1. /\ client' \in [Clients -> RemoteEvaluators] /\ inbox' = inbox
      /\ outbox' \in [Clients -> Seq({"WELCOME", "DONE", "ERROR"})]
      /\ region' \in [Clients -> Shared] /\ floor' \in [Clients -> Int]
    BY <1>2, EndsTypes DEF ConnectFails
  <2> QED BY <1>2, <2>1 DEF ConnectFails, TypeOK
<1>3. ASSUME NEW c \in Clients, Ask(c) PROVE TypeOK'
  <2>1. client' \in [Clients -> RemoteEvaluators]
    <3>1. client \in [Clients -> RemoteEvaluators] BY DEF TypeOK
    <3>2. client' = [client EXCEPT ![c].at = "waiting", ![c].seq = @ + 1] BY <1>3 DEF Ask
    <3> QED BY <3>1, <3>2 DEF RemoteEvaluators, States
  <2>2. region' \in [Clients -> Shared]
    <3>1. region \in [Clients -> Shared] BY DEF TypeOK
    <3>2. region' = [region EXCEPT ![c].seq = @ + 1] BY <1>3 DEF Ask
    <3> QED BY <3>1, <3>2 DEF Shared
  <2>3. inbox' \in [Clients -> Seq({"HELLO", "EVAL"})]
    BY <1>3 DEF Ask, TypeOK, Tell
  <2>4. floor' \in [Clients -> Int]
    BY <1>3, CurrentAssumption DEF Ask, TypeOK
  <2> QED BY <1>3, <2>1, <2>2, <2>3, <2>4 DEF Ask, TypeOK, Tell
<1>4. ASSUME NEW c \in Clients, Answered(c) PROVE TypeOK'
  <2>1. client' \in [Clients -> RemoteEvaluators]
    <3>1. client \in [Clients -> RemoteEvaluators] /\ region \in [Clients -> Shared] BY DEF TypeOK
    <3>2. PICK g \in Int : client' = [client EXCEPT ![c].at = "idle", ![c].got = g]
      BY <1>4, <3>1 DEF Answered, Shared, Answer, RemoteEvaluators
    <3> QED BY <3>1, <3>2 DEF RemoteEvaluators, States
  <2>2. outbox' \in [Clients -> Seq({"WELCOME", "DONE", "ERROR"})]
    BY <1>4 DEF Answered, TypeOK
  <2> QED BY <1>4, <2>1, <2>2 DEF Answered, TypeOK
<1>5. ASSUME NEW c \in Clients, Fails(c) PROVE TypeOK'
  <2>1. /\ client' \in [Clients -> RemoteEvaluators] /\ inbox' = inbox
      /\ outbox' \in [Clients -> Seq({"WELCOME", "DONE", "ERROR"})]
      /\ region' \in [Clients -> Shared] /\ floor' \in [Clients -> Int]
    BY <1>5, EndsTypes DEF Fails
  <2> QED BY <1>5, <2>1 DEF Fails, TypeOK
<1>6. ASSUME NEW c \in Clients, Leaves(c) PROVE TypeOK'
  <2>1. /\ client' \in [Clients -> RemoteEvaluators] /\ inbox' = inbox
      /\ outbox' \in [Clients -> Seq({"WELCOME", "DONE", "ERROR"})]
      /\ region' \in [Clients -> Shared] /\ floor' \in [Clients -> Int]
    BY <1>6, EndsTypes DEF Leaves
  <2> QED BY <1>6, <2>1 DEF Leaves, TypeOK
<1>7. ASSUME NEW c \in Clients, HandleHello(c) PROVE TypeOK'
  <2>1. server' \in [Clients -> Peer]
    <3>1. CASE Served(Wants[c])
      <4>1. server' = [server EXCEPT ![c].hello = TRUE, ![c].mapped = TRUE, ![c].alive = StillAlive(c)]
        BY <1>7, <3>1 DEF HandleHello
      <4> QED BY <4>1, PeerTypes
    <3>2. CASE ~Served(Wants[c]) BY <1>7, <3>2, PeerTypes DEF HandleHello, Forget
    <3> QED BY <3>1, <3>2
  <2>2. outbox' \in [Clients -> Seq({"WELCOME", "DONE", "ERROR"})]
    BY <1>7, SentTypes DEF HandleHello
  <2>3. inbox' \in [Clients -> Seq({"HELLO", "EVAL"})]
    BY <1>7 DEF HandleHello, Reads, TypeOK
  <2> QED BY <1>7, <2>1, <2>2, <2>3 DEF HandleHello, TypeOK, Reads
<1>8. ASSUME NEW c \in Clients, HandleEval(c) PROVE TypeOK'
  <2>1. server' \in [Clients -> Peer]
    <3>1. \/ server' = [server EXCEPT ![c].queued = TRUE]
          \/ server' = [server EXCEPT ![c] = Stranger]
      BY <1>8 DEF HandleEval, Forget
    <3>2. [server EXCEPT ![c].queued = TRUE] \in [Clients -> Peer] BY PeerTypes
    <3>3. [server EXCEPT ![c] = Stranger] \in [Clients -> Peer] BY PeerTypes
    <3> QED BY <3>1, <3>2, <3>3
  <2>2. outbox' \in [Clients -> Seq({"WELCOME", "DONE", "ERROR"})]
    BY <1>8, SentTypes DEF HandleEval, TypeOK
  <2>3. inbox' \in [Clients -> Seq({"HELLO", "EVAL"})]
    BY <1>8 DEF HandleEval, Reads, TypeOK
  <2>4. queue' \in Seq(Queued)
    <3>1. Request(c) \in Queued BY DEF TypeOK, Request, Queued, Shared
    <3>2. queue' = Append(queue, Request(c)) \/ queue' = queue BY <1>8 DEF HandleEval
    <3>3. queue \in Seq(Queued) BY DEF TypeOK
    <3> QED BY <3>1, <3>2, <3>3
  <2> QED BY <1>8, <2>1, <2>2, <2>3, <2>4 DEF HandleEval, TypeOK, Reads
<1>9. ASSUME NEW c \in Clients, SeesEnd(c) PROVE TypeOK'
  <2>1. server' \in [Clients -> Peer]
    BY <1>9, PeerTypes DEF SeesEnd, Forget
  <2> QED BY <1>9, <2>1 DEF SeesEnd, TypeOK
<1>10. ASSUME IoEnds PROVE TypeOK'
  BY <1>10 DEF IoEnds, TypeOK
<1>11. ASSUME Deadline PROVE TypeOK'
  BY <1>11 DEF Deadline, TypeOK
<1>12. ASSUME TakeBatch PROVE TypeOK'
  <2>1. compute' \in ComputeStates /\ queue' \in Seq(Queued)
    BY <1>12, TakeBatchTakes
  <2> QED BY <1>12, <2>1 DEF TakeBatch, TypeOK
<1>13. ASSUME Prune PROVE TypeOK'
  <2>1. queue' \in Seq(Queued)
    BY <1>13 DEF Prune
  <2> QED BY <1>13, <2>1 DEF Prune, TypeOK
<1>14. ASSUME Put PROVE TypeOK'
  <2>1. compute' \in ComputeStates /\ inflight' \in Seq(Batch)
    BY <1>14 DEF Put, TypeOK, ComputeStates, Batch, NoBatch, Queued
  <2> QED BY <1>14, <2>1 DEF Put, TypeOK
<1>15. ASSUME ComputeEnds PROVE TypeOK'
  <2>1. compute' \in ComputeStates
    BY <1>15 DEF ComputeEnds, TypeOK, ComputeStates
  <2>2. inflight' \in Seq(Batch)
    <3>1. NoBatch \in Batch BY DEF NoBatch, Batch
    <3> QED BY <1>15, <3>1 DEF ComputeEnds, TypeOK
  <2> QED BY <1>15, <2>1, <2>2 DEF ComputeEnds, TypeOK
<1>16. ASSUME NEW fails \in BOOLEAN, Collect(fails) PROVE TypeOK'
  <2>1. finisher' \in FinisherStates
    <3>1. inflight \in Seq(Batch) /\ inflight # <<>> BY <1>16 DEF Collect, TypeOK
    <3>2. Head(inflight) \in Batch BY <3>1
    <3>3. [Head(inflight) EXCEPT !.failed = @ \/ fails] \in Batch
      <4>1. CASE fails BY <3>2, <4>1 DEF Batch
      <4>2. CASE ~fails BY <3>2, <4>2 DEF Batch
      <4> QED BY <4>1, <4>2
    <3> QED BY <1>16, <3>3 DEF Collect, TypeOK, FinisherStates
  <2>2. inflight' \in Seq(Batch)
    BY <1>16 DEF Collect, TypeOK
  <2> QED BY <1>16, <2>1, <2>2 DEF Collect, TypeOK
<1>17. ASSUME SkipDead PROVE TypeOK'
  <2>1. finisher' \in FinisherStates
    BY <1>17, AnsweringType DEF SkipDead, Finishing, Threads
  <2> QED BY <1>17, <2>1 DEF SkipDead, TypeOK
<1>18. ASSUME SeesAlive PROVE TypeOK'
  <2>1. finisher' \in FinisherStates
    BY <1>18 DEF SeesAlive, TypeOK, FinisherStates
  <2> QED BY <1>18, <2>1 DEF SeesAlive, TypeOK
<1>19. ASSUME RefuseRequest PROVE TypeOK'
  <2>1. Answering \in Clients /\ finisher' \in FinisherStates
    BY <1>19, AnsweringType DEF RefuseRequest, Finishing, Threads
  <2>2. server' \in [Clients -> Peer]
    BY <1>19, <2>1, PeerTypes DEF RefuseRequest
  <2>3. outbox' \in [Clients -> Seq({"WELCOME", "DONE", "ERROR"})]
    BY <1>19, <2>1, SentTypes DEF RefuseRequest
  <2> QED BY <1>19, <2>1, <2>2, <2>3 DEF RefuseRequest, TypeOK
<1>20. ASSUME WriteResponse PROVE TypeOK'
  <2>1. finisher' \in FinisherStates
    BY <1>20 DEF WriteResponse, TypeOK, FinisherStates
  <2>2. region' \in [Clients -> Shared]
    <3>1. finisher.batch.reqs # <<>> BY <1>20 DEF WriteResponse, Finishing, Threads
    <3>2. finisher.batch \in Batch /\ finisher.batch.reqs \in Seq(Queued) BY DEF TypeOK, FinisherStates, Batch
    <3>3. Head(finisher.batch.reqs) \in Queued BY <3>1, <3>2
    <3>4. [seq |-> Head(finisher.batch.reqs).seq, version |-> finisher.batch.version] \in Answer
      BY <3>2, <3>3 DEF Queued, Batch, Answer
    <3>5. region \in [Clients -> Shared] BY DEF TypeOK
    <3> QED BY <1>20, <3>4, <3>5 DEF WriteResponse, Shared
  <2> QED BY <1>20, <2>1, <2>2 DEF WriteResponse, TypeOK
<1>21. ASSUME FinisherDies PROVE TypeOK'
  <2>1. finisher' \in FinisherStates
    BY <1>21 DEF FinisherDies, TypeOK, FinisherStates
  <2> QED BY <1>21, <2>1 DEF FinisherDies, TypeOK
<1>22. ASSUME SendDone PROVE TypeOK'
  <2>1. Answering \in Clients /\ finisher' \in FinisherStates
    BY <1>22, AnsweringType DEF SendDone, Finishing, Threads
  <2>2. server' \in [Clients -> Peer]
    BY <1>22, <2>1, PeerTypes DEF SendDone
  <2>3. outbox' \in [Clients -> Seq({"WELCOME", "DONE", "ERROR"})]
    BY <1>22, <2>1, SentTypes DEF SendDone
  <2> QED BY <1>22, <2>1, <2>2, <2>3 DEF SendDone, TypeOK
<1>23. ASSUME NEW p \in Policies, SetPolicy(p) PROVE TypeOK'
  BY <1>23 DEF SetPolicy, TypeOK, Unserved
<1>24. ASSUME NEW p \in Policies, RemovePolicy(p) PROVE TypeOK'
  BY <1>24 DEF RemovePolicy, TypeOK, Unserved
<1>25. ASSUME Stop PROVE TypeOK'
  BY <1>25 DEF Stop, TypeOK
<1>26. ASSUME NEW c \in Clients, DropAtStop(c) PROVE TypeOK'
  <2>1. server' \in [Clients -> Peer]
    BY <1>26, PeerTypes DEF DropAtStop, Forget
  <2>2. outbox' \in [Clients -> Seq({"WELCOME", "DONE", "ERROR"})]
    BY <1>26, SentTypes DEF DropAtStop, TypeOK
  <2> QED BY <1>26, <2>1, <2>2 DEF DropAtStop, TypeOK
<1>27. ASSUME Stopped PROVE TypeOK'
  BY <1>27 DEF Stopped, TypeOK
<1>28. ASSUME Crash PROVE TypeOK'
  <2>1. server' \in [Clients -> Peer]
    BY <1>28 DEF Crash, Stranger, Peer
  <2>2. compute' \in ComputeStates /\ finisher' \in FinisherStates
    BY <1>28 DEF Crash, ComputeStates, FinisherStates, NoBatch, Batch
  <2>3. queue' \in Seq(Queued) /\ inflight' \in Seq(Batch)
    BY <1>28 DEF Crash
  <2> QED BY <1>28, <2>1, <2>2, <2>3 DEF Crash, TypeOK
<1> QED BY <1>1, <1>2, <1>3, <1>4, <1>5, <1>6, <1>7, <1>8, <1>9, <1>10, <1>11, <1>12, <1>13, <1>14,
           <1>15, <1>16, <1>17, <1>18, <1>19, <1>20, <1>21, <1>22, <1>23, <1>24, <1>25, <1>26, <1>27,
           <1>28
  DEF Next, IoThread, ComputeThread, FinisherThread, Host, Actor, Over, vars, TypeOK

-----------------------------------------------------------------------------
(* Who is in the pipeline, step by step.                                   *)

(* Who is in the pipeline, and what moving requests about in it leaves alone. *)
Pipe == Threads /\ Apart
SameHolders == \A d \in Clients : Held(d)' <=> Held(d)
HoldersBut(e) == \A d \in Clients : Held(d)' <=> Held(d) /\ d # e

Kept ==
    /\ Numbered /\ region' = region => Numbered'
    /\ Timely /\ UNCHANGED <<client, floor, policies>> => Timely'

(* Putting a launched batch in the pipeline moves its requests and nothing else. *)
LEMMA PutMoves ==
    ASSUME TypeOK, Pipe, Put
    PROVE  Pipe' /\ SameHolders /\ Kept
<1>1. inflight \in Seq(Batch) /\ compute.batch \in Batch BY DEF TypeOK, ComputeStates
<1>2. /\ inflight' = Append(inflight, compute.batch)
      /\ compute' = [at |-> "waiting", batch |-> NoBatch]
      /\ compute.batch.reqs # <<>>
      /\ UNCHANGED <<queue, finisher>>
  BY DEF Put, Pipe, Threads
<1>3. /\ \A b \in DOMAIN inflight : b \in DOMAIN inflight' /\ inflight'[b] = inflight[b]
      /\ \A b \in DOMAIN inflight' : b \in DOMAIN inflight \/ (b = Len(inflight) + 1 /\ inflight'[b] = compute.batch)
      /\ Len(inflight) + 1 \in DOMAIN inflight' /\ inflight'[Len(inflight) + 1] = compute.batch
  BY <1>1, <1>2
<1>4. compute'.batch = NoBatch /\ DOMAIN compute'.batch.reqs = {} BY <1>2 DEF NoBatch
<1>5. Threads' BY <1>2, <1>3, <1>4 DEF Pipe, Threads
<1>6. Apart' BY <1>2, <1>3, <1>4 DEF Pipe, Apart, Once, Disjoint
<1>7. SameHolders BY <1>2, <1>3, <1>4 DEF SameHolders, Held, Holders
<1>8. Kept
  <2>1. ASSUME Numbered, region' = region PROVE Numbered'
    BY <1>2, <1>3, <1>4, <2>1 DEF Numbered, TheRegions
  <2>2. ASSUME Timely, UNCHANGED <<client, floor, policies>> PROVE Timely'
    BY <1>2, <1>3, <1>4, <2>2 DEF Timely, Fresh, Between, At
  <2> QED BY <2>1, <2>2 DEF Kept
<1> QED BY <1>5, <1>6, <1>7, <1>8 DEF Pipe

(* The sentinel at the end of the compute thread holds no request. *)
LEMMA ComputeEndsMoves ==
    ASSUME TypeOK, Pipe, ComputeEnds
    PROVE  Pipe' /\ SameHolders /\ Kept
<1>1. inflight \in Seq(Batch) BY DEF TypeOK
<1>2. /\ inflight' = Append(inflight, NoBatch)
      /\ compute'.at = "ended" /\ compute'.batch = compute.batch
      /\ compute.batch = NoBatch
      /\ UNCHANGED <<queue, finisher>>
  BY DEF ComputeEnds, Pipe, Threads, TypeOK, ComputeStates
<1>3. /\ \A b \in DOMAIN inflight : b \in DOMAIN inflight' /\ inflight'[b] = inflight[b]
      /\ \A b \in DOMAIN inflight' : b \in DOMAIN inflight \/ inflight'[b] = NoBatch
  BY <1>1, <1>2
<1>4. DOMAIN NoBatch.reqs = {} BY DEF NoBatch
<1>5. Threads' BY <1>2, <1>3 DEF Pipe, Threads
<1>6. Apart' BY <1>2, <1>3, <1>4 DEF Pipe, Apart, Once, Disjoint
<1>7. SameHolders BY <1>2, <1>3, <1>4 DEF SameHolders, Held, Holders
<1>8. Kept
  <2>1. ASSUME Numbered, region' = region PROVE Numbered'
    BY <1>2, <1>3, <1>4, <2>1 DEF Numbered, TheRegions
  <2>2. ASSUME Timely, UNCHANGED <<client, floor, policies>> PROVE Timely'
    BY <1>2, <1>3, <1>4, <2>2 DEF Timely, Fresh, Between, At
  <2> QED BY <2>1, <2>2 DEF Kept
<1> QED BY <1>5, <1>6, <1>7, <1>8 DEF Pipe

(* Collecting a batch moves the requests of the oldest one in flight. *)
LEMMA CollectMoves ==
    ASSUME TypeOK, Pipe, NEW fails \in BOOLEAN, Collect(fails)
    PROVE  Pipe' /\ SameHolders /\ Kept
<1>1. inflight \in Seq(Batch) /\ inflight # <<>> BY DEF TypeOK, Collect
<1>2. /\ inflight' = Tail(inflight) /\ UNCHANGED <<queue, compute>>
      /\ finisher.at = "waiting" /\ finisher.batch.reqs = <<>>
  BY DEF Collect, Pipe, Threads
<1>3. /\ finisher'.batch.reqs = inflight[1].reqs
      /\ inflight[1].reqs # <<>> => finisher'.batch.version = inflight[1].version
  <2>1. Head(inflight) = inflight[1] /\ inflight[1] \in Batch BY <1>1
  <2>2. CASE inflight[1] = NoBatch
    <3>1. finisher' = [finisher EXCEPT !.at = "ended"] BY <2>1, <2>2 DEF Collect
    <3> QED BY <3>1, <2>2, <1>2 DEF TypeOK, FinisherStates, NoBatch
  <2>3. CASE inflight[1] # NoBatch
    <3>1. finisher' = [at |-> "answering", batch |-> [inflight[1] EXCEPT !.failed = @ \/ fails]]
      BY <2>1, <2>3 DEF Collect
    <3> QED BY <3>1, <2>1 DEF Batch
  <2> QED BY <2>2, <2>3
<1>4. finisher'.at = IF inflight[1].reqs = <<>> THEN "ended" ELSE "answering"
  <2>1. Head(inflight) = inflight[1] /\ inflight[1] \in Batch BY <1>1
  <2>2. inflight[1] = NoBatch <=> inflight[1].reqs = <<>>
    <3>1. 1 \in DOMAIN inflight BY <1>1
    <3>2. NoBatch.reqs = <<>> BY DEF NoBatch
    <3> QED BY <3>1, <3>2 DEF Pipe, Threads
  <2> QED BY <2>1, <2>2 DEF Collect, TypeOK, FinisherStates
<1>5. /\ \A b \in DOMAIN inflight' : b + 1 \in DOMAIN inflight /\ b # 0 /\ b \in Nat /\ inflight'[b] = inflight[b + 1]
      /\ \A b \in DOMAIN inflight : b # 1 => b \in Nat /\ b - 1 \in DOMAIN inflight' /\ inflight'[b - 1] = inflight[b]
      /\ 1 \in DOMAIN inflight
  BY <1>1, <1>2
<1>6. Threads' BY <1>2, <1>3, <1>4, <1>5 DEF Pipe, Threads
<1>7. Apart'
  <2>1. \A i : i \notin DOMAIN <<>> OBVIOUS
  <2>2. (Once(queue) /\ Once(compute.batch.reqs) /\ Once(finisher.batch.reqs))'
    BY <1>2, <1>3, <1>5 DEF Pipe, Apart, Once
  <2>3. (\A b \in DOMAIN inflight : Once(inflight[b].reqs))' BY <1>2, <1>5 DEF Pipe, Apart, Once
  <2>4. (/\ Disjoint(queue, compute.batch.reqs) /\ Disjoint(queue, finisher.batch.reqs)
         /\ Disjoint(compute.batch.reqs, finisher.batch.reqs))'
    BY <1>2, <1>3, <1>5 DEF Pipe, Apart, Disjoint
  <2>5. ASSUME NEW b \in DOMAIN inflight' PROVE
          (/\ Disjoint(queue, inflight[b].reqs)
           /\ Disjoint(compute.batch.reqs, inflight[b].reqs)
           /\ Disjoint(finisher.batch.reqs, inflight[b].reqs)
           /\ \A d \in DOMAIN inflight : d # b => Disjoint(inflight[b].reqs, inflight[d].reqs))'
    <3>1. b + 1 \in DOMAIN inflight /\ b + 1 # 1 /\ inflight'[b] = inflight[b + 1] BY <1>5
    <3>2. \A d \in DOMAIN inflight' : d # b => d + 1 \in DOMAIN inflight /\ d + 1 # b + 1 /\ inflight'[d] = inflight[d + 1]
      BY <1>5
    <3> QED BY <1>2, <1>3, <1>5, <3>1, <3>2 DEF Pipe, Apart, Disjoint
  <2> QED BY <2>2, <2>3, <2>4, <2>5 DEF Apart
<1>8. SameHolders
  <2>1. DOMAIN finisher.batch.reqs = {} BY <1>2
  <2>2. \A d \in Clients :
           (\E b \in DOMAIN inflight : d \in Holders(inflight[b].reqs))
           <=> d \in Holders(inflight[1].reqs) \/ (\E b \in DOMAIN inflight' : d \in Holders(inflight'[b].reqs))
    BY <1>5
  <2>3. \A d \in Clients : d \notin Holders(finisher.batch.reqs) BY <2>1 DEF Holders
  <2>4. Holders(queue)' = Holders(queue) /\ Holders(compute.batch.reqs)' = Holders(compute.batch.reqs)
        /\ Holders(finisher.batch.reqs)' = Holders(inflight[1].reqs)
        /\ \A b : Holders(inflight[b].reqs)' = Holders(inflight'[b].reqs)
    BY <1>2, <1>3 DEF Holders
  <2> QED BY <2>2, <2>3, <2>4 DEF SameHolders, Held
<1>9. Kept
  <2>1. \A i \in DOMAIN inflight[1].reqs : finisher'.batch.version = inflight[1].version
    <3>1. DOMAIN <<>> = {} OBVIOUS
    <3> QED BY <1>3, <3>1
  <2> QED BY <1>2, <1>3, <1>5, <2>1 DEF Kept, Numbered, TheRegions, Timely, Fresh, Between, At
<1> QED BY <1>6, <1>7, <1>8, <1>9 DEF Pipe

(* The tail of a list, element by element. *)
LEMMA TailOfList ==
    ASSUME NEW S, NEW s \in Seq(S), s # <<>>
    PROVE  /\ Tail(s) = <<>> <=> Len(s) = 1
           /\ \A i \in DOMAIN Tail(s) : i + 1 \in DOMAIN s /\ i # 0 /\ i \in Nat /\ Tail(s)[i] = s[i + 1]
           /\ \A i \in DOMAIN s : i # 1 => i \in Nat /\ i - 1 \in DOMAIN Tail(s) /\ Tail(s)[i - 1] = s[i]
<1>1. /\ Tail(s) \in Seq(S) /\ Len(Tail(s)) = Len(s) - 1
      /\ \A i \in 1..Len(Tail(s)) : Tail(s)[i] = s[i + 1]
      /\ Len(s) \in Nat /\ Len(s) # 0
  BY HeadTailProperties, EmptySeq
<1>2. DOMAIN s = 1..Len(s) /\ DOMAIN Tail(s) = 1..(Len(s) - 1) BY <1>1
<1>3. Tail(s) = <<>> <=> Len(Tail(s)) = 0 BY <1>1, EmptySeq
<1> DEFINE t == Tail(s)
           n == Len(s)
<1>4. /\ n \in Nat /\ Len(t) = n - 1 /\ DOMAIN s = 1..n /\ DOMAIN t = 1..(n - 1)
      /\ (t = <<>> <=> Len(t) = 0) /\ \A i \in 1..(n - 1) : t[i] = s[i + 1]
  BY <1>1, <1>2, <1>3
<1> HIDE DEF t, n
<1>5. /\ t = <<>> <=> n = 1
      /\ \A i \in DOMAIN t : i + 1 \in DOMAIN s /\ i # 0 /\ i \in Nat /\ t[i] = s[i + 1]
      /\ \A i \in DOMAIN s : i # 1 => i \in Nat /\ i - 1 \in DOMAIN t /\ t[i - 1] = s[i]
  BY <1>4
<1> QED BY <1>5 DEF t, n

(* Handling one request takes it, and only it, out of the pipeline. *)
LEMMA Popped ==
    ASSUME TypeOK, Pipe, finisher.batch.reqs # <<>>,
     finisher' = NextRequest(finisher.batch), UNCHANGED <<queue, compute, inflight>>
    PROVE  Pipe' /\ HoldersBut(Answering) /\ Held(Answering) /\ Kept
<1>1. finisher.batch \in Batch /\ finisher.batch.reqs \in Seq(Queued) BY DEF TypeOK, FinisherStates, Batch
<1> DEFINE old == finisher.batch.reqs
           new == finisher'.batch.reqs
<1>2. new = Tail(old) /\ finisher'.at = IF Tail(old) = <<>> THEN "waiting" ELSE "answering"
  <2>1. CASE Len(old) = 1
    <3>1. Tail(old) = <<>> BY <1>1, <2>1, TailOfList
    <3> QED BY <3>1, <2>1 DEF NextRequest, NoBatch
  <2>2. CASE Len(old) # 1
    <3>1. Tail(old) # <<>> BY <1>1, <2>2, TailOfList
    <3>2. [finisher.batch EXCEPT !.reqs = Tail(@)].reqs = Tail(old) BY <1>1 DEF Batch
    <3> QED BY <3>1, <3>2, <2>2 DEF NextRequest
  <2> QED BY <2>1, <2>2
<1>3. Answering = old[1].client /\ 1 \in DOMAIN old BY <1>1 DEF Answering, old
<1>4. /\ \A i \in DOMAIN new : i + 1 \in DOMAIN old /\ i # 0 /\ i \in Nat /\ new[i] = old[i + 1]
      /\ \A i \in DOMAIN old : i # 1 => i \in Nat /\ i - 1 \in DOMAIN new /\ new[i - 1] = old[i]
  <2>1. new = Tail(old) /\ old \in Seq(Queued) /\ old # <<>> BY <1>1, <1>2
  <2> HIDE DEF old, new
  <2> QED BY <2>1, TailOfList
<1>5. Threads' BY <1>2 DEF Pipe, Threads
<1>6. Once(new) BY <1>4 DEF Pipe, Apart, Once
<1>7. Apart' BY <1>4, <1>6 DEF Pipe, Apart, Disjoint
<1>8. \A d \in Clients : d \in Holders(new) <=> d \in Holders(old) /\ d # Answering
  <2>1. \A i \in DOMAIN new : new[i].client # Answering BY <1>3, <1>4 DEF Pipe, Apart, Once
  <2> QED BY <1>3, <1>4, <2>1 DEF Holders
<1>9. Answering \notin Holders(queue) /\ Answering \notin Holders(compute.batch.reqs)
      /\ \A b \in DOMAIN inflight : Answering \notin Holders(inflight[b].reqs)
  BY <1>3 DEF Pipe, Apart, Disjoint, Holders
<1>10. HoldersBut(Answering) BY <1>8, <1>9 DEF HoldersBut, Held
<1>11. Held(Answering) BY <1>3 DEF Held, Holders
<1>12. \A i \in DOMAIN new : finisher'.batch.version = finisher.batch.version
  <2>1. CASE Len(old) = 1
    <3>1. DOMAIN <<>> = {} /\ new = <<>> BY <1>1, <1>2, <2>1, TailOfList
    <3> QED BY <3>1
  <2>2. CASE Len(old) # 1 BY <1>1, <2>2 DEF NextRequest, Batch
  <2> QED BY <2>1, <2>2
<1>13. Kept
  <2>1. Numbered /\ region' = region => Numbered' BY <1>4 DEF Numbered, TheRegions
  <2>2. ASSUME Timely, UNCHANGED <<client, floor, policies>> PROVE Timely'
    <3>1. \A i \in DOMAIN new : At(new[i].client, "waiting") => Between(new[i].client, finisher'.batch.version)
      BY <1>4, <1>12, <2>2 DEF Timely, Fresh
    <3>2. Fresh(finisher.batch)' BY <2>2, <3>1 DEF Fresh, At, Between
    <3> QED BY <2>2, <3>2 DEF Timely, Fresh, At, Between
  <2> QED BY <2>1, <2>2 DEF Kept
<1> QED BY <1>5, <1>7, <1>10, <1>11, <1>13 DEF Pipe

(* A validated request enters the pipeline at the end of the queue. *)
LEMMA HandledEval ==
    ASSUME TypeOK, Pipe, NEW c \in Clients, ~Held(c), queue' = Append(queue, Request(c)),
     UNCHANGED <<compute, inflight, finisher>>
    PROVE  Pipe' /\ (\A d \in Clients : Held(d)' <=> Held(d) \/ d = c) /\ Kept
<1>1. queue \in Seq(Queued) BY DEF TypeOK
<1>2. /\ \A i \in DOMAIN queue : i \in DOMAIN queue' /\ queue'[i] = queue[i]
      /\ \A i \in DOMAIN queue' : i \in DOMAIN queue \/ (i = Len(queue) + 1 /\ queue'[i].client = c)
      /\ Len(queue) + 1 \in DOMAIN queue' /\ queue'[Len(queue) + 1].client = c
      /\ queue'[Len(queue) + 1].seq = region[c].seq
  BY <1>1 DEF Request
<1>3. \A i \in DOMAIN queue : queue[i].client # c BY DEF Held, Holders
<1>4. Once(queue)' BY <1>2, <1>3 DEF Pipe, Apart, Once
<1>5. /\ \A i \in DOMAIN compute.batch.reqs : compute.batch.reqs[i].client # c
      /\ \A i \in DOMAIN finisher.batch.reqs : finisher.batch.reqs[i].client # c
      /\ \A b \in DOMAIN inflight : \A i \in DOMAIN inflight[b].reqs : inflight[b].reqs[i].client # c
  BY DEF Held, Holders
<1>6. Apart' BY <1>2, <1>4, <1>5 DEF Pipe, Apart, Disjoint
<1>7. \A d \in Clients : (d \in Holders(queue))' <=> d \in Holders(queue) \/ d = c
  BY <1>2 DEF Holders
<1>8. \A d \in Clients : Held(d)' <=> Held(d) \/ d = c BY <1>7 DEF Held
<1>9. Threads' BY DEF Pipe, Threads
<1>10. Kept
  <2>1. ASSUME Numbered, region' = region PROVE Numbered'
    BY <1>2, <2>1 DEF Numbered, TheRegions
  <2>2. ASSUME Timely, UNCHANGED <<client, floor, policies>> PROVE Timely'
    BY <1>2, <2>2 DEF Timely, Fresh, Between, At
  <2> QED BY <2>1, <2>2 DEF Kept
<1> QED BY <1>6, <1>8, <1>9, <1>10 DEF Pipe

(* Requests may leave the pipeline, of clients that are not alive. *)
Shed == \A d \in Clients : (Held(d)' => Held(d)) /\ (Held(d) /\ server[d].alive => Held(d)')

(* Taking a batch loses no request of a living client, and stamps it with weights no older than any question. *)
LEMMA TakeBatchMoves ==
    ASSUME TypeOK, Pipe, TakeBatch
    PROVE  /\ Pipe' /\ Shed
           /\ Numbered /\ region' = region => Numbered'
           /\ /\ Timely /\ \A d \in Clients : floor[d] <= policies[Current]
              /\ UNCHANGED <<client, floor, policies>>
              => Timely'
<1>1. PICK order, n : Taken(order, n) BY TakeBatchTakes
<1>2. compute'.at = "putting" /\ UNCHANGED <<inflight, finisher>> BY TakeBatchTakes DEF TakeBatch, threads
<1>3. compute.batch = NoBatch /\ DOMAIN compute.batch.reqs = {} BY DEF Pipe, Threads, TakeBatch, NoBatch
<1> DEFINE reqs == compute'.batch.reqs
<1>4. Threads' BY <1>1, <1>2 DEF Pipe, Threads, Taken
<1>5. \A i, j \in DOMAIN order : queue[order[i]].client = queue[order[j]].client => i = j
  BY <1>1 DEF Pipe, Apart, Once, Taken
<1>6. /\ \A i \in DOMAIN reqs : i \in DOMAIN order /\ i <= n /\ i \in Nat /\ reqs[i] = queue[order[i]]
      /\ \A i \in DOMAIN queue' : n + i \in DOMAIN order /\ n + i > n /\ i \in Nat /\ queue'[i] = queue[order[n + i]]
      /\ \A i \in DOMAIN order : order[i] \in DOMAIN queue
      /\ n \in Nat
  BY <1>1 DEF Taken
<1>7. Once(reqs) BY <1>5, <1>6 DEF Once
<1>8. Once(queue')
  <2> SUFFICES ASSUME NEW i \in DOMAIN queue', NEW j \in DOMAIN queue', queue'[i].client = queue'[j].client
               PROVE  i = j
    BY DEF Once
  <2>1. n + i = n + j BY <1>5, <1>6
  <2> QED BY <2>1, <1>6
<1>9. Disjoint(queue', reqs)
  <2> SUFFICES ASSUME NEW i \in DOMAIN queue', NEW j \in DOMAIN reqs, queue'[i].client = reqs[j].client PROVE FALSE
    BY DEF Disjoint
  <2>1. n + i = j BY <1>5, <1>6
  <2> QED BY <2>1, <1>6
<1>10. /\ \A i \in DOMAIN reqs : \E k \in DOMAIN queue : reqs[i] = queue[k]
       /\ \A i \in DOMAIN queue' : \E k \in DOMAIN queue : queue'[i] = queue[k]
  BY <1>6
<1>11. Apart' BY <1>2, <1>7, <1>8, <1>9, <1>10 DEF Pipe, Apart, Disjoint
<1>12. \A d \in Clients : Held(d)' => Held(d) BY <1>2, <1>10 DEF Held, Holders
<1>13. ASSUME NEW d \in Clients, Held(d), server[d].alive PROVE Held(d)'
  <2>1. CASE d \in Holders(queue)
    <3>1. PICK i \in DOMAIN queue : queue[i].client = d BY <2>1 DEF Holders
    <3>2. PICK k \in DOMAIN order : order[k] = i BY <1>1, <1>13, <3>1 DEF Taken
    <3>3. CASE k <= n
      <4>1. k \in DOMAIN reqs /\ reqs[k].client = d BY <1>1, <1>6, <3>1, <3>2, <3>3 DEF Taken
      <4> QED BY <4>1 DEF Held, Holders
    <3>4. CASE ~(k <= n)
      <4>1. k - n \in DOMAIN queue' /\ k \in Nat BY <1>1, <3>4 DEF Taken
      <4>2. n + (k - n) = k BY <4>1, <1>6
      <4>3. queue'[k - n].client = d BY <4>1, <4>2, <1>6, <3>1, <3>2
      <4> QED BY <4>1, <4>3 DEF Held, Holders
    <3> QED BY <3>3, <3>4
  <2>2. CASE d \notin Holders(queue) BY <1>2, <1>3, <1>13, <2>2 DEF Held, Holders
  <2> QED BY <2>1, <2>2
<1>14. Numbered /\ region' = region => Numbered'
  BY <1>2, <1>10 DEF Numbered, TheRegions
<1>15. ASSUME Timely, \A d \in Clients : floor[d] <= policies[Current], UNCHANGED <<client, floor, policies>>
       PROVE  Timely'
  <2>1. compute'.batch.version = policies[Current] BY TakeBatchTakes
  <2>2. policies[Current] \in Int BY CurrentAssumption DEF TypeOK
  <2>3. \A i \in DOMAIN reqs : reqs[i].client \in Clients
    <3>1. queue \in Seq(Queued) BY DEF TypeOK
    <3>2. \A i \in DOMAIN queue : queue[i] \in Queued BY <3>1
    <3>3. \A i \in DOMAIN queue : queue[i].client \in Clients BY <3>2 DEF Queued
    <3> QED BY <1>10, <3>3
  <2>4. Fresh(compute.batch)' BY <1>15, <2>1, <2>2, <2>3 DEF Fresh, Between
  <2> QED BY <1>2, <1>15, <2>4 DEF Timely, Fresh, Between, At
<1> QED BY <1>4, <1>11, <1>12, <1>13, <1>14, <1>15 DEF Pipe, Shed

(* Pruning loses only requests of dropped clients. *)
LEMMA PruneMoves ==
    ASSUME TypeOK, Pipe, Prune
    PROVE  Pipe' /\ Shed /\ Kept
<1>1. /\ queue' = <<>> /\ UNCHANGED <<compute, inflight, finisher>>
      /\ \A i \in DOMAIN queue : ~server[queue[i].client].alive
  BY DEF Prune, threads, Live
<1>2. DOMAIN queue' = {} BY <1>1
<1>3. Pipe' BY <1>1, <1>2 DEF Pipe, Threads, Apart, Once, Disjoint
<1>4. Shed BY <1>1, <1>2 DEF Shed, Held, Holders
<1>5. Kept BY <1>1, <1>2 DEF Kept, Numbered, TheRegions, Timely, Fresh, Between, At
<1> QED BY <1>3, <1>4, <1>5

(* A crash leaves the pipeline empty. *)
LEMMA CrashMoves ==
    ASSUME TypeOK, Crash
    PROVE  Pipe' /\ (\A d \in Clients : ~Held(d)') /\ Numbered' /\ Timely'
<1>1. /\ queue' = <<>> /\ inflight' = <<>>
      /\ compute' = [at |-> "ended", batch |-> NoBatch] /\ finisher' = [at |-> "ended", batch |-> NoBatch]
  BY DEF Crash
<1>2. /\ DOMAIN queue' = {} /\ DOMAIN inflight' = {}
      /\ DOMAIN compute'.batch.reqs = {} /\ DOMAIN finisher'.batch.reqs = {}
  BY <1>1 DEF NoBatch
<1>3. Threads' BY <1>1, <1>2 DEF Threads, NoBatch
<1>4. Apart' BY <1>2 DEF Apart, Once, Disjoint
<1>5. \A d \in Clients : ~Held(d)' BY <1>2 DEF Held, Holders
<1>6. Numbered' /\ Timely' BY <1>2 DEF Numbered, TheRegions, Timely, Fresh
<1> QED BY <1>3, <1>4, <1>5, <1>6 DEF Pipe

-----------------------------------------------------------------------------
(* Questions and answers.                                                  *)

(* The inboxes Wire names are different ones. *)
LEMMA Boxes == <<"HELLO">> # <<"EVAL">> /\ <<>> # <<"HELLO">> /\ <<>> # <<"EVAL">>
  OBVIOUS

(* Who is in the pipeline depends on the lists alone. *)
LEMMA ListsUntouched ==
    ASSUME UNCHANGED <<queue, inflight>>, compute'.batch = compute.batch, finisher'.batch = finisher.batch
    PROVE  SameHolders /\ (Apart => Apart')
  BY DEF SameHolders, Held, Holders, Apart, Once, Disjoint

(* What a message changes in the outboxes. *)
LEMMA SentMail ==
    ASSUME TypeOK, NEW c \in Clients, NEW msg \in {"WELCOME", "DONE", "ERROR"}, Sent(c, msg), NEW d \in Clients
    PROVE  \/ outbox'[d] = outbox[d]
           \/ /\ d = c /\ server[c].alive /\ ~At(c, "gone")
              /\ \A i \in DOMAIN outbox[d] : i \in DOMAIN outbox'[d] /\ outbox'[d][i] = outbox[d][i]
              /\ \A i \in DOMAIN outbox'[d] : i \in DOMAIN outbox[d] \/ outbox'[d][i] = msg
              /\ \A i, j \in DOMAIN outbox'[d] : i \notin DOMAIN outbox[d] /\ j \notin DOMAIN outbox[d] => i = j
<1>1. outbox \in [Clients -> Seq({"WELCOME", "DONE", "ERROR"})] BY DEF TypeOK
<1>2. CASE StillAlive(c) /\ d = c
  <2>1. outbox'[d] = Append(outbox[d], msg) BY <1>1, <1>2 DEF Sent
  <2>2. outbox[d] \in Seq({"WELCOME", "DONE", "ERROR"}) BY <1>1
  <2>3. /\ \A i \in DOMAIN outbox[d] : i \in DOMAIN outbox'[d] /\ outbox'[d][i] = outbox[d][i]
        /\ \A i \in DOMAIN outbox'[d] : i \in DOMAIN outbox[d] \/ (i = Len(outbox[d]) + 1 /\ outbox'[d][i] = msg)
    BY <2>1, <2>2
  <2> QED BY <1>2, <2>3 DEF StillAlive, Closed
<1>3. CASE ~(StillAlive(c) /\ d = c) BY <1>1, <1>3 DEF Sent
<1> QED BY <1>2, <1>3

Exchanges == \A c \in Clients : Wire(c) /\ Flag(c)

(* Every step keeps a question or its answer in one place, and the flag true. *)
LEMMA WireKept ==
    ASSUME TypeOK, Pipe, Exchanges, [Next]_vars, NEW d \in Clients
    PROVE  Wire(d)' /\ Flag(d)'
<1> USE DEF wire, threads, ServerSide, ClientSide, Elsewhere
<1>0. /\ Wire(d) /\ Flag(d) /\ client \in [Clients -> RemoteEvaluators] /\ server \in [Clients -> Peer]
      /\ inbox \in [Clients -> Seq({"HELLO", "EVAL"})]
      /\ outbox \in [Clients -> Seq({"WELCOME", "DONE", "ERROR"})]
  BY DEF TypeOK, Exchanges
<1>1. ASSUME NEW c \in Clients, Connect(c) PROVE Wire(d)' /\ Flag(d)'
  <2>1. Held(d)' <=> Held(d) BY <1>1, ListsUntouched DEF SameHolders, Connect
  <2>2. At(c, "new") /\ inbox' = [inbox EXCEPT ![c] = Append(@, "HELLO")] BY <1>1 DEF Connect, Tell
  <2>3. inbox[c] = <<>> /\ ~Held(c) BY <2>2 DEF Exchanges, Wire, At
  <2>4. inbox'[d] = IF d = c THEN <<"HELLO">> ELSE inbox[d] BY <1>0, <2>2, <2>3
  <2>5. client'[d].at = IF d = c THEN "greeting" ELSE client[d].at BY <1>0, <1>1 DEF Connect, RemoteEvaluators
  <2>6. \A i \in DOMAIN outbox[c] : outbox[c][i] = "ERROR"
    <3>1. \A i \in DOMAIN outbox[c] : outbox[c][i] \in {"WELCOME", "DONE", "ERROR"} BY <1>0
    <3> QED BY <2>2, <3>1 DEF Exchanges, Wire, At
  <2>7. outbox' = outbox BY <1>1 DEF Connect
  <2>8. Wire(d)'
    <3>1. CASE d = c BY <2>1, <2>3, <2>4, <2>5, <2>6, <2>7, <3>1, Boxes DEF Wire
    <3>2. CASE d # c BY <1>0, <2>1, <2>4, <2>5, <2>7, <3>2 DEF Wire, At
    <3> QED BY <3>1, <3>2
  <2>9. Flag(d)' BY <1>0, <1>1, <2>1 DEF Connect, Flag, Wire, At, Stranger
  <2> QED BY <2>8, <2>9
<1>2. ASSUME NEW c \in Clients, ConnectFails(c) PROVE Wire(d)' /\ Flag(d)'
  <2>1. Held(d)' <=> Held(d) BY <1>2, ListsUntouched DEF SameHolders, ConnectFails
  <2>8. Wire(d)' BY <1>0, <1>2, <2>1 DEF ConnectFails, Ends, Wire, At, Outside
  <2>9. Flag(d)' BY <1>0, <1>2, <2>1 DEF ConnectFails, Flag
  <2> QED BY <2>8, <2>9
<1>3. ASSUME NEW c \in Clients, Ask(c) PROVE Wire(d)' /\ Flag(d)'
  <2>1. Held(d)' <=> Held(d) BY <1>3, ListsUntouched DEF SameHolders, Ask
  <2>8. Wire(d)' BY <1>0, <1>3, <2>1 DEF Ask, Tell, Wire, At, RemoteEvaluators
  <2>9. Flag(d)' BY <1>0, <1>3, <2>1 DEF Ask, Flag
  <2> QED BY <2>8, <2>9
<1>4. ASSUME NEW c \in Clients, Answered(c) PROVE Wire(d)' /\ Flag(d)'
  <2>1. Held(d)' <=> Held(d) BY <1>4, ListsUntouched DEF SameHolders, Answered
  <2>8. Wire(d)'
    <3>1. CASE d # c BY <1>0, <1>4, <2>1, <3>1 DEF Answered, Wire, At
    <3>2. CASE d = c
      <4>1. /\ outbox[c] # <<>> /\ outbox'[c] = Tail(outbox[c]) /\ client'[c].at = "idle" /\ inbox' = inbox
            /\ Head(outbox[c]) = outbox[c][1] /\ outbox[c][1] # "ERROR" /\ 1 \in DOMAIN outbox[c]
        BY <1>0, <1>4 DEF Answered, Expected, RemoteEvaluators
      <4>2. \A i \in DOMAIN outbox'[c] : outbox'[c][i] = "ERROR"
        <5>1. \A i \in DOMAIN outbox'[c] : i + 1 \in DOMAIN outbox[c] /\ i + 1 # 1 /\ outbox'[c][i] = outbox[c][i + 1]
          BY <1>0, <4>1, TailOfList
        <5> QED BY <1>0, <3>2, <4>1, <5>1 DEF Wire
      <4>3. inbox[c] = <<>> /\ ~Held(c) BY <1>0, <3>2, <4>1 DEF Wire
      <4> QED BY <2>1, <3>2, <4>1, <4>2, <4>3 DEF Wire
    <3> QED BY <3>1, <3>2
  <2>9. Flag(d)' BY <1>0, <1>4, <2>1 DEF Answered, Flag
  <2> QED BY <2>8, <2>9
<1>5. ASSUME NEW c \in Clients, Fails(c) PROVE Wire(d)' /\ Flag(d)'
  <2>1. Held(d)' <=> Held(d) BY <1>5, ListsUntouched DEF SameHolders, Fails
  <2>8. Wire(d)' BY <1>0, <1>5, <2>1 DEF Fails, Ends, Wire, At, Outside
  <2>9. Flag(d)' BY <1>0, <1>5, <2>1 DEF Fails, Flag
  <2> QED BY <2>8, <2>9
<1>6. ASSUME NEW c \in Clients, Leaves(c) PROVE Wire(d)' /\ Flag(d)'
  <2>1. Held(d)' <=> Held(d) BY <1>6, ListsUntouched DEF SameHolders, Leaves
  <2>8. Wire(d)' BY <1>0, <1>6, <2>1 DEF Leaves, Ends, Wire, At, Outside
  <2>9. Flag(d)' BY <1>0, <1>6, <2>1 DEF Leaves, Flag
  <2> QED BY <2>8, <2>9
<1>7. ASSUME NEW c \in Clients, HandleHello(c) PROVE Wire(d)' /\ Flag(d)'
  <2>1. Held(d)' <=> Held(d) BY <1>7, ListsUntouched DEF SameHolders, HandleHello
  <2>2. Reads(c, "HELLO") /\ client' = client BY <1>7 DEF HandleHello
  <2>3. (d = c => inbox'[d] = <<>>) /\ (d # c => inbox'[d] = inbox[d])
    <3>1. inbox[c] = <<"HELLO">> BY <1>7, <2>2 DEF Reads, Exchanges, Wire
    <3> QED BY <1>0, <2>2, <3>1 DEF Reads
  <2>4. inbox[c] = <<"HELLO">> BY <2>2 DEF Reads, Exchanges, Wire
  <2>8. Wire(d)'
    <3>1. CASE Sent(c, "WELCOME")
      <4>1. CASE outbox'[d] = outbox[d] BY <1>0, <2>1, <2>2, <2>3, <2>4, <4>1, Boxes DEF Wire, At
      <4>2. CASE outbox'[d] # outbox[d]
        <5>1. /\ d = c /\ client[c].at # "gone"
              /\ \A i \in DOMAIN outbox'[d] :
                    IF i \in DOMAIN outbox[d] THEN outbox'[d][i] = outbox[d][i] ELSE outbox'[d][i] = "WELCOME"
              /\ \A i, j \in DOMAIN outbox'[d] : i \notin DOMAIN outbox[d] /\ j \notin DOMAIN outbox[d] => i = j
          BY <4>2, <3>1, SentMail DEF At
        <5>2. \A i \in DOMAIN outbox[d] : outbox[d][i] = "ERROR" BY <1>0, <2>4, <5>1, Boxes DEF Wire
        <5>3. client'[d].at = "greeting" /\ inbox'[d] = <<>> /\ ~Held(d)'
          BY <1>0, <2>1, <2>2, <2>3, <2>4, <5>1, Boxes DEF Wire
        <5> QED BY <5>1, <5>2, <5>3, Boxes DEF Wire, At
      <4> QED BY <4>1, <4>2
    <3>2. CASE Sent(c, "ERROR")
      <4>1. CASE outbox'[d] = outbox[d] BY <1>0, <2>1, <2>2, <2>3, <2>4, <4>1, Boxes DEF Wire, At
      <4>2. CASE outbox'[d] # outbox[d]
        <5>1. /\ d = c /\ client[c].at # "gone"
              /\ \A i \in DOMAIN outbox'[d] :
                    IF i \in DOMAIN outbox[d] THEN outbox'[d][i] = outbox[d][i] ELSE outbox'[d][i] = "ERROR"
              /\ \A i, j \in DOMAIN outbox'[d] : i \notin DOMAIN outbox[d] /\ j \notin DOMAIN outbox[d] => i = j
          BY <4>2, <3>2, SentMail DEF At
        <5>2. \A i \in DOMAIN outbox[d] : outbox[d][i] = "ERROR" BY <1>0, <2>4, <5>1, Boxes DEF Wire
        <5> QED BY <1>0, <2>1, <2>2, <2>3, <2>4, <5>1, <5>2, Boxes DEF Wire, At
      <4> QED BY <4>1, <4>2
    <3> QED BY <1>7, <3>1, <3>2 DEF HandleHello
  <2>9. Flag(d)'
    <3>1. CASE server' = [server EXCEPT ![c].hello = TRUE, ![c].mapped = TRUE, ![c].alive = StillAlive(c)]
      <4>1. StillAlive(c) => server[c].alive BY DEF StillAlive
      <4>2. d = c => server'[d].alive = StillAlive(c) /\ server'[d].queued = server[d].queued
        BY <1>0, <3>1 DEF Peer
      <4>3. d # c => server'[d] = server[d] BY <1>0, <3>1
      <4> QED BY <1>0, <2>1, <4>1, <4>2, <4>3 DEF Flag
    <3>2. CASE server' = [server EXCEPT ![c] = Stranger] BY <1>0, <2>1, <3>2 DEF Stranger, Flag
    <3> QED BY <1>7, <3>1, <3>2 DEF HandleHello, Forget
  <2> QED BY <2>8, <2>9
<1>8. ASSUME NEW c \in Clients, HandleEval(c) PROVE Wire(d)' /\ Flag(d)'
  <2>2. Reads(c, "EVAL") /\ client' = client BY <1>8 DEF HandleEval
  <2>4. inbox[c] = <<"EVAL">> BY <2>2 DEF Reads, Exchanges, Wire
  <2>3. (d = c => inbox'[d] = <<>>) /\ (d # c => inbox'[d] = inbox[d]) BY <1>0, <2>2, <2>4 DEF Reads
  <2>5. ~Held(c) BY <2>4 DEF Exchanges, Wire
  <2>8. Wire(d)'
    <3>1. CASE queue' = Append(queue, Request(c)) /\ outbox' = outbox
      <4>1. Held(d)' <=> Held(d) \/ d = c BY <1>8, <2>5, <3>1, HandledEval DEF HandleEval
      <4> QED BY <1>0, <2>2, <2>3, <2>4, <3>1, <4>1, Boxes DEF Wire, At
    <3>2. CASE Sent(c, "ERROR") /\ queue' = queue
      <4>1. Held(d)' <=> Held(d) BY <1>8, <3>2, ListsUntouched DEF SameHolders, HandleEval
      <4>2. CASE outbox'[d] = outbox[d] BY <1>0, <2>2, <2>3, <2>4, <4>1, <4>2, Boxes DEF Wire, At
      <4>3. CASE outbox'[d] # outbox[d]
        <5>1. /\ d = c /\ client[c].at # "gone"
              /\ \A i \in DOMAIN outbox'[d] :
                    IF i \in DOMAIN outbox[d] THEN outbox'[d][i] = outbox[d][i] ELSE outbox'[d][i] = "ERROR"
              /\ \A i, j \in DOMAIN outbox'[d] : i \notin DOMAIN outbox[d] /\ j \notin DOMAIN outbox[d] => i = j
          BY <4>3, <3>2, SentMail DEF At
        <5>2. \A i \in DOMAIN outbox[d] : outbox[d][i] = "ERROR" BY <1>0, <2>4, <5>1, Boxes DEF Wire
        <5> QED BY <1>0, <2>2, <2>3, <2>4, <4>1, <5>1, <5>2, Boxes DEF Wire, At
      <4> QED BY <4>2, <4>3
    <3> QED BY <1>8, <3>1, <3>2 DEF HandleEval
  <2>9. Flag(d)'
    <3>1. CASE queue' = Append(queue, Request(c)) /\ server' = [server EXCEPT ![c].queued = TRUE]
      <4>1. Held(d)' <=> Held(d) \/ d = c BY <1>8, <2>5, <3>1, HandledEval DEF HandleEval
      <4> QED BY <1>0, <3>1, <4>1 DEF Flag, Peer
    <3>2. CASE server' = [server EXCEPT ![c] = Stranger] /\ queue' = queue
      <4>1. Held(d)' <=> Held(d) BY <1>8, <3>2, ListsUntouched DEF SameHolders, HandleEval
      <4> QED BY <1>0, <3>2, <4>1 DEF Flag, Stranger
    <3> QED BY <1>8, <3>1, <3>2 DEF HandleEval, Forget
  <2> QED BY <2>8, <2>9
<1>9. ASSUME NEW c \in Clients, SeesEnd(c) PROVE Wire(d)' /\ Flag(d)'
  <2>1. Held(d)' <=> Held(d) BY <1>9, ListsUntouched DEF SameHolders, SeesEnd
  <2>8. Wire(d)' BY <1>0, <1>9, <2>1 DEF SeesEnd, Wire, At
  <2>9. Flag(d)' BY <1>0, <1>9, <2>1 DEF SeesEnd, Forget, Stranger, Flag
  <2> QED BY <2>8, <2>9
<1>10. ASSUME IoEnds PROVE Wire(d)' /\ Flag(d)'
  <2>1. Held(d)' <=> Held(d) BY <1>10, ListsUntouched DEF SameHolders, IoEnds
  <2>8. Wire(d)' BY <1>0, <1>10, <2>1 DEF IoEnds, Wire, At
  <2>9. Flag(d)' BY <1>0, <1>10, <2>1 DEF IoEnds, Flag
  <2> QED BY <2>8, <2>9
<1>11. ASSUME Deadline PROVE Wire(d)' /\ Flag(d)'
  <2>1. Held(d)' <=> Held(d) BY <1>11, ListsUntouched DEF SameHolders, Deadline
  <2>8. Wire(d)' BY <1>0, <1>11, <2>1 DEF Deadline, Wire, At
  <2>9. Flag(d)' BY <1>0, <1>11, <2>1 DEF Deadline, Flag
  <2> QED BY <2>8, <2>9
<1>12. ASSUME TakeBatch PROVE Wire(d)' /\ Flag(d)'
  <2>1. (Held(d)' => Held(d)) /\ (Held(d) /\ server[d].alive => Held(d)') BY <1>12, TakeBatchMoves DEF Shed
  <2>8. Wire(d)' BY <1>0, <1>12, <2>1 DEF TakeBatch, Wire, At
  <2>9. Flag(d)' BY <1>0, <1>12, <2>1 DEF TakeBatch, Flag
  <2> QED BY <2>8, <2>9
<1>13. ASSUME Prune PROVE Wire(d)' /\ Flag(d)'
  <2>1. (Held(d)' => Held(d)) /\ (Held(d) /\ server[d].alive => Held(d)') BY <1>13, PruneMoves DEF Shed
  <2>8. Wire(d)' BY <1>0, <1>13, <2>1 DEF Prune, Wire, At
  <2>9. Flag(d)' BY <1>0, <1>13, <2>1 DEF Prune, Flag
  <2> QED BY <2>8, <2>9
<1>14. ASSUME Put PROVE Wire(d)' /\ Flag(d)'
  <2>1. Held(d)' <=> Held(d) BY <1>14, PutMoves DEF SameHolders
  <2>8. Wire(d)' BY <1>0, <1>14, <2>1 DEF Put, Wire, At
  <2>9. Flag(d)' BY <1>0, <1>14, <2>1 DEF Put, Flag
  <2> QED BY <2>8, <2>9
<1>15. ASSUME ComputeEnds PROVE Wire(d)' /\ Flag(d)'
  <2>1. Held(d)' <=> Held(d) BY <1>15, ComputeEndsMoves DEF SameHolders
  <2>8. Wire(d)' BY <1>0, <1>15, <2>1 DEF ComputeEnds, Wire, At
  <2>9. Flag(d)' BY <1>0, <1>15, <2>1 DEF ComputeEnds, Flag
  <2> QED BY <2>8, <2>9
<1>16. ASSUME NEW fails \in BOOLEAN, Collect(fails) PROVE Wire(d)' /\ Flag(d)'
  <2>1. Held(d)' <=> Held(d) BY <1>16, CollectMoves DEF SameHolders
  <2>8. Wire(d)' BY <1>0, <1>16, <2>1 DEF Collect, Wire, At
  <2>9. Flag(d)' BY <1>0, <1>16, <2>1 DEF Collect, Flag
  <2> QED BY <2>8, <2>9
<1>17. ASSUME SkipDead PROVE Wire(d)' /\ Flag(d)'
  <2>1. /\ Answering \in Clients /\ Held(Answering) /\ (Held(d)' <=> Held(d) /\ d # Answering)
    BY <1>17, Popped, AnsweringType DEF HoldersBut, SkipDead, Finishing, Pipe, Threads
  <2>8. Wire(d)' BY <1>0, <1>17, <2>1 DEF SkipDead, Wire, At
  <2>9. Flag(d)' BY <1>0, <1>17, <2>1 DEF SkipDead, Flag
  <2> QED BY <2>8, <2>9
<1>18. ASSUME SeesAlive PROVE Wire(d)' /\ Flag(d)'
  <2>1. Held(d)' <=> Held(d) BY <1>18, ListsUntouched DEF SameHolders, SeesAlive, TypeOK, FinisherStates
  <2>8. Wire(d)' BY <1>0, <1>18, <2>1 DEF SeesAlive, Wire, At
  <2>9. Flag(d)' BY <1>0, <1>18, <2>1 DEF SeesAlive, Flag
  <2> QED BY <2>8, <2>9
<1>19. ASSUME RefuseRequest PROVE Wire(d)' /\ Flag(d)'
  <2>1. /\ Answering \in Clients /\ Held(Answering) /\ (Held(d)' <=> Held(d) /\ d # Answering)
    BY <1>19, Popped, AnsweringType DEF HoldersBut, RefuseRequest, Finishing, Pipe, Threads
  <2>2. Sent(Answering, "ERROR") /\ UNCHANGED <<client, inbox>> BY <1>19 DEF RefuseRequest
  <2>3. Wire(Answering) BY <2>1 DEF Exchanges
  <2>8. Wire(d)'
    <3>1. CASE outbox'[d] = outbox[d] BY <1>0, <2>1, <2>2, <3>1 DEF Wire, At
    <3>2. CASE outbox'[d] # outbox[d] BY <1>0, <2>1, <2>2, <2>3, <3>2, SentMail DEF Wire, At
    <3> QED BY <3>1, <3>2
  <2>9. Flag(d)' BY <1>0, <1>19, <2>1 DEF RefuseRequest, Flag, StillAlive, Peer
  <2> QED BY <2>8, <2>9
<1>20. ASSUME WriteResponse PROVE Wire(d)' /\ Flag(d)'
  <2>1. Held(d)' <=> Held(d) BY <1>20, ListsUntouched DEF SameHolders, WriteResponse, TypeOK, FinisherStates
  <2>8. Wire(d)' BY <1>0, <1>20, <2>1 DEF WriteResponse, Wire, At
  <2>9. Flag(d)' BY <1>0, <1>20, <2>1 DEF WriteResponse, Flag
  <2> QED BY <2>8, <2>9
<1>21. ASSUME FinisherDies PROVE Wire(d)' /\ Flag(d)'
  <2>1. Held(d)' <=> Held(d) BY <1>21, ListsUntouched DEF SameHolders, FinisherDies, TypeOK, FinisherStates
  <2>8. Wire(d)' BY <1>0, <1>21, <2>1 DEF FinisherDies, Wire, At
  <2>9. Flag(d)' BY <1>0, <1>21, <2>1 DEF FinisherDies, Flag
  <2> QED BY <2>8, <2>9
<1>22. ASSUME SendDone PROVE Wire(d)' /\ Flag(d)'
  <2>1. /\ Answering \in Clients /\ Held(Answering) /\ (Held(d)' <=> Held(d) /\ d # Answering)
    BY <1>22, Popped, AnsweringType DEF HoldersBut, SendDone, Finishing, Pipe, Threads
  <2>2. Sent(Answering, "DONE") /\ UNCHANGED <<client, inbox>> BY <1>22 DEF SendDone
  <2>3. Wire(Answering) BY <2>1 DEF Exchanges
  <2>8. Wire(d)'
    <3>1. CASE outbox'[d] = outbox[d] BY <1>0, <2>1, <2>2, <3>1 DEF Wire, At
    <3>2. CASE outbox'[d] # outbox[d] BY <1>0, <2>1, <2>2, <2>3, <3>2, SentMail DEF Wire, At
    <3> QED BY <3>1, <3>2
  <2>9. Flag(d)' BY <1>0, <1>22, <2>1 DEF SendDone, Flag, StillAlive, Peer
  <2> QED BY <2>8, <2>9
<1>23. ASSUME NEW p \in Policies, SetPolicy(p) PROVE Wire(d)' /\ Flag(d)'
  <2>1. Held(d)' <=> Held(d) BY <1>23, ListsUntouched DEF SameHolders, SetPolicy
  <2>8. Wire(d)' BY <1>0, <1>23, <2>1 DEF SetPolicy, Wire, At
  <2>9. Flag(d)' BY <1>0, <1>23, <2>1 DEF SetPolicy, Flag
  <2> QED BY <2>8, <2>9
<1>24. ASSUME NEW p \in Policies, RemovePolicy(p) PROVE Wire(d)' /\ Flag(d)'
  <2>1. Held(d)' <=> Held(d) BY <1>24, ListsUntouched DEF SameHolders, RemovePolicy
  <2>8. Wire(d)' BY <1>0, <1>24, <2>1 DEF RemovePolicy, Wire, At
  <2>9. Flag(d)' BY <1>0, <1>24, <2>1 DEF RemovePolicy, Flag
  <2> QED BY <2>8, <2>9
<1>25. ASSUME Stop PROVE Wire(d)' /\ Flag(d)'
  <2>1. Held(d)' <=> Held(d) BY <1>25, ListsUntouched DEF SameHolders, Stop
  <2>8. Wire(d)' BY <1>0, <1>25, <2>1 DEF Stop, Wire, At
  <2>9. Flag(d)' BY <1>0, <1>25, <2>1 DEF Stop, Flag
  <2> QED BY <2>8, <2>9
<1>26. ASSUME NEW c \in Clients, DropAtStop(c) PROVE Wire(d)' /\ Flag(d)'
  <2>1. Held(d)' <=> Held(d) BY <1>26, ListsUntouched DEF SameHolders, DropAtStop
  <2>8. Wire(d)'
    <3>1. client' = client /\ inbox' = inbox BY <1>26 DEF DropAtStop
    <3>2. CASE outbox'[d] = outbox[d] BY <1>0, <2>1, <3>1, <3>2 DEF Wire, At
    <3>3. CASE outbox'[d] # outbox[d]
      <4>1. Sent(c, "ERROR") BY <1>26, <3>3 DEF DropAtStop
      <4> QED BY <1>0, <2>1, <3>1, <3>3, <4>1, SentMail DEF Wire, At
    <3> QED BY <3>2, <3>3
  <2>9. Flag(d)' BY <1>0, <1>26, <2>1 DEF DropAtStop, Forget, Stranger, Flag
  <2> QED BY <2>8, <2>9
<1>27. ASSUME Stopped PROVE Wire(d)' /\ Flag(d)'
  <2>1. Held(d)' <=> Held(d) BY <1>27, ListsUntouched DEF SameHolders, Stopped
  <2>8. Wire(d)' BY <1>0, <1>27, <2>1 DEF Stopped, Wire, At
  <2>9. Flag(d)' BY <1>0, <1>27, <2>1 DEF Stopped, Flag
  <2> QED BY <2>8, <2>9
<1>28. ASSUME Crash PROVE Wire(d)' /\ Flag(d)'
  <2>1. ~Held(d)' BY <1>28, CrashMoves
  <2>8. Wire(d)' BY <1>0, <1>28, <2>1 DEF Crash, Wire, At
  <2>9. Flag(d)' BY <1>0, <1>28, <2>1 DEF Crash, Flag, Stranger
  <2> QED BY <2>8, <2>9
<1>29. CASE UNCHANGED vars
  <2>1. Held(d)' <=> Held(d) BY <1>29, ListsUntouched DEF SameHolders, vars
  <2> QED BY <1>0, <1>29, <2>1 DEF vars, Wire, Flag, At
<1> QED BY <1>1, <1>2, <1>3, <1>4, <1>5, <1>6, <1>7, <1>8, <1>9, <1>10, <1>11, <1>12, <1>13, <1>14,
           <1>15, <1>16, <1>17, <1>18, <1>19, <1>20, <1>21, <1>22, <1>23, <1>24, <1>25, <1>26, <1>27,
           <1>28, <1>29
  DEF Next, IoThread, ComputeThread, FinisherThread, Host, Actor, Over

-----------------------------------------------------------------------------
(* Numbers and weights.                                                    *)

(* While the lists stay as they are, their requests keep their numbers and their batches their age. *)
LEMMA ListsStand ==
    ASSUME TypeOK, UNCHANGED <<queue, inflight>>, compute'.batch = compute.batch, finisher'.batch = finisher.batch
    PROVE  /\ Numbered /\ (\A d \in Clients : Held(d) => region'[d].seq = region[d].seq) => Numbered'
           /\ /\ Timely /\ policies[Current] <= policies'[Current] /\ policies'[Current] \in Int
              /\ \A d \in Clients :
                    Held(d) /\ client'[d].at = "waiting" => At(d, "waiting") /\ floor'[d] = floor[d]
              => Timely'
<1>1. /\ queue \in Seq(Queued) /\ inflight \in Seq(Batch) /\ compute.batch \in Batch /\ finisher.batch \in Batch
  BY DEF TypeOK, ComputeStates, FinisherStates
<1>2. \A b \in DOMAIN inflight : inflight[b] \in Batch BY <1>1
<1>3. /\ \A i \in DOMAIN queue : queue[i] \in Queued
      /\ \A t \in Batch : t.version \in Int /\ \A i \in DOMAIN t.reqs : t.reqs[i] \in Queued
  BY <1>1 DEF Batch
<1>4. \A q \in Queued : q.client \in Clients BY DEF Queued
<1>5. /\ \A i \in DOMAIN queue : queue[i].client \in Clients /\ Held(queue[i].client)
      /\ \A i \in DOMAIN compute.batch.reqs :
           compute.batch.reqs[i].client \in Clients /\ Held(compute.batch.reqs[i].client)
      /\ \A i \in DOMAIN finisher.batch.reqs :
           finisher.batch.reqs[i].client \in Clients /\ Held(finisher.batch.reqs[i].client)
      /\ \A b \in DOMAIN inflight : \A i \in DOMAIN inflight[b].reqs :
           inflight[b].reqs[i].client \in Clients /\ Held(inflight[b].reqs[i].client)
  BY <1>1, <1>2, <1>3, <1>4 DEF Held, Holders
<1>6. Numbered /\ (\A d \in Clients : Held(d) => region'[d].seq = region[d].seq) => Numbered'
  BY <1>5 DEF Numbered, TheRegions
<1>7. ASSUME Timely, policies[Current] <= policies'[Current], policies'[Current] \in Int,
             \A d \in Clients : Held(d) /\ client'[d].at = "waiting" => At(d, "waiting") /\ floor'[d] = floor[d]
      PROVE  Timely'
  <2>1. policies[Current] \in Int /\ \A d \in Clients : floor[d] \in Int BY CurrentAssumption DEF TypeOK
  <2>2. ASSUME NEW t \in Batch, Fresh(t), \A i \in DOMAIN t.reqs : t.reqs[i].client \in Clients /\ Held(t.reqs[i].client)
        PROVE  \A i \in DOMAIN t.reqs : client'[t.reqs[i].client].at = "waiting"
                 => floor'[t.reqs[i].client] <= t.version /\ t.version <= policies'[Current]
    BY <1>3, <1>7, <2>1, <2>2 DEF Fresh, Between
  <2>3. Fresh(compute.batch)' /\ Fresh(finisher.batch)' BY <1>1, <1>5, <1>7, <2>2 DEF Timely, Fresh, Between, At
  <2>4. \A b \in DOMAIN inflight : (Fresh(inflight[b]))'
    BY <1>2, <1>5, <1>7, <2>2 DEF Timely, Fresh, Between, At
  <2> QED BY <2>3, <2>4 DEF Timely
<1> QED BY <1>6, <1>7

Ages == policies[Current] >= 0 /\ \A c \in Clients : Numbers(c) /\ Weights(c)

(* Every step keeps the pipeline apart, its requests numbered as the regions are, its batches timely. *)
LEMMA PipelineKept ==
    ASSUME TypeOK, Pipe, Numbered, Timely, Ages, [Next]_vars, \A c \in Clients : Wire(c) /\ Flag(c)
    PROVE  Pipe' /\ Numbered' /\ Timely'
<1> USE DEF wire, threads, ServerSide, ClientSide, Elsewhere
<1> DEFINE Stands == /\ UNCHANGED <<queue, inflight>> /\ compute'.batch = compute.batch
                     /\ finisher'.batch = finisher.batch /\ compute'.at = compute.at
           Aged == /\ \A d \in Clients : Held(d) => region'[d].seq = region[d].seq
                   /\ \A d \in Clients : Held(d) /\ client'[d].at = "waiting" => At(d, "waiting") /\ floor'[d] = floor[d]
                   /\ policies[Current] <= policies'[Current] /\ policies'[Current] \in Int
<1>a. ASSUME Stands, Aged, finisher'.at = finisher.at PROVE Pipe' /\ Numbered' /\ Timely'
  <2>1. Apart' BY <1>a, ListsUntouched DEF Pipe
  <2>2. Threads' BY <1>a DEF Pipe, Threads
  <2>3. Numbered' /\ Timely' BY <1>a, ListsStand
  <2> QED BY <2>1, <2>2, <2>3 DEF Pipe
<1>b. /\ policies[Current] \in Int /\ policies \in [Policies -> Int] /\ Current \in Policies
      /\ client \in [Clients -> RemoteEvaluators] /\ region \in [Clients -> Shared] /\ floor \in [Clients -> Int]
      /\ policies[Current] <= policies[Current]
  BY CurrentAssumption DEF TypeOK
<1>c. /\ \A d \in Clients : Held(d) => client[d].at \in {"waiting", "gone"}
      /\ \A d \in Clients : Numbers(d) /\ Weights(d)
  BY DEF Wire, Ages
<1> HIDE DEF Stands, Aged
<1>1. ASSUME NEW c \in Clients, Connect(c) PROVE Pipe' /\ Numbered' /\ Timely'
  <2>8. Stands /\ finisher'.at = finisher.at BY <1>1 DEF Stands, Connect
  <2>9. Aged BY <1>b, <1>1 DEF Aged, At, Connect, RemoteEvaluators
  <2> QED BY <1>a, <2>8, <2>9
<1>2. ASSUME NEW c \in Clients, ConnectFails(c) PROVE Pipe' /\ Numbered' /\ Timely'
  <2>8. Stands /\ finisher'.at = finisher.at BY <1>2 DEF Stands, ConnectFails
  <2>9. Aged BY <1>b, <1>2 DEF Aged, At, ConnectFails, Ends, Outside, RemoteEvaluators, Shared
  <2> QED BY <1>a, <2>8, <2>9
<1>3. ASSUME NEW c \in Clients, Ask(c) PROVE Pipe' /\ Numbered' /\ Timely'
  <2>1. ~Held(c) BY <1>c, <1>3 DEF Ask, At
  <2>8. Stands /\ finisher'.at = finisher.at BY <1>3 DEF Stands, Ask
  <2>9. Aged BY <1>b, <1>c, <1>3, <2>1 DEF Aged, At, Ask, RemoteEvaluators, Shared
  <2> QED BY <1>a, <2>8, <2>9
<1>4. ASSUME NEW c \in Clients, Answered(c) PROVE Pipe' /\ Numbered' /\ Timely'
  <2>8. Stands /\ finisher'.at = finisher.at BY <1>4 DEF Stands, Answered
  <2>9. Aged BY <1>b, <1>4 DEF Aged, At, Answered, RemoteEvaluators
  <2> QED BY <1>a, <2>8, <2>9
<1>5. ASSUME NEW c \in Clients, Fails(c) PROVE Pipe' /\ Numbered' /\ Timely'
  <2>8. Stands /\ finisher'.at = finisher.at BY <1>5 DEF Stands, Fails
  <2>9. Aged BY <1>b, <1>5 DEF Aged, At, Fails, Ends, Outside, RemoteEvaluators, Shared
  <2> QED BY <1>a, <2>8, <2>9
<1>6. ASSUME NEW c \in Clients, Leaves(c) PROVE Pipe' /\ Numbered' /\ Timely'
  <2>8. Stands /\ finisher'.at = finisher.at BY <1>6 DEF Stands, Leaves
  <2>9. Aged BY <1>b, <1>6 DEF Aged, At, Leaves, Ends, Outside, RemoteEvaluators, Shared
  <2> QED BY <1>a, <2>8, <2>9
<1>7. ASSUME NEW c \in Clients, HandleHello(c) PROVE Pipe' /\ Numbered' /\ Timely'
  <2>8. Stands /\ finisher'.at = finisher.at BY <1>7 DEF Stands, HandleHello
  <2>9. Aged BY <1>b, <1>7 DEF Aged, At, HandleHello
  <2> QED BY <1>a, <2>8, <2>9
<1>8. ASSUME NEW c \in Clients, HandleEval(c) PROVE Pipe' /\ Numbered' /\ Timely'
  <2>1. ~Held(c)
    <3>1. inbox[c] # <<>> BY <1>8 DEF HandleEval, Reads
    <3> QED BY <3>1 DEF Wire
  <2>2. UNCHANGED <<client, region, floor, policies, compute, inflight, finisher>> BY <1>8 DEF HandleEval
  <2>3. CASE queue' = Append(queue, Request(c)) BY <2>1, <2>2, <2>3, HandledEval DEF Kept
  <2>4. CASE queue' = queue
    <3>1. Stands /\ finisher'.at = finisher.at BY <2>2, <2>4 DEF Stands
    <3>2. Aged BY <1>b, <2>2 DEF Aged, At
    <3> QED BY <1>a, <3>1, <3>2
  <2> QED BY <1>8, <2>3, <2>4 DEF HandleEval
<1>9. ASSUME NEW c \in Clients, SeesEnd(c) PROVE Pipe' /\ Numbered' /\ Timely'
  <2>8. Stands /\ finisher'.at = finisher.at BY <1>9 DEF Stands, SeesEnd
  <2>9. Aged BY <1>b, <1>9 DEF Aged, At, SeesEnd
  <2> QED BY <1>a, <2>8, <2>9
<1>10. ASSUME IoEnds PROVE Pipe' /\ Numbered' /\ Timely'
  <2>8. Stands /\ finisher'.at = finisher.at BY <1>10 DEF Stands, IoEnds
  <2>9. Aged BY <1>b, <1>10 DEF Aged, At, IoEnds
  <2> QED BY <1>a, <2>8, <2>9
<1>11. ASSUME Deadline PROVE Pipe' /\ Numbered' /\ Timely'
  <2>8. Stands /\ finisher'.at = finisher.at BY <1>11 DEF Stands, Deadline
  <2>9. Aged BY <1>b, <1>11 DEF Aged, At, Deadline
  <2> QED BY <1>a, <2>8, <2>9
<1>12. ASSUME TakeBatch PROVE Pipe' /\ Numbered' /\ Timely'
  <2>1. UNCHANGED <<region, client, floor, policies>> BY <1>12 DEF TakeBatch
  <2>2. \A d \in Clients : floor[d] <= policies[Current] BY <1>c DEF Weights
  <2> QED BY <1>12, <2>1, <2>2, TakeBatchMoves
<1>13. ASSUME Prune PROVE Pipe' /\ Numbered' /\ Timely'
  <2>1. UNCHANGED <<region, client, floor, policies>> BY <1>13 DEF Prune
  <2> QED BY <1>13, <2>1, PruneMoves DEF Kept
<1>14. ASSUME Put PROVE Pipe' /\ Numbered' /\ Timely'
  <2>1. UNCHANGED <<region, client, floor, policies>> BY <1>14 DEF Put
  <2> QED BY <1>14, <2>1, PutMoves DEF Kept
<1>15. ASSUME ComputeEnds PROVE Pipe' /\ Numbered' /\ Timely'
  <2>1. UNCHANGED <<region, client, floor, policies>> BY <1>15 DEF ComputeEnds
  <2> QED BY <1>15, <2>1, ComputeEndsMoves DEF Kept
<1>16. ASSUME NEW fails \in BOOLEAN, Collect(fails) PROVE Pipe' /\ Numbered' /\ Timely'
  <2>1. UNCHANGED <<region, client, floor, policies>> BY <1>16 DEF Collect
  <2> QED BY <1>16, <2>1, CollectMoves DEF Kept
<1>17. ASSUME SkipDead PROVE Pipe' /\ Numbered' /\ Timely'
  <2>1. UNCHANGED <<region, client, floor, policies, queue, compute, inflight>> BY <1>17 DEF SkipDead
  <2>2. finisher' = NextRequest(finisher.batch) /\ finisher.batch.reqs # <<>>
    BY <1>17 DEF SkipDead, Finishing, Pipe, Threads
  <2> QED BY <2>1, <2>2, Popped DEF Kept
<1>18. ASSUME SeesAlive PROVE Pipe' /\ Numbered' /\ Timely'
  <2>1. Stands BY <1>18 DEF Stands, SeesAlive, TypeOK, FinisherStates
  <2>2. Aged BY <1>b, <1>18 DEF Aged, At, SeesAlive, Shared
  <2>3. Apart' BY <2>1, ListsUntouched DEF Stands, Pipe
  <2>4. Numbered' /\ Timely' BY <2>1, <2>2, ListsStand DEF Stands, Aged
  <2>5. finisher'.at \notin {"waiting", "ended"} /\ finisher.batch.reqs # <<>>
    BY <1>18 DEF SeesAlive, Finishing, Pipe, Threads, TypeOK, FinisherStates
  <2>6. Threads' BY <2>1, <2>5 DEF Stands, Pipe, Threads
  <2> QED BY <2>3, <2>4, <2>6 DEF Pipe
<1>19. ASSUME RefuseRequest PROVE Pipe' /\ Numbered' /\ Timely'
  <2>1. UNCHANGED <<region, client, floor, policies, queue, compute, inflight>> BY <1>19 DEF RefuseRequest
  <2>2. finisher' = NextRequest(finisher.batch) /\ finisher.batch.reqs # <<>>
    BY <1>19 DEF RefuseRequest, Finishing, Pipe, Threads
  <2> QED BY <2>1, <2>2, Popped DEF Kept
<1>20. ASSUME WriteResponse PROVE Pipe' /\ Numbered' /\ Timely'
  <2>1. Stands BY <1>20 DEF Stands, WriteResponse, TypeOK, FinisherStates
  <2>2. Aged BY <1>b, <1>20 DEF Aged, At, WriteResponse, Shared
  <2>3. Apart' BY <2>1, ListsUntouched DEF Stands, Pipe
  <2>4. Numbered' /\ Timely' BY <2>1, <2>2, ListsStand DEF Stands, Aged
  <2>5. finisher'.at \notin {"waiting", "ended"} /\ finisher.batch.reqs # <<>>
    BY <1>20 DEF WriteResponse, Finishing, Pipe, Threads, TypeOK, FinisherStates
  <2>6. Threads' BY <2>1, <2>5 DEF Stands, Pipe, Threads
  <2> QED BY <2>3, <2>4, <2>6 DEF Pipe
<1>21. ASSUME FinisherDies PROVE Pipe' /\ Numbered' /\ Timely'
  <2>1. Stands BY <1>21 DEF Stands, FinisherDies, TypeOK, FinisherStates
  <2>2. Aged BY <1>b, <1>21 DEF Aged, At, FinisherDies, Shared
  <2>3. Apart' BY <2>1, ListsUntouched DEF Stands, Pipe
  <2>4. Numbered' /\ Timely' BY <2>1, <2>2, ListsStand DEF Stands, Aged
  <2>5. finisher'.at \notin {"waiting", "ended"} /\ finisher.batch.reqs # <<>>
    BY <1>21 DEF FinisherDies, Finishing, Pipe, Threads, TypeOK, FinisherStates
  <2>6. Threads' BY <2>1, <2>5 DEF Stands, Pipe, Threads
  <2> QED BY <2>3, <2>4, <2>6 DEF Pipe
<1>22. ASSUME SendDone PROVE Pipe' /\ Numbered' /\ Timely'
  <2>1. UNCHANGED <<region, client, floor, policies, queue, compute, inflight>> BY <1>22 DEF SendDone
  <2>2. finisher' = NextRequest(finisher.batch) /\ finisher.batch.reqs # <<>>
    BY <1>22 DEF SendDone, Finishing, Pipe, Threads
  <2> QED BY <2>1, <2>2, Popped DEF Kept
<1>23. ASSUME NEW p \in Policies, SetPolicy(p) PROVE Pipe' /\ Numbered' /\ Timely'
  <2>8. Stands /\ finisher'.at = finisher.at BY <1>23 DEF Stands, SetPolicy
  <2>9. Aged BY <1>b, <1>23 DEF Aged, At, SetPolicy
  <2> QED BY <1>a, <2>8, <2>9
<1>24. ASSUME NEW p \in Policies, RemovePolicy(p) PROVE Pipe' /\ Numbered' /\ Timely'
  <2>8. Stands /\ finisher'.at = finisher.at BY <1>24 DEF Stands, RemovePolicy
  <2>9. Aged BY <1>b, <1>24 DEF Aged, At, RemovePolicy
  <2> QED BY <1>a, <2>8, <2>9
<1>25. ASSUME Stop PROVE Pipe' /\ Numbered' /\ Timely'
  <2>8. Stands /\ finisher'.at = finisher.at BY <1>25 DEF Stands, Stop
  <2>9. Aged BY <1>b, <1>25 DEF Aged, At, Stop
  <2> QED BY <1>a, <2>8, <2>9
<1>26. ASSUME NEW c \in Clients, DropAtStop(c) PROVE Pipe' /\ Numbered' /\ Timely'
  <2>8. Stands /\ finisher'.at = finisher.at BY <1>26 DEF Stands, DropAtStop
  <2>9. Aged BY <1>b, <1>26 DEF Aged, At, DropAtStop
  <2> QED BY <1>a, <2>8, <2>9
<1>27. ASSUME Stopped PROVE Pipe' /\ Numbered' /\ Timely'
  <2>8. Stands /\ finisher'.at = finisher.at BY <1>27 DEF Stands, Stopped
  <2>9. Aged BY <1>b, <1>27 DEF Aged, At, Stopped
  <2> QED BY <1>a, <2>8, <2>9
<1>28. ASSUME Crash PROVE Pipe' /\ Numbered' /\ Timely'
  BY <1>28, CrashMoves
<1>29. CASE UNCHANGED vars
  <2>1. Stands /\ finisher'.at = finisher.at BY <1>29 DEF Stands, vars
  <2>2. Aged BY <1>b, <1>29 DEF Aged, At, vars
  <2> QED BY <1>a, <2>1, <2>2
<1> QED BY <1>1, <1>2, <1>3, <1>4, <1>5, <1>6, <1>7, <1>8, <1>9, <1>10, <1>11, <1>12, <1>13, <1>14,
           <1>15, <1>16, <1>17, <1>18, <1>19, <1>20, <1>21, <1>22, <1>23, <1>24, <1>25, <1>26, <1>27,
           <1>28, <1>29
  DEF Next, IoThread, ComputeThread, FinisherThread, Host, Actor, Over

(* Every step keeps the counters and the weights of the regions. *)
LEMMA AgesKept ==
    ASSUME TypeOK, Pipe, Numbered, Timely, Ages, [Next]_vars, \A c \in Clients : Wire(c) /\ Flag(c)
    PROVE  Ages'
<1> USE DEF wire, threads, ServerSide, ClientSide, Elsewhere
<1>b. /\ policies[Current] \in Int /\ policies \in [Policies -> Int] /\ Current \in Policies
      /\ client \in [Clients -> RemoteEvaluators] /\ region \in [Clients -> Shared] /\ floor \in [Clients -> Int]
  BY CurrentAssumption DEF TypeOK
<1>c. ASSUME UNCHANGED <<region, client, floor, policies>> PROVE Ages'
  BY <1>c DEF Ages, Numbers, Weights, Between, At
<1>d. /\ policies[Current] >= 0 /\ \A d \in Clients : Numbers(d) /\ Weights(d)
      /\ \A d \in Clients : region[d].seq \in Nat /\ region[d].response.seq \in Nat /\ region[d].response.version \in Int
                            /\ floor[d] \in Int /\ client[d].seq \in Nat
  BY <1>b DEF Ages, Shared, Answer, RemoteEvaluators
<1>1. ASSUME NEW c \in Clients, Connect(c) PROVE Ages'
  <2>7. policies' = policies BY <1>1 DEF Connect
  <2>8. ASSUME NEW d \in Clients PROVE Numbers(d)' /\ Weights(d)'
    BY <1>b, <1>d, <1>1, <2>7 DEF Connect, Numbers, Weights, Between, At, RemoteEvaluators
  <2> QED BY <1>d, <2>7, <2>8 DEF Ages
<1>2. ASSUME NEW c \in Clients, ConnectFails(c) PROVE Ages'
  <2>7. policies' = policies BY <1>2 DEF ConnectFails
  <2>8. ASSUME NEW d \in Clients PROVE Numbers(d)' /\ Weights(d)'
    BY <1>b, <1>d, <1>2, <2>7 DEF ConnectFails, Ends, Outside, NoResponse,
        Numbers, Weights, Between, At, RemoteEvaluators, Shared
  <2> QED BY <1>d, <2>7, <2>8 DEF Ages
<1>3. ASSUME NEW c \in Clients, Ask(c) PROVE Ages'
  <2>7. policies' = policies BY <1>3 DEF Ask
  <2>8. ASSUME NEW d \in Clients PROVE Numbers(d)' /\ Weights(d)'
    <3>1. CASE d = c
      <4>1. /\ client'[d].seq = client[d].seq + 1 /\ client[d].at # "gone" /\ floor'[d] = policies[Current]
            /\ region'[d].seq = region[d].seq + 1 /\ region'[d].response = region[d].response
        BY <1>b, <1>3, <3>1 DEF Ask, At, RemoteEvaluators, Shared
      <4>2. region[d].seq = client[d].seq /\ region[d].response.seq <= client[d].seq
        BY <1>d, <4>1 DEF Numbers, At
      <4> QED BY <1>b, <1>d, <2>7, <4>1, <4>2 DEF Numbers, Weights
    <3>2. CASE d # c
      <4>1. client'[d] = client[d] /\ region'[d] = region[d] /\ floor'[d] = floor[d] BY <1>b, <1>3, <3>2 DEF Ask
      <4> QED BY <1>d, <2>7, <4>1 DEF Numbers, Weights, Between, At
    <3> QED BY <3>1, <3>2
  <2> QED BY <1>d, <2>7, <2>8 DEF Ages
<1>4. ASSUME NEW c \in Clients, Answered(c) PROVE Ages'
  <2>7. policies' = policies BY <1>4 DEF Answered
  <2>8. ASSUME NEW d \in Clients PROVE Numbers(d)' /\ Weights(d)'
    <3>1. UNCHANGED <<region, floor>> BY <1>4 DEF Answered
    <3>2. CASE d = c
      <4>1. client[d].at # "gone" /\ client'[d].at = "idle" /\ client'[d].seq = client[d].seq
        BY <1>b, <1>4, <3>2 DEF Answered, Expected, At, RemoteEvaluators
      <4> QED BY <1>d, <2>7, <3>1, <4>1 DEF Numbers, Weights, At
    <3>3. CASE d # c
      <4>1. client'[d] = client[d] BY <1>b, <1>4, <3>3 DEF Answered
      <4> QED BY <1>d, <2>7, <3>1, <4>1 DEF Numbers, Weights, Between, At
    <3> QED BY <3>2, <3>3
  <2> QED BY <1>d, <2>7, <2>8 DEF Ages
<1>5. ASSUME NEW c \in Clients, Fails(c) PROVE Ages'
  <2>7. policies' = policies BY <1>5 DEF Fails
  <2>8. ASSUME NEW d \in Clients PROVE Numbers(d)' /\ Weights(d)'
    BY <1>b, <1>d, <1>5, <2>7 DEF Fails, Ends, Outside, NoResponse,
        Numbers, Weights, Between, At, RemoteEvaluators, Shared
  <2> QED BY <1>d, <2>7, <2>8 DEF Ages
<1>6. ASSUME NEW c \in Clients, Leaves(c) PROVE Ages'
  <2>7. policies' = policies BY <1>6 DEF Leaves
  <2>8. ASSUME NEW d \in Clients PROVE Numbers(d)' /\ Weights(d)'
    BY <1>b, <1>d, <1>6, <2>7 DEF Leaves, Ends, Outside, NoResponse,
        Numbers, Weights, Between, At, RemoteEvaluators, Shared
  <2> QED BY <1>d, <2>7, <2>8 DEF Ages
<1>7. ASSUME NEW c \in Clients, HandleHello(c) PROVE Ages'
  BY <1>c, <1>7 DEF HandleHello
<1>8. ASSUME NEW c \in Clients, HandleEval(c) PROVE Ages'
  BY <1>c, <1>8 DEF HandleEval
<1>9. ASSUME NEW c \in Clients, SeesEnd(c) PROVE Ages'
  BY <1>c, <1>9 DEF SeesEnd
<1>10. ASSUME IoEnds PROVE Ages'
  BY <1>c, <1>10 DEF IoEnds
<1>11. ASSUME Deadline PROVE Ages'
  BY <1>c, <1>11 DEF Deadline
<1>12. ASSUME TakeBatch PROVE Ages'
  BY <1>c, <1>12 DEF TakeBatch
<1>13. ASSUME Prune PROVE Ages'
  BY <1>c, <1>13 DEF Prune
<1>14. ASSUME Put PROVE Ages'
  BY <1>c, <1>14 DEF Put
<1>15. ASSUME ComputeEnds PROVE Ages'
  BY <1>c, <1>15 DEF ComputeEnds
<1>16. ASSUME NEW fails \in BOOLEAN, Collect(fails) PROVE Ages'
  BY <1>c, <1>16 DEF Collect
<1>17. ASSUME SkipDead PROVE Ages'
  BY <1>c, <1>17 DEF SkipDead
<1>18. ASSUME SeesAlive PROVE Ages'
  BY <1>c, <1>18 DEF SeesAlive
<1>19. ASSUME RefuseRequest PROVE Ages'
  BY <1>c, <1>19 DEF RefuseRequest
<1>20. ASSUME WriteResponse PROVE Ages'
  <2>1. CASE UNCHANGED region BY <1>c, <1>20, <2>1 DEF WriteResponse
  <2>2. CASE region' # region
    <3>1. UNCHANGED <<client, floor, policies>> BY <1>20 DEF WriteResponse
    <3>2. /\ Finishing("writing") /\ finisher.batch.reqs # <<>> /\ ~Closed(Answering)
          /\ region' = [region EXCEPT ![Answering].response =
                          [seq |-> Head(finisher.batch.reqs).seq, version |-> finisher.batch.version]]
      BY <1>20, <2>2 DEF WriteResponse, Pipe, Threads, Finishing
    <3> DEFINE q == Head(finisher.batch.reqs)
    <3>3. /\ q.client = Answering /\ Answering \in Clients /\ q.seq \in Nat /\ finisher.batch.version \in Int
          /\ q.seq = region[Answering].seq
          /\ At(Answering, "waiting") => Between(Answering, finisher.batch.version)
      <4>1. finisher.batch \in Batch /\ finisher.batch.reqs \in Seq(Queued) BY DEF TypeOK, FinisherStates, Batch
      <4>2. q \in Queued /\ 1 \in DOMAIN finisher.batch.reqs /\ q = finisher.batch.reqs[1] BY <3>2, <4>1
      <4> QED BY <4>1, <4>2 DEF Answering, Queued, Batch, Numbered, TheRegions, Timely, Fresh
    <3> HIDE DEF q
    <3>4. region' = [region EXCEPT ![Answering].response = [seq |-> q.seq, version |-> finisher.batch.version]]
      BY <3>2 DEF q
    <3>5. ASSUME NEW d \in Clients PROVE Numbers(d)' /\ Weights(d)'
      <4>1. CASE d = Answering
        <5>1. /\ region'[d].seq = region[d].seq /\ region'[d].response.seq = q.seq
              /\ region'[d].response.version = finisher.batch.version
          BY <1>b, <3>3, <3>4, <4>1 DEF Shared
        <5> QED BY <1>d, <3>1, <3>3, <4>1, <5>1 DEF Numbers, Weights, Between, At
      <4>2. CASE d # Answering
        <5>1. region'[d] = region[d] BY <1>b, <3>3, <3>4, <4>2
        <5> QED BY <1>d, <3>1, <5>1 DEF Numbers, Weights, Between, At
      <4> QED BY <4>1, <4>2
    <3> QED BY <1>d, <3>1, <3>5 DEF Ages
  <2> QED BY <2>1, <2>2
<1>21. ASSUME FinisherDies PROVE Ages'
  BY <1>c, <1>21 DEF FinisherDies
<1>22. ASSUME SendDone PROVE Ages'
  BY <1>c, <1>22 DEF SendDone
<1>23. ASSUME NEW p \in Policies, SetPolicy(p) PROVE Ages'
  <2>1. policies'[Current] \in Int /\ policies[Current] <= policies'[Current] BY <1>b, <1>23 DEF SetPolicy
  <2>2. UNCHANGED <<client, region, floor>> BY <1>23 DEF SetPolicy
  <2> QED BY <1>b, <1>d, <2>1, <2>2 DEF Ages, Numbers, Weights, Between, At
<1>24. ASSUME NEW p \in Policies, RemovePolicy(p) PROVE Ages'
  <2>1. policies'[Current] \in Int /\ policies[Current] <= policies'[Current] BY <1>b, <1>24 DEF RemovePolicy
  <2>2. UNCHANGED <<client, region, floor>> BY <1>24 DEF RemovePolicy
  <2> QED BY <1>b, <1>d, <2>1, <2>2 DEF Ages, Numbers, Weights, Between, At
<1>25. ASSUME Stop PROVE Ages'
  BY <1>c, <1>25 DEF Stop
<1>26. ASSUME NEW c \in Clients, DropAtStop(c) PROVE Ages'
  BY <1>c, <1>26 DEF DropAtStop
<1>27. ASSUME Stopped PROVE Ages'
  BY <1>c, <1>27 DEF Stopped
<1>28. ASSUME Crash PROVE Ages'
  BY <1>c, <1>28 DEF Crash
<1>29. CASE UNCHANGED vars BY <1>c, <1>29 DEF vars
<1> QED BY <1>1, <1>2, <1>3, <1>4, <1>5, <1>6, <1>7, <1>8, <1>9, <1>10, <1>11, <1>12, <1>13, <1>14,
           <1>15, <1>16, <1>17, <1>18, <1>19, <1>20, <1>21, <1>22, <1>23, <1>24, <1>25, <1>26, <1>27,
           <1>28, <1>29
  DEF Next, IoThread, ComputeThread, FinisherThread, Host, Actor, Over

-----------------------------------------------------------------------------
(* The invariant, and what it gives.                                       *)

(* The initial state satisfies the invariant. *)
LEMMA InvInit == Init => IInv
<1> SUFFICES ASSUME Init PROVE IInv OBVIOUS
<1>1. TypeOK
  <2> USE DEF Init
  <2>1. NoBatch \in Batch BY DEF NoBatch, Batch
  <2>2. NoRequest \in Shared BY DEF NoRequest, Shared, NoResponse, Answer
  <2>3. Outside("new") \in RemoteEvaluators BY DEF Outside, RemoteEvaluators, States
  <2>4. Stranger \in Peer BY DEF Stranger, Peer
  <2>5. client \in [Clients -> RemoteEvaluators] BY <2>3
  <2>6. region \in [Clients -> Shared] BY <2>2
  <2>7. server \in [Clients -> Peer] BY <2>4
  <2>8. compute \in ComputeStates BY <2>1 DEF ComputeStates
  <2>9. finisher \in FinisherStates BY <2>1 DEF FinisherStates
  <2>10. inbox \in [Clients -> Seq({"HELLO", "EVAL"})] OBVIOUS
  <2>11. outbox \in [Clients -> Seq({"WELCOME", "DONE", "ERROR"})] OBVIOUS
  <2>12. queue \in Seq(Queued) /\ inflight \in Seq(Batch) OBVIOUS
  <2>13. policies \in [Policies -> Int] /\ floor \in [Clients -> Int] OBVIOUS
  <2> QED BY <2>5, <2>6, <2>7, <2>8, <2>9, <2>10, <2>11, <2>12, <2>13 DEF TypeOK
<1>2. DOMAIN <<>> = {} OBVIOUS
<1>3. /\ queue = <<>> /\ inflight = <<>> /\ compute.batch = NoBatch /\ compute.at = "waiting"
      /\ finisher.batch = NoBatch /\ finisher.at = "waiting" /\ NoBatch.reqs = <<>>
  BY DEF Init, NoBatch
<1>4. Threads BY <1>2, <1>3 DEF Threads
<1>5. Apart BY <1>2, <1>3 DEF Apart, Once, Disjoint
<1>6. Numbered /\ Timely BY <1>2, <1>3 DEF Numbered, Timely, TheRegions, Fresh
<1>7. policies[Current] = 0 BY CurrentAssumption DEF Init
<1>8. ASSUME NEW c \in Clients PROVE Client(c)
  <2>1. ~Held(c) BY <1>2, <1>3 DEF Held, Holders
  <2>2. /\ client[c] = Outside("new") /\ inbox[c] = <<>> /\ outbox[c] = <<>> /\ region[c] = NoRequest
        /\ server[c] = Stranger /\ floor[c] = 0
    BY DEF Init
  <2>3. Wire(c) BY <1>2, <2>1, <2>2 DEF Wire
  <2>4. Flag(c) BY <2>2 DEF Flag, Stranger
  <2>5. Numbers(c) /\ Weights(c) BY <1>7, <2>2 DEF Numbers, Weights, At, Outside, NoRequest, NoResponse
  <2> QED BY <2>3, <2>4, <2>5 DEF Client
<1> QED BY <1>1, <1>4, <1>5, <1>6, <1>7, <1>8 DEF IInv

(* Every step keeps the invariant. *)
LEMMA InvNext == IInv /\ [Next]_vars => IInv'
<1> SUFFICES ASSUME IInv, [Next]_vars PROVE IInv' OBVIOUS
<1>1. TypeOK /\ Pipe /\ Numbered /\ Timely /\ Ages /\ Exchanges /\ \A c \in Clients : Wire(c) /\ Flag(c)
  BY DEF IInv, Pipe, Ages, Exchanges, Client
<1>2. TypeOK' BY <1>1, TypesKept DEF Pipe
<1>3. Pipe' /\ Numbered' /\ Timely' BY <1>1, PipelineKept
<1>4. Ages' BY <1>1, AgesKept
<1>5. \A d \in Clients : Wire(d)' /\ Flag(d)' BY <1>1, WireKept
<1> QED BY <1>2, <1>3, <1>4, <1>5 DEF IInv, Pipe, Ages, Client

(* The server and its clients keep the invariant. *)
THEOREM ServerInvariant == Spec => []IInv
<1>1. Init => IInv BY InvInit
<1>2. IInv /\ [Next]_vars => IInv' BY InvNext
<1> QED BY <1>1, <1>2, PTL DEF Spec

(* The lists OneInFlight looks into, one by one. *)
LEMMA ListsAre ==
    ASSUME TypeOK
    PROVE  /\ DOMAIN Lists = 1..(3 + Len(inflight)) /\ Len(inflight) \in Nat
           /\ Lists[1] = queue /\ Lists[2] = compute.batch.reqs /\ Lists[3] = finisher.batch.reqs
           /\ \A l \in 4..(3 + Len(inflight)) : l - 3 \in DOMAIN inflight /\ Lists[l] = inflight[l - 3].reqs
           /\ \A b \in DOMAIN inflight : b + 3 \in DOMAIN Lists /\ Lists[b + 3] = inflight[b].reqs
<1> DEFINE head == <<queue, compute.batch.reqs, finisher.batch.reqs>>
           tail == [b \in DOMAIN inflight |-> inflight[b].reqs]
           n == Len(inflight)
<1>1. inflight \in Seq(Batch) /\ n \in Nat /\ DOMAIN inflight = 1..n BY DEF TypeOK
<1>2. \A b \in 1..n : inflight[b].reqs \in Seq(Queued)
  <2>1. \A b \in 1..n : inflight[b] \in Batch BY <1>1
  <2>2. \A x \in Batch : x.reqs \in Seq(Queued) BY DEF Batch
  <2> QED BY <2>1, <2>2
<1>3. tail \in Seq(Seq(Queued)) /\ Len(tail) = n BY <1>1, <1>2
<1>4. queue \in Seq(Queued) /\ compute.batch.reqs \in Seq(Queued) /\ finisher.batch.reqs \in Seq(Queued)
  BY DEF TypeOK, ComputeStates, FinisherStates, Batch
<1>5. head \in Seq(Seq(Queued)) /\ Len(head) = 3 BY <1>4
<1>6. Lists = head \o tail BY DEF Lists
<1>7. tail = [b \in 1..n |-> inflight[b].reqs] BY <1>1
<1>8. head[1] = queue /\ head[2] = compute.batch.reqs /\ head[3] = finisher.batch.reqs OBVIOUS
<1> HIDE DEF head, tail, n
<1>9. /\ Lists \in Seq(Seq(Queued)) /\ Len(Lists) = 3 + n
      /\ \A i \in 1..(3 + n) : Lists[i] = IF i <= 3 THEN head[i] ELSE tail[i - 3]
  <2>1. /\ head \o tail \in Seq(Seq(Queued)) /\ Len(head \o tail) = Len(head) + Len(tail)
        /\ \A i \in 1..(Len(head) + Len(tail)) :
              (head \o tail)[i] = IF i <= Len(head) THEN head[i] ELSE tail[i - Len(head)]
    BY <1>3, <1>5, ConcatProperties
  <2> QED BY <1>3, <1>5, <1>6, <2>1
<1>10. \A l \in 4..(3 + n) : l - 3 \in 1..n /\ Lists[l] = inflight[l - 3].reqs BY <1>1, <1>7, <1>9
<1>11. \A b \in 1..n : b + 3 \in 4..(3 + n) /\ (b + 3) - 3 = b BY <1>1
<1>12. Lists[1] = queue /\ Lists[2] = compute.batch.reqs /\ Lists[3] = finisher.batch.reqs BY <1>1, <1>8, <1>9
<1>13. DOMAIN Lists = 1..(3 + n) BY <1>1, <1>9
<1>14. \A b \in 1..n : b + 3 \in 1..(3 + n) /\ Lists[b + 3] = inflight[b].reqs BY <1>1, <1>10, <1>11
<1> QED BY <1>1, <1>10, <1>12, <1>13, <1>14 DEF n

(* A client has a place in the lists when it is in the pipeline, and only one. *)
LEMMA PlacesAre ==
    ASSUME TypeOK, Apart, NEW c \in Clients
    PROVE  /\ \A p, q \in Places(c) : p = q
           /\ Places(c) # {} <=> Held(c)
<1> DEFINE L == Lists
<1>1. Places(c) = UNION {{<<l, i>> : i \in {j \in DOMAIN L[l] : L[l][j].client = c}} : l \in DOMAIN L}
  BY DEF Places
<1>2. \A p : p \in Places(c) <=> \E l \in DOMAIN L : \E i \in DOMAIN L[l] : L[l][i].client = c /\ p = <<l, i>>
  BY <1>1
<1> HIDE DEF L
<1>3. /\ DOMAIN L = 1..(3 + Len(inflight)) /\ Len(inflight) \in Nat
      /\ L[1] = queue /\ L[2] = compute.batch.reqs /\ L[3] = finisher.batch.reqs
      /\ \A l \in 4..(3 + Len(inflight)) : l - 3 \in DOMAIN inflight /\ L[l] = inflight[l - 3].reqs
      /\ \A b \in DOMAIN inflight : b + 3 \in DOMAIN L /\ L[b + 3] = inflight[b].reqs
  BY ListsAre DEF L
<1>4. \A l \in DOMAIN L : Once(L[l])
  <2> SUFFICES ASSUME NEW l \in DOMAIN L PROVE Once(L[l]) OBVIOUS
  <2>1. l = 1 \/ l = 2 \/ l = 3 \/ l \in 4..(3 + Len(inflight)) BY <1>3
  <2> QED BY <1>3, <2>1 DEF Apart
<1>5. \A l, m \in DOMAIN L : l < m => Disjoint(L[l], L[m])
  <2> SUFFICES ASSUME NEW l \in DOMAIN L, NEW m \in DOMAIN L, l < m PROVE Disjoint(L[l], L[m]) OBVIOUS
  <2>1. l \in 1..3 \/ l \in 4..(3 + Len(inflight)) BY <1>3
  <2>2. m \in 2..3 \/ m \in 4..(3 + Len(inflight)) BY <1>3
  <2>3. CASE m \in 2..3
    <3>1. <<l, m>> \in {<<1, 2>>, <<1, 3>>, <<2, 3>>} BY <1>3, <2>3
    <3> QED BY <1>3, <3>1 DEF Apart
  <2>4. CASE l \in 1..3 /\ m \in 4..(3 + Len(inflight))
    <3>1. l = 1 \/ l = 2 \/ l = 3 BY <2>4
    <3>2. m - 3 \in DOMAIN inflight /\ L[m] = inflight[m - 3].reqs BY <1>3, <2>4
    <3>3. Disjoint(queue, L[m]) /\ Disjoint(compute.batch.reqs, L[m]) /\ Disjoint(finisher.batch.reqs, L[m])
      BY <3>2 DEF Apart
    <3> QED BY <1>3, <3>1, <3>3
  <2>5. CASE l \in 4..(3 + Len(inflight)) /\ m \in 4..(3 + Len(inflight))
    <3>1. /\ l - 3 \in DOMAIN inflight /\ L[l] = inflight[l - 3].reqs
          /\ m - 3 \in DOMAIN inflight /\ L[m] = inflight[m - 3].reqs
      BY <1>3, <2>5
    <3>2. l - 3 # m - 3 BY <1>3, <2>5
    <3> QED BY <3>1, <3>2 DEF Apart
  <2> QED BY <2>1, <2>2, <2>3, <2>4, <2>5
<1>6. ASSUME NEW p \in Places(c), NEW q \in Places(c) PROVE p = q
  <2>1. PICK l \in DOMAIN L : \E i \in DOMAIN L[l] : L[l][i].client = c /\ p = <<l, i>> BY <1>2
  <2>2. PICK i \in DOMAIN L[l] : L[l][i].client = c /\ p = <<l, i>> BY <2>1
  <2>3. PICK m \in DOMAIN L : \E j \in DOMAIN L[m] : L[m][j].client = c /\ q = <<m, j>> BY <1>2
  <2>4. PICK j \in DOMAIN L[m] : L[m][j].client = c /\ q = <<m, j>> BY <2>3
  <2>5. ~(l < m) /\ ~(m < l) BY <1>5, <2>2, <2>4 DEF Disjoint
  <2>6. l = m BY <1>3, <2>5
  <2>7. i = j BY <1>4, <2>2, <2>4, <2>6 DEF Once
  <2> QED BY <2>2, <2>4, <2>6, <2>7
<1>7. Places(c) # {} <=> \E l \in DOMAIN L : c \in Holders(L[l])
  BY <1>2 DEF Holders
<1>8. (\E l \in DOMAIN L : c \in Holders(L[l])) <=> Held(c)
  <2>1. ASSUME NEW l \in DOMAIN L, c \in Holders(L[l]) PROVE Held(c)
    <3>1. l = 1 \/ l = 2 \/ l = 3 \/ l \in 4..(3 + Len(inflight)) BY <1>3
    <3> QED BY <1>3, <2>1, <3>1 DEF Held
  <2>2. ASSUME Held(c) PROVE \E l \in DOMAIN L : c \in Holders(L[l])
    <3>1. 1 \in DOMAIN L /\ 2 \in DOMAIN L /\ 3 \in DOMAIN L BY <1>3
    <3> QED BY <1>3, <2>2, <3>1 DEF Held
  <2> QED BY <2>1, <2>2
<1> QED BY <1>6, <1>7, <1>8

(* A request is in one place from the moment it is queued until it is answered, and the flag says so. *)
THEOREM RequestsOnce == Spec => []OneInFlight
<1>1. IInv => OneInFlight
  <2> SUFFICES ASSUME IInv, NEW c \in Clients
               PROVE  /\ \A p, q \in Places(c) : p = q
                      /\ server[c].alive /\ finisher.at # "dead" => (server[c].queued <=> Places(c) # {})
    BY DEF OneInFlight
  <2>1. TypeOK /\ Apart /\ Flag(c) BY DEF IInv, Client
  <2>2. (\A p, q \in Places(c) : p = q) /\ (Places(c) # {} <=> Held(c)) BY <2>1, PlacesAre
  <2> QED BY <2>1, <2>2 DEF Flag
<1> QED BY <1>1, ServerInvariant, PTL

(* The server writes into a region only for the client that waits for that very response. *)
THEOREM RegionsAreTheClients == Spec => RegionIsTheClients
<1> DEFINE Writes == \A c \in Clients : region'[c].response \notin {region[c].response, NoResponse} =>
              At(c, "waiting") /\ region'[c].response.seq = client[c].seq
<1>1. IInv /\ [Next]_vars => [Writes]_vars
  <2> SUFFICES ASSUME IInv, Next, NEW c \in Clients, region'[c].response # region[c].response,
                      region'[c].response # NoResponse
               PROVE  At(c, "waiting") /\ region'[c].response.seq = client[c].seq
    OBVIOUS
  <2> USE DEF wire, threads, ServerSide, ClientSide, Elsewhere
  <2>0. region \in [Clients -> Shared] BY DEF IInv, TypeOK
  <2>1. CASE WriteResponse
    <3>1. /\ Finishing("writing") /\ finisher.batch.reqs # <<>> /\ ~Closed(Answering)
          /\ region' = [region EXCEPT ![Answering].response =
                          [seq |-> Head(finisher.batch.reqs).seq, version |-> finisher.batch.version]]
      BY <2>1 DEF WriteResponse, IInv, Threads, Finishing
    <3>2. finisher.batch \in Batch /\ finisher.batch.reqs \in Seq(Queued)
      BY DEF IInv, TypeOK, FinisherStates, Batch
    <3> DEFINE q == Head(finisher.batch.reqs)
    <3>3. q \in Queued /\ 1 \in DOMAIN finisher.batch.reqs /\ q = finisher.batch.reqs[1] BY <3>1, <3>2
    <3>4. q.client = Answering /\ Answering \in Clients /\ q.seq = region[Answering].seq
      BY <3>3 DEF Answering, Queued, IInv, Numbered, TheRegions
    <3>5. Held(Answering) BY <3>3, <3>4 DEF Held, Holders
    <3> HIDE DEF q
    <3>6. c = Answering /\ region'[c].response.seq = q.seq BY <2>0, <3>1, <3>4 DEF Shared, q
    <3>7. At(c, "waiting") BY <3>1, <3>5, <3>6 DEF IInv, Client, Wire, Closed, At
    <3>8. region[c].seq = client[c].seq BY <3>7 DEF IInv, Client, Numbers, At
    <3> QED BY <3>4, <3>6, <3>7, <3>8
  <2>2. ASSUME NEW d \in Clients, Ends(d) PROVE FALSE
    BY <2>0, <2>2 DEF Ends, Shared
  <2>3. CASE \E d \in Clients : Actor(d)
    <3>1. PICK d \in Clients : Actor(d) BY <2>3
    <3>2. ~Ends(d) BY <2>2
    <3>3. Connect(d) \/ Ask(d) \/ Answered(d) BY <3>1, <3>2 DEF Actor, ConnectFails, Fails, Leaves
    <3> QED BY <2>0, <3>3 DEF Connect, Ask, Answered, Shared
  <2>4. CASE IoThread
    BY <2>4 DEF IoThread, IoEnds, HandleHello, HandleEval, SeesEnd
  <2>5. CASE ComputeThread
    BY <2>5 DEF ComputeThread, Deadline, TakeBatch, Prune, Put, ComputeEnds
  <2>6. CASE FinisherThread /\ ~WriteResponse
    BY <2>6 DEF FinisherThread, Collect, SkipDead, SeesAlive, RefuseRequest, FinisherDies, SendDone
  <2>7. CASE Host
    BY <2>7 DEF Host, SetPolicy, RemovePolicy, Stop, Stopped, Crash, DropAtStop
  <2>8. CASE Over BY <2>8 DEF Over, vars
  <2> QED BY <2>1, <2>3, <2>4, <2>5, <2>6, <2>7, <2>8 DEF Next
<1>2. RegionIsTheClients <=> [][Writes]_vars BY DEF RegionIsTheClients
<1> HIDE DEF Writes
<1> QED BY <1>1, <1>2, ServerInvariant, PTL DEF Spec

(* The initial state is one of the contract. *)
LEMMA ContractInit == Init => Contract!Init
  BY CurrentAssumption DEF Init, Contract!Init, Outside

(* Every step is one of the contract, or changes nothing it speaks of. *)
LEMMA ContractStep == IInv /\ [Next]_vars => [Contract!Next]_(Contract!vars)
<1> SUFFICES ASSUME IInv, [Next]_vars PROVE [Contract!Next]_(Contract!vars) OBVIOUS
<1> USE DEF wire, threads, ServerSide, ClientSide, Elsewhere
<1> DEFINE status == [c \in Clients |-> client[c].at]
           got == [c \in Clients |-> client[c].got]
<1>0. /\ client \in [Clients -> RemoteEvaluators] /\ policies \in [Policies -> Int] /\ Current \in Policies
      /\ floor \in [Clients -> Int] /\ region \in [Clients -> Shared] /\ policies[Current] \in Int
  BY CurrentAssumption DEF IInv, TypeOK
<1>a. ASSUME UNCHANGED <<client, floor>>, policies'[Current] = policies[Current] PROVE UNCHANGED Contract!vars
  BY <1>a DEF Contract!vars
<1>b. ASSUME NEW c \in Clients, client[c].at # "gone", Ends(c), policies' = policies PROVE Contract!Leave(c)
  <2>1. /\ client' = [client EXCEPT ![c] = Outside("gone")] /\ floor' = [floor EXCEPT ![c] = 0] BY <1>b DEF Ends
  <2>2. status' = [status EXCEPT ![c] = "gone"] BY <1>0, <2>1 DEF Outside
  <2>3. got' = [got EXCEPT ![c] = 0] BY <1>0, <2>1 DEF Outside
  <2> QED BY <1>b, <2>1, <2>2, <2>3 DEF Contract!Leave
<1>1. ASSUME NEW c \in Clients, Actor(c) PROVE Contract!Next
  <2>1. CASE Connect(c)
    <3>1. /\ status[c] = "new" /\ status' = [status EXCEPT ![c] = "greeting"]
          /\ got' = got /\ UNCHANGED <<policies, floor>>
      BY <1>0, <2>1 DEF Connect, At, RemoteEvaluators
    <3> QED BY <3>1 DEF Contract!Greet, Contract!Next
  <2>2. CASE ConnectFails(c) \/ Fails(c) \/ Leaves(c)
    <3>1. client[c].at # "gone" /\ Ends(c) /\ policies' = policies BY <2>2 DEF ConnectFails, Fails, Leaves, At
    <3> QED BY <1>b, <3>1 DEF Contract!Next
  <2>3. CASE Ask(c)
    <3>1. /\ status[c] = "idle" /\ status' = [status EXCEPT ![c] = "waiting"] /\ got' = got /\ policies' = policies
          /\ floor' = [floor EXCEPT ![c] = policies[Current]]
      BY <1>0, <2>3 DEF Ask, At, RemoteEvaluators
    <3> QED BY <3>1 DEF Contract!Ask, Contract!Next
  <2>4. CASE Answered(c) /\ At(c, "greeting")
    <3>1. /\ status[c] = "greeting" /\ status' = [status EXCEPT ![c] = "idle"]
          /\ got' = got /\ UNCHANGED <<policies, floor>>
      BY <1>0, <2>4 DEF Answered, At, RemoteEvaluators
    <3> QED BY <3>1 DEF Contract!Welcomed, Contract!Next
  <2>5. CASE Answered(c) /\ ~At(c, "greeting")
    <3> DEFINE v == region[c].response.version
    <3>1. At(c, "waiting") /\ region[c].response.seq = client[c].seq BY <2>5 DEF Answered, Expected
    <3>2. v \in floor[c]..policies[Current]
      <4>1. v \in Int /\ floor[c] \in Int BY <1>0 DEF Shared, Answer
      <4> QED BY <1>0, <3>1, <4>1 DEF IInv, Client, Weights, Between
    <3>3. /\ client' = [client EXCEPT ![c].at = "idle", ![c].got = v] /\ UNCHANGED <<policies, floor>>
      BY <2>5, <3>1 DEF Answered
    <3> HIDE DEF v
    <3>4. /\ status[c] = "waiting" /\ status' = [status EXCEPT ![c] = "idle"] /\ got' = [got EXCEPT ![c] = v]
      BY <1>0, <3>1, <3>3 DEF At, RemoteEvaluators
    <3> QED BY <3>2, <3>3, <3>4 DEF Contract!Answer, Contract!Next
  <2> QED BY <1>1, <2>1, <2>2, <2>3, <2>4, <2>5 DEF Actor
<1>2. CASE IoThread
  BY <1>2, <1>a DEF IoThread, IoEnds, HandleHello, HandleEval, SeesEnd
<1>3. CASE ComputeThread
  BY <1>3, <1>a DEF ComputeThread, Deadline, TakeBatch, Prune, Put, ComputeEnds
<1>4. CASE FinisherThread
  BY <1>4, <1>a DEF FinisherThread, Collect, SkipDead, SeesAlive, RefuseRequest, WriteResponse, FinisherDies, SendDone
<1>5. CASE Host
  <2>1. ASSUME NEW p \in Policies, SetPolicy(p) PROVE [Contract!Next]_(Contract!vars)
    <3>1. CASE p = Current
      <4>1. policies[Current] < MaxVersion /\ policies'[Current] = policies[Current] + 1 /\ UNCHANGED <<client, floor>>
        BY <1>0, <2>1, <3>1 DEF SetPolicy
      <4> QED BY <4>1 DEF Contract!NewWeights, Contract!Next
    <3>2. CASE p # Current
      <4>1. policies'[Current] = policies[Current] /\ UNCHANGED <<client, floor>>
        BY <1>0, <2>1, <3>2 DEF SetPolicy
      <4> QED BY <1>a, <4>1
    <3> QED BY <3>1, <3>2
  <2>2. ASSUME NEW p \in Policies, RemovePolicy(p) PROVE UNCHANGED Contract!vars
    <3>1. policies'[Current] = policies[Current] /\ UNCHANGED <<client, floor>> BY <1>0, <2>2 DEF RemovePolicy
    <3> QED BY <1>a, <3>1
  <2>3. CASE Stop \/ Stopped \/ Crash BY <1>a, <2>3 DEF Stop, Stopped, Crash
  <2>4. ASSUME NEW c \in Clients, DropAtStop(c) PROVE UNCHANGED Contract!vars BY <1>a, <2>4 DEF DropAtStop
  <2> QED BY <1>5, <2>1, <2>2, <2>3, <2>4 DEF Host
<1>6. CASE Over \/ UNCHANGED vars BY <1>a, <1>6 DEF Over, vars
<1> QED BY <1>1, <1>2, <1>3, <1>4, <1>5, <1>6 DEF Next

(* The server with its threads and failures implements the protocol's contract. *)
THEOREM ServerKeepsContract == Spec => KeepsContract
<1>1. Init => Contract!Init BY ContractInit
<1>2. IInv /\ [Next]_vars => [Contract!Next]_(Contract!vars) BY ContractStep
<1> QED BY <1>1, <1>2, ServerInvariant, PTL DEF Spec, KeepsContract, Contract!Spec
=============================================================================
