--------------------------- MODULE InferenceServer ---------------------------
(***************************************************************************)
(* The learner's inference server (learn/rmlearn/server.py): an I/O        *)
(* thread, a compute thread and a finisher thread over shared clients, a   *)
(* queue and a bounded pipeline, serving policies that the learner swaps   *)
(* while it runs; and its clients, the actors' remote evaluators           *)
(* (src/actor/remote_evaluator.cpp), which may be killed at any moment.    *)
(***************************************************************************)
EXTENDS Integers, Sequences, FiniteSets, Functions, SequencesExt

CONSTANTS
    Clients,     \* connections, each made once
    Policies,    \* policy ids
    Current,     \* the one actors sample from: replaced, never removed
    Wants,       \* the policies a connection asks for
    Rows,        \* decisions in each of its requests
    MaxBatch,    \* max_batch
    MaxVersion,  \* bound: the newest weights of the current policy
    MaxAsked     \* bound: requests of one connection

ASSUME CurrentAssumption == Current \in Policies
ASSUME WantsAssumption == Wants \in [Clients -> {P \in SUBSET Policies : Current \in P}]
ASSUME RowsAssumption == Rows \in [Clients -> Nat \ {0}]
ASSUME BoundsAssumption == MaxBatch \in Nat \ {0} /\ MaxVersion \in Nat /\ MaxAsked \in Nat

VARIABLES
    client,      \* RemoteEvaluator: its state, and its request counter
    inbox,       \* the messages on their way to the server, per connection
    outbox,      \* those on their way to the client
    region,      \* the shared region: whose request and which response is in it
    server,      \* _Client: what the server knows of a connection
    policies,    \* _policies: the version served under each id, Unserved if none
    queue,       \* _queue
    late,        \* the oldest queued request has waited for the deadline
    compute,     \* the compute thread and the batch it has launched
    inflight,    \* _inflight: launched batches awaiting read-back (maxsize 2)
    finisher,    \* the finisher thread, its batch and how much of it is answered
    io,          \* the I/O thread
    host,        \* the process around the server: "up", "stopping" or "down"
    floor        \* history: the current policy's version when the request was sent

wire == <<inbox, outbox, region>>
threads == <<compute, inflight, finisher, io>>
vars == <<client, wire, server, policies, queue, late, threads, host, floor>>

Unserved == -1
NoResponse == [seq |-> 0, version |-> 0]
Outside(at) == [at |-> at, seq |-> 0, got |-> 0]
NoRequest == [seq |-> 0, response |-> NoResponse]
Stranger == [known |-> FALSE, hello |-> FALSE, alive |-> FALSE, queued |-> FALSE, mapped |-> FALSE,
             shut |-> FALSE]
Request(c) == [client |-> c, seq |-> region[c].seq]
NoBatch == [reqs |-> <<>>, version |-> 0, failed |-> FALSE]
RowsOf(reqs) == FoldSeq(LAMBDA r, n : Rows[r.client] + n, 0, reqs)

Init ==
    /\ client = [c \in Clients |-> Outside("new")]
    /\ inbox = [c \in Clients |-> <<>>]
    /\ outbox = [c \in Clients |-> <<>>]
    /\ region = [c \in Clients |-> NoRequest]
    /\ server = [c \in Clients |-> Stranger]
    /\ policies = [p \in Policies |-> 0]
    /\ queue = <<>> /\ late = FALSE
    /\ compute = [at |-> "waiting", batch |-> NoBatch]
    /\ inflight = <<>>
    /\ finisher = [at |-> "waiting", batch |-> NoBatch]
    /\ io = "running"
    /\ host = "up"
    /\ floor = [c \in Clients |-> 0]

-----------------------------------------------------------------------------
(* The client.                                                              *)

At(c, s) == client[c].at = s
Closed(c) == At(c, "gone")
(* The server end is open: neither shut down by _refuse nor closed by _drop. *)
Reachable(c) == server[c].known /\ ~server[c].shut
(* The process ends, its sockets close, what was sent to it is lost and nobody reads its
   region. *)
Ends(c) ==
    /\ client' = [client EXCEPT ![c] = Outside("gone")]
    /\ outbox' = [outbox EXCEPT ![c] = <<>>]
    /\ region' = [region EXCEPT ![c].response = NoResponse]
    /\ floor' = [floor EXCEPT ![c] = 0]
    /\ UNCHANGED inbox
Tell(c, msg) == inbox' = [inbox EXCEPT ![c] = Append(@, msg)]
ServerSide == <<server, policies, queue, late, threads, host>>

(* connect(): the region is created, the socket connected and HELLO sent. *)
Connect(c) ==
    /\ At(c, "new") /\ host = "up"
    /\ client' = [client EXCEPT ![c].at = "greeting"]
    /\ server' = [server EXCEPT ![c] = [Stranger EXCEPT !.known = TRUE, !.alive = TRUE]]
    /\ Tell(c, "HELLO")
    /\ UNCHANGED <<outbox, region, policies, queue, late, threads, host, floor>>

(* The server is gone, or goes before it reads the connection. *)
ConnectFails(c) ==
    /\ At(c, "new") /\ host # "up"
    /\ Ends(c)
    /\ UNCHANGED ServerSide

(* evaluate(): the request is written into the region, then EVAL is sent and an answer awaited. *)
Ask(c) ==
    /\ At(c, "idle") /\ Reachable(c) /\ client[c].seq < MaxAsked
    /\ client' = [client EXCEPT ![c].at = "waiting", ![c].seq = @ + 1]
    /\ region' = [region EXCEPT ![c].seq = @ + 1]
    /\ Tell(c, "EVAL")
    /\ floor' = [floor EXCEPT ![c] = policies[Current]]
    /\ UNCHANGED <<outbox, ServerSide>>

(* await(): the answer is what was waited for, and of this request; the region is the client's again. *)
Expected(c, msg) ==
    \/ At(c, "greeting") /\ msg = "WELCOME"
    \/ At(c, "waiting") /\ msg = "DONE" /\ region[c].response.seq = client[c].seq

Answered(c) ==
    /\ outbox[c] # <<>> /\ Expected(c, Head(outbox[c]))
    /\ client' = [client EXCEPT ![c].at = "idle",
                     ![c].got = IF At(c, "waiting") THEN region[c].response.version ELSE @]
    /\ outbox' = [outbox EXCEPT ![c] = Tail(@)]
    /\ UNCHANGED <<inbox, region, ServerSide, floor>>

(* Every other answer, and the end of the connection, is fatal: the actor never plays on without it. *)
Fails(c) ==
    /\ client[c].at \in {"greeting", "idle", "waiting"}
    /\ \/ outbox[c] # <<>> /\ ~Expected(c, Head(outbox[c]))
       \/ outbox[c] = <<>> /\ ~Reachable(c)
    /\ Ends(c)
    /\ UNCHANGED ServerSide

AsksAgain(c) ==                            \* mutant: a timeout after which the connection is used on
    /\ At(c, "waiting")
    /\ client' = [client EXCEPT ![c].at = "idle"]
    /\ UNCHANGED <<wire, ServerSide, floor>>

(* The actor ends, gives up waiting (timeout=), or is killed: its socket closes, its region stays
   mapped at the server. BYE says no more than the end of the connection that follows it. *)
Leaves(c) ==
    /\ client[c].at \in {"greeting", "idle", "waiting"}
    /\ Ends(c)
    /\ UNCHANGED ServerSide

-----------------------------------------------------------------------------
(* The I/O thread: one message, or the end of one connection, at a time.    *)
(* Nothing it does to a client before it lets the region go can be told     *)
(* from that by another thread, so each of these is one action.             *)

ClientSide == <<client, region, floor>>
Reading(c) == io = "running" /\ host = "up" /\ server[c].known
Reads(c, msg) ==
    /\ Reading(c) /\ ~server[c].shut
    /\ inbox[c] # <<>> /\ Head(inbox[c]) = msg
    /\ inbox' = [inbox EXCEPT ![c] = Tail(@)]
(* send() to a peer that closed its socket marks the client dead. *)
StillAlive(c) == server[c].alive /\ ~Closed(c)
Sent(c, msg) == outbox' = [outbox EXCEPT ![c] = IF StillAlive(c) THEN Append(@, msg) ELSE @]
Served(P) == \A p \in P : policies[p] # Unserved
(* _drop(): the client is no longer alive nor known, its socket is closed and its region let go. *)
Forget(c) == server' = [server EXCEPT ![c] = Stranger]

HandleHello(c) ==
    /\ Reads(c, "HELLO")
    /\ IF Served(Wants[c])
       THEN /\ server' = [server EXCEPT ![c].hello = TRUE, ![c].mapped = TRUE,
                                        ![c].alive = StillAlive(c)]
            /\ Sent(c, "WELCOME")
       ELSE Forget(c) /\ Sent(c, "ERROR")
    /\ UNCHANGED <<ClientSide, policies, queue, late, threads, host>>

(* The request is validated and queued: its tensors stay in the client's region. *)
HandleEval(c) ==
    /\ Reads(c, "EVAL")
    /\ IF ~server[c].queued /\ Served(Wants[c])
       THEN /\ server' = [server EXCEPT ![c].queued = TRUE]
            /\ queue' = Append(queue, Request(c))
            /\ UNCHANGED outbox
       ELSE Forget(c) /\ Sent(c, "ERROR") /\ UNCHANGED queue
    /\ UNCHANGED <<ClientSide, policies, late, threads, host>>

(* There is nothing more to read of a connection that was closed, or shut down by _refuse. *)
SeesEnd(c) ==
    /\ Reading(c)
    /\ (inbox[c] = <<>> /\ Closed(c)) \/ server[c].shut
    /\ Forget(c)
    /\ UNCHANGED <<ClientSide, inbox, outbox, policies, queue, late, threads, host>>

IoEnds ==
    /\ io = "running" /\ host = "stopping"
    /\ io' = "ended"
    /\ UNCHANGED <<client, wire, server, policies, queue, late, compute, inflight, finisher, host, floor>>

-----------------------------------------------------------------------------
(* The compute thread.                                                      *)

(* The queued requests of living clients, as they arrived. *)
Live == {i \in DOMAIN queue : server[queue[i].client].alive}
InOrder(S) == {f \in Bijection(1..Cardinality(S), S) : \A i, j \in DOMAIN f : i < j => f[i] < f[j]}
Connected == {c \in Clients : server[c].known /\ server[c].alive /\ server[c].hello}
Waiting == {c \in Clients : server[c].known /\ server[c].alive /\ server[c].queued}

(* deadline_us after the oldest queued request arrived. *)
Deadline ==
    /\ queue # <<>> /\ ~late
    /\ late' = TRUE
    /\ UNCHANGED <<client, wire, server, policies, queue, threads, host, floor>>

DueWithoutDeadline(reqs) ==                \* mutant: waits for a full batch or for everybody
    RowsOf(reqs) >= MaxBatch \/ Cardinality(Waiting) >= Cardinality(Connected)

Due(reqs) == RowsOf(reqs) >= MaxBatch \/ Cardinality(Waiting) >= Cardinality(Connected) \/ late

(* The longest prefix that fits max_batch; a larger request alone. *)
Fitting(reqs) == {n \in 1..Len(reqs) :
    /\ n = 1 \/ RowsOf(SubSeq(reqs, 1, n)) <= MaxBatch
    /\ n = Len(reqs) \/ RowsOf(SubSeq(reqs, 1, n + 1)) > MaxBatch}

RemainingFrom(reqs, n) == SubSeq(reqs, n, Len(reqs))   \* mutant: leaves the last one taken in the queue
Remaining(reqs, n) == SubSeq(reqs, n + 1, Len(reqs))

FirstVersion == 0                          \* mutant: the module the server was started with
ServedVersion == policies[Current]

(* _launch(): the policies are read under their lock once for the batch. *)
Launches(reqs) ==
    LET wanted == UNION {Wants[r.client] : r \in Range(reqs)}
    IN  compute' = [at |-> "putting",
                    batch |-> [reqs |-> reqs, version |-> ServedVersion, failed |-> ~Served(wanted)]]

(* _take_batch(), then _launch(). *)
TakeBatch ==
    /\ compute.at = "waiting" /\ host = "up"
    /\ \E order \in InOrder(Live) :
           LET live == [i \in DOMAIN order |-> queue[order[i]]]
           IN  /\ live # <<>> /\ Due(live)
               /\ \E n \in Fitting(live) : Launches(SubSeq(live, 1, n)) /\ queue' = Remaining(live, n)
    /\ late' = FALSE
    /\ UNCHANGED <<client, wire, server, policies, inflight, finisher, io, host, floor>>

(* Requests of dropped clients leave the queue. *)
Prune ==
    /\ compute.at = "waiting" /\ host = "up"
    /\ queue # <<>> /\ Live = {}
    /\ queue' = <<>> /\ late' = FALSE
    /\ UNCHANGED <<client, wire, server, policies, threads, host, floor>>

Room == Len(inflight) < 2

Put ==
    /\ compute.at = "putting" /\ Room
    /\ inflight' = Append(inflight, compute.batch)
    /\ compute' = [at |-> "waiting", batch |-> NoBatch]
    /\ UNCHANGED <<client, wire, server, policies, queue, late, finisher, io, host, floor>>

ComputeEnds ==
    /\ compute.at = "waiting" /\ host = "stopping" /\ Room
    /\ inflight' = Append(inflight, NoBatch)
    /\ compute' = [compute EXCEPT !.at = "ended"]
    /\ UNCHANGED <<client, wire, server, policies, queue, late, finisher, io, host, floor>>

-----------------------------------------------------------------------------
(* The finisher thread: one request of its batch after another.             *)

Finishing(s) == finisher.at = s
Answering == Head(finisher.batch.reqs).client
NextRequest(b) ==
    IF Len(b.reqs) = 1 THEN [at |-> "waiting", batch |-> NoBatch]
    ELSE [at |-> "answering", batch |-> [b EXCEPT !.reqs = Tail(@)]]
Elsewhere == <<client, inbox, policies, queue, late, compute, inflight, io, host, floor>>

(* The batch's results are read back from the device; None ends the thread. *)
Collect(fails) ==
    /\ finisher.at = "waiting" /\ inflight # <<>>
    /\ inflight' = Tail(inflight)
    /\ finisher' = IF Head(inflight) = NoBatch THEN [finisher EXCEPT !.at = "ended"]
                   ELSE [at |-> "answering",
                         batch |-> [Head(inflight) EXCEPT !.failed = @ \/ fails]]
    /\ UNCHANGED <<client, wire, server, policies, queue, late, compute, io, host, floor>>

SkipDead ==
    /\ Finishing("answering") /\ ~server[Answering].alive
    /\ finisher' = NextRequest(finisher.batch)
    /\ UNCHANGED <<Elsewhere, outbox, region, server>>

SeesAlive ==
    /\ Finishing("answering") /\ server[Answering].alive
    /\ finisher' = [finisher EXCEPT !.at = IF finisher.batch.failed THEN "refusing" ELSE "writing"]
    /\ UNCHANGED <<Elsewhere, outbox, region, server>>

(* The model failed on the batch, or the response does not fit its area. _refuse(): ERROR, then the
   socket is shut down; the I/O thread will see its end. *)
RefuseRequest ==
    /\ Finishing("refusing")
    /\ server' = [server EXCEPT ![Answering].queued = FALSE, ![Answering].shut = TRUE,
                                ![Answering].alive = StillAlive(Answering)]
    /\ Sent(Answering, "ERROR")
    /\ finisher' = NextRequest(finisher.batch)
    /\ UNCHANGED <<Elsewhere, region>>

(* _write_response(): into the client's region, which the I/O thread may have let go since.
   The region of a client that is gone is read by nobody. *)
WriteResponse ==
    /\ Finishing("writing") /\ server[Answering].mapped
    /\ \/ /\ region' = IF Closed(Answering) THEN region ELSE [region EXCEPT ![Answering].response =
                          [seq |-> Head(finisher.batch.reqs).seq, version |-> finisher.batch.version]]
          /\ finisher' = [finisher EXCEPT !.at = "sending"]
       \/ /\ finisher' = [finisher EXCEPT !.at = "refusing"]
          /\ UNCHANGED region
    /\ UNCHANGED <<Elsewhere, outbox, server>>

(* c.shm is None: an exception no handler of the loop catches ends the thread. *)
FinisherDies ==
    /\ Finishing("writing") /\ ~server[Answering].mapped
    /\ finisher' = [finisher EXCEPT !.at = "dead"]
    /\ UNCHANGED <<Elsewhere, outbox, region, server>>

SendDone ==
    /\ Finishing("sending")
    /\ server' = [server EXCEPT ![Answering].queued = FALSE, ![Answering].alive = StillAlive(Answering)]
    /\ Sent(Answering, "DONE")
    /\ finisher' = NextRequest(finisher.batch)
    /\ UNCHANGED <<Elsewhere, region>>

-----------------------------------------------------------------------------
(* The process around it: the learner's weights, evaluations, the end.      *)

(* set_policy() after a learner step, and for an evaluation; remove_policy() at its end. *)
SetPolicy(p) ==
    /\ host = "up"
    /\ policies' = [policies EXCEPT ![p] = IF p = Current THEN @ + 1 ELSE 0]
    /\ policies[p] < (IF p = Current THEN MaxVersion ELSE 0)
    /\ UNCHANGED <<client, wire, server, queue, late, threads, host, floor>>

RemovePolicy(p) ==
    /\ host = "up" /\ p # Current /\ policies[p] # Unserved
    /\ policies' = [policies EXCEPT ![p] = Unserved]
    /\ UNCHANGED <<client, wire, server, queue, late, threads, host, floor>>

Stop ==
    /\ host = "up"
    /\ host' = "stopping"
    /\ UNCHANGED <<client, wire, server, policies, queue, late, threads, floor>>

(* stop() joins the threads, the compute and finisher threads for at most 30 seconds each, which may
   pass while the device computes; then it drops every client. *)
JoinOfAll ==                               \* mutant: a join without a limit
    io = "ended" /\ compute.at = "ended" /\ finisher.at = "ended"
JoinOver == io = "ended"

DropAtStop(c) ==
    /\ host = "stopping" /\ JoinOver /\ server[c].known
    /\ Forget(c)
    /\ IF server[c].hello THEN Sent(c, "ERROR") ELSE UNCHANGED outbox
    /\ UNCHANGED <<client, inbox, region, policies, queue, late, threads, host, floor>>

Stopped ==
    /\ host = "stopping" /\ JoinOver /\ \A c \in Clients : ~server[c].known
    /\ host' = "down"
    /\ UNCHANGED <<client, wire, server, policies, queue, late, threads, floor>>

(* The GPU process dies: every connection is closed with it. *)
Crash ==
    /\ host # "down"
    /\ host' = "down"
    /\ server' = [c \in Clients |-> Stranger]
    /\ queue' = <<>> /\ late' = FALSE /\ inflight' = <<>>
    /\ compute' = [at |-> "ended", batch |-> NoBatch]
    /\ finisher' = [at |-> "ended", batch |-> NoBatch]
    /\ io' = "ended"
    /\ UNCHANGED <<client, wire, policies, floor>>

(* Nobody is left. *)
Over ==
    /\ host = "down" /\ \A c \in Clients : Closed(c)
    /\ UNCHANGED vars

IoThread == IoEnds \/ \E c \in Clients : HandleHello(c) \/ HandleEval(c) \/ SeesEnd(c)
ComputeThread == Deadline \/ TakeBatch \/ Prune \/ Put \/ ComputeEnds
FinisherThread ==
    \/ \E fails \in BOOLEAN : Collect(fails)
    \/ SkipDead \/ SeesAlive \/ RefuseRequest \/ WriteResponse \/ FinisherDies \/ SendDone
Actor(c) ==
    \/ Connect(c) \/ ConnectFails(c) \/ Ask(c) \/ Answered(c) \/ Fails(c) \/ Leaves(c)
Host ==
    \/ \E p \in Policies : SetPolicy(p) \/ RemovePolicy(p)
    \/ Stop \/ Stopped \/ Crash
    \/ \E c \in Clients : DropAtStop(c)

Next == IoThread \/ ComputeThread \/ FinisherThread \/ Host \/ Over \/ \E c \in Clients : Actor(c)

Spec == Init /\ [][Next]_vars

(* The server's threads run, select() returns every readable socket, a client reads what was sent to
   it. Nothing makes an actor ask, a learner replace weights, or anybody stop. *)
FairSpec ==
    /\ Spec
    /\ WF_vars(IoThread) /\ WF_vars(ComputeThread) /\ WF_vars(FinisherThread)
    /\ WF_vars(Stopped \/ \E c \in Clients : DropAtStop(c))
    /\ \A c \in Clients : WF_vars(ConnectFails(c) \/ Answered(c) \/ Fails(c))

-----------------------------------------------------------------------------
(* Properties.                                                              *)

(* Where a connection's requests are: the list (the queue, a thread's batch, one of those in flight)
   and the place in it. *)
Lists == <<queue, compute.batch.reqs, finisher.batch.reqs>> \o [b \in DOMAIN inflight |-> inflight[b].reqs]
Places(c) == UNION {{<<l, i>> : i \in {j \in DOMAIN Lists[l] : Lists[l][j].client = c}} : l \in DOMAIN Lists}

(* A request is in one place from the moment it is queued until it is answered, whatever the three
   threads do meanwhile: the flag that lets a client's next request in says exactly that. *)
OneInFlight ==
    \A c \in Clients :
        /\ \A p, q \in Places(c) : p = q
        /\ server[c].alive /\ finisher.at # "dead" => (server[c].queued <=> Places(c) # {})

(* The server writes into a shared region only while its client waits for that very response: the
   client may read and overwrite it at any other time. *)
RegionIsTheClients ==
    [][\A c \in Clients : region'[c].response \notin {region[c].response, NoResponse} =>
          At(c, "waiting") /\ region'[c].response.seq = client[c].seq]_vars

(* The protocol's promise, whichever thread is where: one answer a question, with weights that were
   current between the two. *)
Contract == INSTANCE Inference WITH
    status <- [c \in Clients |-> client[c].at],
    weights <- policies[Current],
    got <- [c \in Clients |-> client[c].got]
KeepsContract == Contract!Spec

(* A client that waits is answered, refused or cut off, as long as the finisher thread lives: no batch
   waits for a client that will not ask, none is stuck in the pipeline. *)
AnsweredWhileFinisherLives ==
    \A c \in Clients : At(c, "waiting") ~> (~At(c, "waiting") \/ finisher.at = "dead")

(* docs/inference_protocol.md: the server reads a request, evaluates it and sends DONE, or ERROR. *)
EveryRequestAnswered == \A c \in Clients : At(c, "waiting") ~> ~At(c, "waiting")

(* Stopping the server reaches every connected actor, also those whose requests are queued, computed
   or stuck behind a thread that is gone. *)
StopReachesEveryone ==
    host = "stopping" ~> \A c \in Clients : At(c, "gone")
=============================================================================
