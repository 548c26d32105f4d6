------------------------------ MODULE TunnelMux ------------------------------
(***************************************************************************)
(* The integrated tunnel: one WebSocket to the cloud carries many streams, *)
(* each relayed by a task of its own to a service of the device.  The loop *)
(* that owns the map of the streams learns of a task's end by message, and *)
(* a message names a stream by its identifier only, which the cloud may    *)
(* use again.  The ghost field "of" of a frame says which stream sent it.  *)
(* The cloud and the local services are external.  The cloud is prudent:   *)
(* it opens an identifier again only after the stream that had it was      *)
(* closed by the device.  A plain HTTP request is a stream of one frame    *)
(* each way; its task is not in the map.  With --background the command    *)
(* leaves all of this to a child that begins anew.                         *)
(***************************************************************************)
EXTENDS Integers, Sequences

CONSTANTS
    MaxStreams,     \* bound: streams that the cloud opens
    MaxIds,         \* stream identifiers; fewer than streams: some come twice
    MaxData,        \* bound: data frames per stream and direction
    Services        \* the services that the cloud asks for

ASSUME TunnelAssumption ==
    MaxStreams \in Nat /\ MaxIds \in Nat \ {0} /\ MaxData \in Nat \ {0}

Stream == 1 .. MaxStreams
Id == 1 .. MaxIds

VARIABLES
    token,      \* the tunnel token's file: "none", "empty", "some"
    origin,     \* host of the WebUI's health URL: "loopback", "elsewhere", "none"
    phase,      \* the process: "idle", "connecting", "up", "ended"
    inbound,    \* frames on the way to the device
    outbound,   \* cloud_rx and frames on the way to the cloud
    streams,    \* the loop's map: for each identifier, whose sender it holds, or 0
    inbox,      \* each task's cloud_rx
    doneQueue,  \* stream_done_rx
    task,       \* "none", "asking", "connecting", "relaying", "writing", "ending", "ended"
    service,    \* the service that each stream is for
    id,         \* the identifier of each stream, 0 before it is opened
    remote,     \* the cloud's view: "unused", "open", "asking", "closing", "closed"
    sent,       \* data frames that the cloud has sent in each stream
    got,        \* the service's: the data frames, as [of, n]
    produced,   \* data frames that the service has sent
    heard       \* the cloud's: the data frames it took for those of each stream

device == <<token, origin>>
cloud == <<service, id, remote, sent, heard>>
local == <<got, produced>>
tunnelVars == <<device, phase, inbound, outbound, streams, inbox, doneQueue, task, cloud, local>>

Frame == [kind : {"open", "data", "close", "accept", "request", "response"},
          id : 0 .. MaxIds, of : 0 .. MaxStreams, n : 0 .. MaxData]

TunnelInit ==
    /\ token \in {"none", "empty", "some"} /\ origin \in {"loopback", "elsewhere", "none"}
    /\ phase = "idle" /\ service = [s \in Stream |-> "none"] /\ inbound = <<>> /\ outbound = <<>> /\ doneQueue = <<>>
    /\ streams = [i \in Id |-> 0] /\ inbox = [s \in Stream |-> <<>>]
    /\ task = [s \in Stream |-> "none"] /\ id = [s \in Stream |-> 0]
    /\ remote = [s \in Stream |-> "unused"] /\ sent = [s \in Stream |-> 0]
    /\ got = [s \in Stream |-> <<>>] /\ produced = [s \in Stream |-> 0]
    /\ heard = [s \in Stream |-> <<>>]

StreamFrame(k, s, n) == [kind |-> k, id |-> id[s], of |-> s, n |-> n]

ToCloud(f) == outbound' = Append(outbound, f)
ToDevice(f) == inbound' = Append(inbound, f)
SetTask(s, t) == task' = [task EXCEPT ![s] = t]

Up == phase = "up"
frames == <<inbound, outbound, streams, inbox, doneQueue, task>>

-----------------------------------------------------------------------------
(* The process *)

\* Without a token there is no tunnel.
run_integrated ==
    /\ phase = "idle"
    /\ phase' = IF token = "some" THEN "connecting" ELSE "ended"
    /\ UNCHANGED <<device, frames, cloud, local>>

\* The cloud accepts the connection, or nobody answers.
foreground_integrated ==
    /\ phase = "connecting" /\ phase' \in {"up", "ended"}
    /\ UNCHANGED <<device, frames, cloud, local>>

-----------------------------------------------------------------------------
(* The cloud *)

\* A new stream or a request, for a service.
Opens(s, i, svc, kind) ==
    /\ Up /\ remote[s] = "unused" /\ \A t \in 1 .. s - 1 : remote[t] # "unused"
    /\ \A t \in Stream : id[t] = i => remote[t] = "closed"
    /\ \A j \in 1 .. i - 1 : \E t \in Stream : id[t] = j     \* without loss of generality
    /\ id' = [id EXCEPT ![s] = i] /\ service' = [service EXCEPT ![s] = svc]
    /\ UNCHANGED <<device, phase, outbound, streams, inbox, doneQueue, task, heard, local>>
    /\ inbound' = Append(inbound, [kind |-> kind, id |-> i, of |-> s, n |-> 1])

CloudOpens(s, i, svc) ==
    /\ Opens(s, i, svc, "open")
    /\ remote' = [remote EXCEPT ![s] = "open"] /\ UNCHANGED sent

CloudRequests(s, i, svc) ==
    /\ Opens(s, i, svc, "request")
    /\ remote' = [remote EXCEPT ![s] = "asking"] /\ sent' = [sent EXCEPT ![s] = 1]

CloudSends(s) ==
    /\ Up /\ remote[s] = "open" /\ sent[s] < MaxData
    /\ sent' = [sent EXCEPT ![s] = @ + 1]
    /\ ToDevice(StreamFrame("data", s, sent[s] + 1))
    /\ UNCHANGED <<device, phase, outbound, streams, inbox, doneQueue, task, service, id, remote,
                   heard, local>>

CloudCloses(s) ==
    /\ Up /\ remote[s] = "open"
    /\ remote' = [remote EXCEPT ![s] = "closing"]
    /\ ToDevice(StreamFrame("close", s, 0))
    /\ UNCHANGED <<device, phase, outbound, streams, inbox, doneQueue, task, service, id, sent,
                   heard, local>>

\* The cloud knows a frame's stream by the identifier.
Addressee(f) ==
    {s \in Stream : id[s] = f.id /\ IF f.kind = "response" THEN remote[s] = "asking"
                                    ELSE remote[s] \in {"open", "closing"}}

CloudReceives ==
    /\ Up /\ outbound # <<>>
    /\ outbound' = Tail(outbound)
    /\ LET f == Head(outbound) IN
       /\ remote' = [s \in Stream |->
              IF f.kind \in {"close", "response"} /\ s \in Addressee(f)
              THEN "closed" ELSE remote[s]]
       /\ heard' = [s \in Stream |->
              IF f.kind \in {"data", "response"} /\ f.n > 0 /\ s \in Addressee(f)
              THEN Append(heard[s], [of |-> f.of, n |-> f.n]) ELSE heard[s]]
    /\ UNCHANGED <<device, phase, inbound, streams, inbox, doneQueue, task, service, id, sent, local>>

-----------------------------------------------------------------------------
(* The loop of foreground_integrated_async *)

Incoming(kinds) == Up /\ inbound # <<>> /\ Head(inbound).kind \in kinds
Received == inbound' = Tail(inbound)

ReceiveOpen ==
    LET f == Head(inbound) IN
    /\ Incoming({"open"})
    /\ Received
    /\ IF streams[f.id] # 0
       THEN /\ ToCloud([f EXCEPT !.kind = "close"])     \* "duplicate stream id"
            /\ UNCHANGED <<streams, task>>
       ELSE /\ streams' = [streams EXCEPT ![f.id] = f.of]
            /\ SetTask(f.of, "connecting")
            /\ UNCHANGED outbound
    /\ UNCHANGED <<device, phase, inbox, doneQueue, cloud, local>>

\* A frame is handed to the task that the map has, unless its receiver is gone;
\* a close also ends the entry.  Other frames are dropped.
ReceiveFrame ==
    LET f == Head(inbound)
        s == streams[f.id] IN
    /\ Incoming({"data", "close"})
    /\ Received
    /\ inbox' = IF s # 0 /\ task[s] \in {"connecting", "relaying", "writing"}
                THEN [inbox EXCEPT ![s] = Append(@, f)] ELSE inbox
    /\ streams' = IF f.kind = "close" THEN [streams EXCEPT ![f.id] = 0] ELSE streams
    /\ UNCHANGED <<device, phase, outbound, doneQueue, task, cloud, local>>

\* Mutant: nobody listens to the tasks.
ReceiveDoneDeaf ==
    /\ Up /\ doneQueue # <<>>
    /\ doneQueue' = Tail(doneQueue)
    /\ UNCHANGED <<device, phase, inbound, outbound, streams, inbox, task, cloud, local>>

\* A task is done: the entry of its identifier goes, whose ever it is by now.
ReceiveDone ==
    /\ Up /\ doneQueue # <<>>
    /\ doneQueue' = Tail(doneQueue)
    /\ streams' = [streams EXCEPT ![Head(doneQueue)] = 0]
    /\ UNCHANGED <<device, phase, inbound, outbound, inbox, task, cloud, local>>

\* A request has a blocking task of its own.
ReceiveRequest ==
    /\ Incoming({"request"})
    /\ Received
    /\ SetTask(Head(inbound).of, "asking")
    /\ UNCHANGED <<device, phase, outbound, streams, inbox, doneQueue, cloud, local>>

-----------------------------------------------------------------------------
(* The tasks *)

validate_local_origin(o) == o = "loopback"

\* The WebUI is where the active profile's health check is, if that can be read.
native_webui_origin == origin # "none" /\ validate_local_origin(origin)

target_for(svc) ==
    \/ svc \in {"control", "terminal"}
    \/ svc = "webui" /\ native_webui_origin

\* The answer to a request, with what the service has said (n = 1) or in its
\* place (n = 0); the task is over.
response_frame(s, n) ==
    /\ ToCloud([kind |-> "response", id |-> id[s], of |-> s, n |-> n])
    /\ SetTask(s, "ended")

\* 403 for a service outside of the list; else the service's answer, whatever its
\* status, or 502, when it was not reached or did not answer within 30 seconds.
proxy_frame_to_local(s) ==
    /\ Up /\ task[s] = "asking"
    /\ \/ /\ ~target_for(service[s])
          /\ response_frame(s, 0) /\ UNCHANGED local
       \/ /\ target_for(service[s])
          /\ \E reached \in BOOLEAN, n \in 0 .. 1 :
                 /\ n = 1 => reached
                 /\ got' = [got EXCEPT ![s] = IF reached THEN <<[of |-> s, n |-> 1]>> ELSE @]
                 /\ produced' = [produced EXCEPT ![s] = n]
                 /\ response_frame(s, n)
    /\ UNCHANGED <<device, phase, inbound, streams, inbox, doneQueue, cloud>>

(* proxy_websocket_to_local *)

Connects(s) ==
    /\ Up /\ task[s] = "connecting" /\ target_for(service[s])
    /\ SetTask(s, "relaying")
    /\ ToCloud(StreamFrame("accept", s, 0))
    /\ UNCHANGED <<device, phase, inbound, streams, inbox, doneQueue, cloud, local>>

\* The task says stream_close, with an error or without; its receiver goes.
Closes(s) ==
    /\ SetTask(s, "ending")
    /\ ToCloud(StreamFrame("close", s, 0))
    /\ inbox' = [inbox EXCEPT ![s] = <<>>]

ConnectFails(s) ==
    /\ Up /\ task[s] = "connecting"
    /\ Closes(s)
    /\ UNCHANGED <<device, phase, inbound, streams, doneQueue, cloud, local>>

ServiceSends(s) ==
    /\ Up /\ task[s] = "relaying" /\ produced[s] < MaxData
    /\ produced' = [produced EXCEPT ![s] = @ + 1]
    /\ ToCloud(StreamFrame("data", s, produced[s] + 1))
    /\ UNCHANGED <<device, phase, inbound, streams, inbox, doneQueue, task, cloud, got>>

\* Mutant: the task says stream_close and goes on.
ServiceClosesNot(s) ==
    /\ Up /\ task[s] = "relaying"
    /\ ToCloud(StreamFrame("close", s, 0))
    /\ UNCHANGED <<device, phase, inbound, streams, inbox, doneQueue, task, cloud, local>>

\* The local socket closes or fails, on reading or on writing.
ServiceCloses(s) ==
    /\ Up /\ task[s] \in {"relaying", "writing"}
    /\ Closes(s)
    /\ UNCHANGED <<device, phase, inbound, streams, doneQueue, cloud, local>>

\* A frame of the cloud's is the next to be written: it stays the first of the inbox
\* until the service has it.  Meanwhile the task reads neither of its sides, and
\* nothing limits the time that local_write.send takes.
RelayTakes(s) ==
    /\ Up /\ task[s] = "relaying" /\ inbox[s] # <<>>
    /\ SetTask(s, "writing")
    /\ UNCHANGED <<device, phase, inbound, outbound, streams, inbox, doneQueue, cloud, local>>

Writes(s, kind) == Up /\ task[s] = "writing" /\ Head(inbox[s]).kind = kind

RelayData(s) ==
    /\ Writes(s, "data") /\ SetTask(s, "relaying")
    /\ inbox' = [inbox EXCEPT ![s] = Tail(@)]
    /\ got' = [got EXCEPT ![s] = Append(@, [of |-> Head(inbox[s]).of, n |-> Head(inbox[s]).n])]
    /\ UNCHANGED <<device, phase, inbound, outbound, streams, doneQueue, cloud, produced>>

\* The cloud has closed: the service is told so, and the task ends.
RelayClose(s) ==
    /\ Writes(s, "close") /\ Closes(s)
    /\ UNCHANGED <<device, phase, inbound, streams, doneQueue, cloud, local>>

\* The sender was dropped and the inbox is empty.
RelayEnds(s) ==
    /\ Up /\ task[s] = "relaying" /\ inbox[s] = <<>> /\ streams[id[s]] # s
    /\ Closes(s)
    /\ UNCHANGED <<device, phase, inbound, streams, doneQueue, cloud, local>>

\* done.send, after the task's last frame.
ReportDone(s) ==
    /\ Up /\ task[s] = "ending"
    /\ SetTask(s, "ended")
    /\ doneQueue' = Append(doneQueue, id[s])
    /\ UNCHANGED <<device, phase, inbound, outbound, streams, inbox, cloud, local>>

\* The connection fails or the server ends it: the process ends, and its tasks.
Disconnect ==
    /\ Up /\ phase' = "ended"
    /\ inbound' = <<>> /\ outbound' = <<>> /\ doneQueue' = <<>>
    /\ streams' = [i \in Id |-> 0] /\ inbox' = [s \in Stream |-> <<>>]
    /\ task' = [s \in Stream |-> "none"]
    /\ remote' = [s \in Stream |-> "closed"]
    /\ UNCHANGED <<device, service, id, sent, heard, local>>

Process == run_integrated \/ foreground_integrated \/ Disconnect
Loop == ReceiveOpen \/ ReceiveFrame \/ ReceiveRequest \/ ReceiveDone
Cloud == \E s \in Stream :
             \/ \E i \in Id, svc \in Services : CloudOpens(s, i, svc) \/ CloudRequests(s, i, svc)
             \/ CloudSends(s) \/ CloudCloses(s)
Connecting(s) == Connects(s) \/ ConnectFails(s)
Serving(s) == ServiceSends(s) \/ ServiceCloses(s)
Task(s) == proxy_frame_to_local(s) \/ RelayTakes(s) \/ RelayEnds(s) \/ ReportDone(s)
ServiceReads(s) == RelayData(s) \/ RelayClose(s)

TunnelNext == Process \/ Cloud \/ CloudReceives \/ Loop
            \/ \E s \in Stream : Connecting(s) \/ Serving(s) \/ ServiceReads(s) \/ Task(s)

TunnelSpec == TunnelInit /\ [][TunnelNext]_tunnelVars

\* select! is fair to its branches and the runtime to its tasks; a request has a
\* limit of 30 seconds.  A connection to a service has none, and neither has a write
\* to it: a service may say nothing for ever, and may stop reading.
FairTunnelSpec ==
    /\ TunnelSpec
    /\ WF_tunnelVars(CloudReceives) /\ WF_tunnelVars(ReceiveOpen \/ ReceiveFrame \/ ReceiveRequest)
    /\ WF_tunnelVars(ReceiveDone)
    /\ \A s \in Stream : WF_tunnelVars(Task(s))

-----------------------------------------------------------------------------
(* Properties *)

Numbers(s, k) == [n \in 1 .. k |-> [of |-> s, n |-> n]]

\* A service gets the data of its own stream, in order and without a gap, and so
\* does the cloud, whatever identifiers are used again; the answer to a request is
\* the one to that request.  No other service than those of this device is reached.
NoCrosstalk ==
    \A s \in Stream :
        /\ Len(got[s]) <= sent[s] /\ got[s] = Numbers(s, Len(got[s]))
        /\ Len(heard[s]) <= produced[s] /\ heard[s] = Numbers(s, Len(heard[s]))
        /\ got[s] # <<>> => /\ service[s] \in {"webui", "control", "terminal"}
                            /\ service[s] = "webui" => origin = "loopback"

\* As long as the connection lasts, every request is answered and every stream
\* that one side closes is closed on the other one and leaves the map, but for a
\* task that is still connecting to its service.  Each stream depends on its own
\* service alone: it has to go on reading, for a write to one that does not never
\* returns (tunnel.rs:692), and then the stream does not end either; a service that
\* stops reading, or never answers the connection, holds up no other stream.
Settled(s) ==
    /\ remote[s] \in {"asking", "closing"} => task[s] = "connecting"
    /\ task[s] = "ended" => remote[s] = "closed" /\ \A i \in Id : streams[i] # s
KeepsReading(s) == WF_tunnelVars(ServiceReads(s))

EverythingEnds == \A s \in Stream : KeepsReading(s) => []<>(phase = "ended" \/ Settled(s))
=============================================================================
