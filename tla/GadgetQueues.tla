---------------------------- MODULE GadgetQueues ----------------------------
(***************************************************************************)
(* The queues between the endpoint workers of the Switch 2 gadget          *)
(* (server/src/s2_rawgadget.cpp), the USB writer (writers.cpp) and the     *)
(* native command handler (switch2_native.cpp), while the console resets   *)
(* and configures the bus.                                                 *)
(*                                                                         *)
(* Entries are stamped with a generation, the number of the USB connection *)
(* they belong to.  The generation is one atomic, each queue has a mutex   *)
(* of its own, and the endpoints are opened and closed by a third party,   *)
(* the event thread: a worker's step is what it does under one lock or     *)
(* with one ioctl.  conn, late, received, written and gaveUp are history,  *)
(* and so is id, the number of a transfer or of a report.                  *)
(***************************************************************************)
EXTENDS Naturals, Sequences

CONSTANTS
  Commands,        \* vendor commands; one of them starts streaming
  Start,
  QueueLimit,      \* QUEUE_LIMIT, and the 4 of in_reports
  MaxAttempts,     \* of one reply
  MaxGeneration,   \* bound: bus resets and configurations
  MaxReceived,     \* bound: transfers the console starts
  MaxReports       \* bound: input reports

VARIABLES
  traffic,     \* the endpoints in use: "vendor", "output" or "input"
  generation,  \* g_rg.generation
  configured,  \* the console has set the configuration
  link,        \* the data endpoints are open
  event,       \* where the event thread is
  outQueue,    \* vendor_out_reports, or out_reports
  replies,     \* vendor_in_reports
  reports,     \* in_reports
  streaming,   \* NativeState.streaming, and the connection of the command that set it
  reader,      \* vendor_out_loop or hid_out_loop
  writer,      \* usb_writer_thread
  sender,      \* vendor_in_loop or hid_in_loop
  received, written, gaveUp, lastReport

queues  == <<outQueue, replies, reports>>
history == <<received, written, gaveUp, lastReport>>
vars == <<traffic, generation, configured, link, event, queues, streaming,
          reader, writer, sender, history>>

Idle == [pc |-> "idle"]
NoStream == [on |-> FALSE, conn |-> 0, late |-> FALSE]

Init ==
  /\ traffic \in {"vendor", "output", "input"}
  /\ generation = 1 /\ configured = FALSE /\ link = FALSE /\ event = "idle"
  /\ outQueue = <<>> /\ replies = <<>> /\ reports = <<>> /\ streaming = NoStream
  /\ reader = Idle /\ writer = Idle /\ sender = Idle
  /\ received = <<>> /\ written = <<>> /\ gaveUp = FALSE /\ lastReport = 0

-----------------------------------------------------------------------------
(* The event thread.                                                       *)

\* What a worker had in hand when the connection ended.
Late(worker) == IF worker.pc \in {"answer", "submit", "write"}
                THEN [worker EXCEPT !.item.late = TRUE] ELSE worker

\* generation.fetch_add(1): in reset_connection_state, and in SET_CONFIGURATION(1), which
\* the console takes for done by then.
Bump(next, set) ==
  /\ event = "idle" /\ generation < MaxGeneration
  /\ generation' = generation + 1 /\ configured' = set /\ event' = next
  /\ writer' = Late(writer) /\ sender' = Late(sender) /\ gaveUp' = FALSE
  /\ UNCHANGED <<traffic, link, queues, streaming, reader, received, written, lastReport>>

BusReset         == Bump("disable", FALSE)
SetConfiguration == Bump("clear", TRUE)

\* disable_all_endpoints, in reset_connection_state
DisableEndpoints ==
  /\ event = "disable" /\ link' = FALSE /\ event' = "clear"
  /\ UNCHANGED <<traffic, generation, configured, queues, streaming, reader, writer, sender,
                 history>>

\* clear_connection_queues
ClearQueues ==
  /\ event = "clear" /\ event' = "native"
  /\ outQueue' = <<>> /\ replies' = <<>> /\ reports' = <<>>
  /\ UNCHANGED <<traffic, generation, configured, link, streaming, reader, writer, sender,
                 history>>

\* switch2_native_reset_port
ResetPort ==
  /\ event = "native" /\ event' = IF configured THEN "enable" ELSE "idle"
  /\ streaming' = NoStream
  /\ UNCHANGED <<traffic, generation, configured, link, queues, reader, writer, sender, history>>

\* enable_all_endpoints closes what is open, then opens.
CloseOpenEndpoints ==
  /\ event = "enable" /\ link
  /\ link' = FALSE
  /\ UNCHANGED <<traffic, generation, configured, event, queues, streaming, reader, writer,
                 sender, history>>
EnableEndpoints ==
  /\ event = "enable" /\ ~link
  /\ link' = TRUE /\ event' = "idle"
  /\ UNCHANGED <<traffic, generation, configured, queues, streaming, reader, writer, sender,
                 history>>

EventThread ==
  \/ BusReset \/ SetConfiguration \/ DisableEndpoints \/ ClearQueues \/ ResetPort
  \/ CloseOpenEndpoints \/ EnableEndpoints

-----------------------------------------------------------------------------
(* The workers of the OUT endpoints.                                       *)

\* The generation is read before the transfer ...
BeginRead ==
  /\ traffic \in {"vendor", "output"} /\ reader = Idle /\ link
  /\ reader' = [pc |-> "read", generation |-> generation]
  /\ UNCHANGED <<traffic, generation, configured, link, event, queues, streaming, writer, sender,
                 history>>

\* ... which completes with what the console sends, or fails when the endpoint closes.
Read ==
  /\ reader.pc = "read"
  /\ \/ /\ link /\ configured /\ Len(received) < MaxReceived
        /\ \E c \in Commands :
             /\ received' = Append(received, [cmd |-> c, conn |-> generation])
             /\ reader' = [pc |-> "check", generation |-> reader.generation,
                           item |-> [id |-> Len(received) + 1, cmd |-> c, conn |-> generation]]
     \/ ~link /\ reader' = Idle /\ UNCHANGED received
  /\ UNCHANGED <<traffic, generation, configured, link, event, queues, streaming, writer, sender,
                 written, gaveUp, lastReport>>

CheckRead ==
  /\ reader.pc = "check"
  /\ reader' = IF reader.generation = generation THEN [reader EXCEPT !.pc = "push"] ELSE Idle
  /\ UNCHANGED <<traffic, generation, configured, link, event, queues, streaming, writer, sender,
                 history>>

Entry(r) == [id |-> r.item.id, cmd |-> r.item.cmd, conn |-> r.item.conn,
             generation |-> r.generation]

\* The same command still waiting; vendor commands only.
Duplicate(r) == traffic = "vendor"
  /\ \E n \in DOMAIN outQueue : /\ outQueue[n].generation = r.generation
                                /\ outQueue[n].cmd = r.item.cmd

\* Of a full queue the oldest entry goes.
Room(queue, limit) == IF Len(queue) >= limit THEN Tail(queue) ELSE queue

Push ==
  /\ reader.pc = "push" /\ reader' = Idle
  /\ outQueue' = IF Duplicate(reader) THEN outQueue
                 ELSE Append(Room(outQueue, QueueLimit), Entry(reader))
  /\ UNCHANGED <<traffic, generation, configured, link, event, replies, reports, streaming,
                 writer, sender, history>>

Reader == BeginRead \/ Read \/ CheckRead \/ Push

-----------------------------------------------------------------------------
(* The USB writer.                                                         *)

\* Seeded fault: entries of other connections are polled as well.
PollAny ==
  /\ writer = Idle /\ outQueue # <<>>
  /\ outQueue' = Tail(outQueue)
  /\ writer' = [pc |-> "answer",
                item |-> [id |-> Head(outQueue).id, cmd |-> Head(outQueue).cmd,
                          conn |-> Head(outQueue).conn, late |-> FALSE]]
  /\ UNCHANGED <<traffic, generation, configured, link, event, replies, reports, streaming,
                 reader, sender, history>>

\* poll_vendor_report, poll_output_report: entries of other connections are dropped on the
\* way to the first current one.
Poll ==
  /\ writer = Idle /\ outQueue # <<>>
  /\ \E n \in 1..Len(outQueue) :
       /\ \A k \in 1..(n - 1) : outQueue[k].generation # generation
       /\ IF outQueue[n].generation = generation
          THEN writer' = [pc |-> "answer",
                          item |-> [id |-> outQueue[n].id, cmd |-> outQueue[n].cmd,
                                    conn |-> outQueue[n].conn, late |-> FALSE]]
          ELSE n = Len(outQueue) /\ UNCHANGED writer
       /\ outQueue' = SubSeq(outQueue, n + 1, Len(outQueue))
  /\ UNCHANGED <<traffic, generation, configured, link, event, replies, reports, streaming,
                 reader, sender, history>>

\* switch2_native_handle_vendor_command, or the rumble of an output report.
Answer ==
  /\ writer.pc = "answer"
  /\ writer' = IF traffic = "vendor" THEN [writer EXCEPT !.pc = "submit"] ELSE Idle
  /\ streaming' = IF traffic = "vendor" /\ writer.item.cmd = Start
                  THEN [on |-> TRUE, conn |-> writer.item.conn, late |-> writer.item.late]
                  ELSE streaming
  /\ UNCHANGED <<traffic, generation, configured, link, event, queues, reader, sender, history>>

Pending(cmd) == \E n \in DOMAIN replies : /\ replies[n].generation = generation
                                          /\ replies[n].item.cmd = cmd

\* submit_vendor_report stamps the reply with the generation of now.  A reply of the last
\* connection stamped so stands for this connection's.
Submit ==
  /\ writer.pc = "submit" /\ writer' = Idle
  /\ replies' = IF Pending(writer.item.cmd) \/ Len(replies) >= QueueLimit THEN replies
                ELSE Append(replies, [item |-> writer.item, generation |-> generation])
  /\ gaveUp' = (gaveUp \/ \E n \in DOMAIN replies : replies[n].item.conn # writer.item.conn)
  /\ UNCHANGED <<traffic, generation, configured, link, event, outQueue, reports, streaming,
                 reader, sender, received, written, lastReport>>

\* submit_input_report
SubmitReport ==
  /\ traffic = "input" /\ configured /\ lastReport < MaxReports
  /\ lastReport' = lastReport + 1
  /\ reports' = Append(Room(reports, QueueLimit),
                       [item |-> [id |-> lastReport + 1, cmd |-> "report",
                                  conn |-> generation, late |-> FALSE],
                        generation |-> generation])
  /\ UNCHANGED <<traffic, generation, configured, link, event, outQueue, replies, streaming,
                 reader, writer, sender, received, written, gaveUp>>

Writer == Poll \/ Answer \/ Submit \/ SubmitReport

-----------------------------------------------------------------------------
(* The workers of the IN endpoints.                                        *)

\* vendor_in_loop leaves the reply at the front until it is written.
TakeReply ==
  /\ sender = Idle /\ replies # <<>>
  /\ sender' = [pc |-> "attempt", item |-> Head(replies).item,
                generation |-> Head(replies).generation, attempts |-> 0]
  /\ UNCHANGED <<traffic, generation, configured, link, event, queues, streaming, reader, writer,
                 history>>

\* hid_in_loop takes the newest report and forgets the others.
TakeReport ==
  /\ sender = Idle /\ reports # <<>>
  /\ sender' = [pc |-> "attempt", item |-> reports[Len(reports)].item,
                generation |-> reports[Len(reports)].generation, attempts |-> 0]
  /\ reports' = <<>>
  /\ UNCHANGED <<traffic, generation, configured, link, event, outQueue, replies, streaming,
                 reader, writer, history>>

\* The tests before a write.
Attempt ==
  /\ sender.pc = "attempt"
  /\ sender' = [sender EXCEPT !.pc = IF link /\ sender.generation = generation
                                      THEN "write" ELSE "remove"]
  /\ gaveUp' = (gaveUp \/ ~link)
  /\ UNCHANGED <<traffic, generation, configured, link, event, queues, streaming, reader, writer,
                 received, written, lastReport>>

\* The write completes when the console fetches it; it fails when the endpoint closes or,
\* for some attempts of a reply, while the controller is busy (EAGAIN).
Write ==
  /\ sender.pc = "write"
  /\ \/ /\ link /\ configured
        /\ written' = Append(written,
             [id |-> sender.item.id, cmd |-> sender.item.cmd, conn |-> sender.item.conn,
              late |-> sender.item.late, on |-> generation])
        /\ sender' = [sender EXCEPT !.pc = "remove"] /\ UNCHANGED gaveUp
     \/ /\ link /\ traffic = "vendor"
        /\ IF sender.attempts + 1 < MaxAttempts
           THEN /\ sender' = [sender EXCEPT !.pc = "attempt", !.attempts = @ + 1]
                /\ UNCHANGED gaveUp
           ELSE sender' = [sender EXCEPT !.pc = "remove"] /\ gaveUp' = TRUE
        /\ UNCHANGED written
     \/ /\ ~link /\ sender' = [sender EXCEPT !.pc = "remove"]
        /\ gaveUp' = TRUE /\ UNCHANGED written
  /\ UNCHANGED <<traffic, generation, configured, link, event, queues, streaming, reader, writer,
                 received, lastReport>>

\* Seeded fault: what is at the front goes, whatever was sent.
RemoveFront ==
  /\ sender.pc = "remove" /\ sender' = Idle
  /\ replies' = IF replies # <<>> THEN Tail(replies) ELSE replies
  /\ UNCHANGED <<traffic, generation, configured, link, event, outQueue, reports, streaming,
                 reader, writer, history>>

\* remove_pending_response: only if the front is what was sent.  A reply of the last
\* connection that was queued after the generation changed looks like the reply to the same
\* command of this connection, which it then takes along.
RemovePending ==
  /\ sender.pc = "remove" /\ sender' = Idle
  /\ IF /\ replies # <<>>
        /\ Head(replies).generation = sender.generation
        /\ Head(replies).item.cmd = sender.item.cmd
     THEN /\ replies' = Tail(replies)
          /\ gaveUp' = (gaveUp \/ Head(replies).item.conn # sender.item.conn)
     ELSE UNCHANGED <<replies, gaveUp>>
  /\ UNCHANGED <<traffic, generation, configured, link, event, outQueue, reports, streaming,
                 reader, writer, received, written, lastReport>>

Sender == TakeReply \/ TakeReport \/ Attempt \/ Write \/ RemovePending

Next == EventThread \/ Reader \/ Writer \/ Sender
Spec == Init /\ [][Next]_vars

\* Threads run on; the console configures and resets as it likes, and need not send.
Fairness ==
  /\ WF_vars(DisableEndpoints \/ ClearQueues \/ ResetPort \/ CloseOpenEndpoints
               \/ EnableEndpoints)
  /\ WF_vars(BeginRead \/ CheckRead \/ Push)
  /\ WF_vars(Poll \/ Answer \/ Submit)
  /\ WF_vars(Sender)
FairSpec == Spec /\ Fairness

-----------------------------------------------------------------------------
(* Properties.                                                             *)

\* What reaches the console on a connection was asked, or reported, on that connection,
\* except the one item the writer or a worker had in hand when the connection ended:
\* the queues carry nothing over.
OnlyInHandCrosses ==
  \A n \in DOMAIN written : written[n].conn # written[n].on => written[n].late

\* The port streams because this connection asked for it, with the same exception.
StreamingAskedFor ==
  streaming.on /\ event \in {"idle", "enable"}
    => streaming.conn = generation \/ streaming.late

\* Every reply that is written answers a transfer of the console, none is answered twice,
\* and they are answered in the order in which they came: retries, full queues and replies
\* that are sent again included.
Ordered == \A m, n \in DOMAIN written : m < n => written[m].id < written[n].id

AnsweredOnce ==
  traffic = "vendor" =>
    /\ \A n \in DOMAIN written :
         /\ written[n].id \in DOMAIN received
         /\ received[written[n].id].cmd = written[n].cmd
    /\ Ordered

\* What is written of the input stream never goes back to an older report.
ReportsInOrder == traffic = "input" => Ordered

\* A command that waits for the writer is answered, unless the connection ends first, a
\* reply met a closed endpoint or one busy for all the attempts, or a reply of the last connection took the
\* answer's place or took it along.
Waiting(cmd) == traffic = "vendor"
  /\ \E n \in DOMAIN outQueue : outQueue[n].cmd = cmd /\ outQueue[n].generation = generation
Answered(cmd) == \E n \in DOMAIN written : written[n].cmd = cmd /\ written[n].on = generation
CommandsAnswered == \A cmd \in Commands :
  Waiting(cmd) ~> (Answered(cmd) \/ gaveUp \/ ~link \/ event # "idle")
=============================================================================
