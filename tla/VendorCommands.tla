--------------------------- MODULE VendorCommands ---------------------------
(***************************************************************************)
(* The vendor channel of the native Switch 2 port: the assembler that puts *)
(* commands together from bulk fragments (server/include/s2_vendor_rx.hpp) *)
(* and what a command does to the port (server/src/switch2_native.cpp).    *)
(* Bytes come in units: a header has HeadSize of them, a command at most       *)
(* MaxCommand, a fragment at most Packet.                                  *)
(*                                                                         *)
(* synced, due, missed, asked and told are history: console and assembler  *)
(* agree on where a command begins; the commands sent since, until they    *)
(* are dispatched, and whether one was not; the features asked for, and    *)
(* whether the console set the mask itself, on this connection.            *)
(***************************************************************************)
EXTENDS Naturals, Sequences, SequencesExt

CONSTANTS HeadSize, MaxCommand, Packet,
  MaxSent,   \* bound: commands the console sends
  MaxBreaks  \* bound: commands it gives up, pauses, resets, other pads, restarts of the server

VARIABLES
  wire,     \* what the console still has to send
  bytes,    \* bytes_ up to length_
  expected, \* expected_
  discard,  \* discard_remaining_
  fresh,    \* the next fragment resets: another generation, or more than a second has passed
  queue,    \* vendor_out_reports
  port,     \* NativeState: streaming, feature_mask, enabled_features
  pid,      \* the identity in the factory block
  cal,      \* user_motion_cal
  disk,     \* the calibration file and the temporary one
  restart,  \* request_switch2_reenumeration was called
  synced, due, missed, asked, told, sent, breaks

assembler == <<bytes, expected, discard, fresh>>
stream == <<wire, assembler, synced, due, missed, sent>>
native == <<port, pid, restart, asked, told>>
flash == <<cal, disk>>
vars == <<stream, queue, native, flash, breaks>>

\* What the console sends; "bad" has another second byte, "over" declares too much.
Sizes == [start |-> HeadSize + 1, short |-> HeadSize, mask |-> HeadSize + 1,
          enable |-> HeadSize + 1, write |-> MaxCommand, over |-> MaxCommand + 1, bad |-> HeadSize + 1]
Commands == DOMAIN Sizes
Units(c) == [i \in 1..Sizes[c] |-> <<c, i>>]

NewPort == [streaming |-> FALSE, mask |-> {"imu"}, enabled |-> {}]

Init ==
  /\ wire = <<>> /\ bytes = <<>> /\ expected = 0 /\ discard = 0 /\ fresh = TRUE /\ queue = <<>>
  /\ port = NewPort /\ pid = "pro" /\ cal = "erased" /\ disk = [main |-> "none", tmp |-> "none"]
  /\ restart = FALSE /\ synced = TRUE /\ due = <<>> /\ missed = FALSE /\ asked = {} /\ told = FALSE
  /\ sent = 0 /\ breaks = 0

Break == breaks < MaxBreaks /\ breaks' = breaks + 1

-----------------------------------------------------------------------------
(* The console's side of the pipe.                                         *)

Send ==
  /\ sent < MaxSent /\ sent' = sent + 1 /\ Len(wire) < HeadSize
  /\ \E c \in Commands :
       /\ wire' = wire \o Units(c)
       /\ due' = IF c \in {"over", "bad"} THEN due ELSE Append(due, c)
       /\ synced' = (synced /\ c # "bad")
  /\ UNCHANGED <<assembler, missed, queue, native, flash, breaks>>

\* It gives a command up, and waits before it starts another, or not.
GiveUp ==
  /\ wire # <<>> /\ Break /\ wire' = <<>> /\ due' = <<>>
  /\ fresh' \in {fresh, TRUE} /\ synced' = fresh'
  /\ UNCHANGED <<bytes, expected, discard, missed, sent, queue, native, flash>>

\* More than a second between two fragments; within a command it tears it apart.
Pause ==
  /\ ~fresh /\ Break /\ fresh' = (bytes # <<>> \/ discard # 0)
  /\ due' = IF wire = <<>> THEN <<>> ELSE due
  /\ synced' = (wire = <<>> \/ (synced /\ ~fresh'))
  /\ UNCHANGED <<wire, bytes, expected, discard, missed, sent, queue, native, flash>>

-----------------------------------------------------------------------------
(* S2VendorCommandAssembler::feed, unit after unit.                        *)

Nothing == [bytes |-> <<>>, expected |-> 0, discard |-> 0, out |-> <<>>]

\* A bug the checks must find: of a command that is too long only the header goes.
SkippedNothing(total) == 0

Skipped(total) == total - HeadSize

\* A header is complete.  With another second byte, or too much to come, it is dropped.
Announced(a, good, total) ==
  IF good /\ total <= MaxCommand THEN [a EXCEPT !.expected = total]
  ELSE [a EXCEPT !.bytes = <<>>, !.discard = IF good THEN Skipped(total) ELSE 0]

\* What a header says; bytes from the middle of a command may say anything.
Headers(b) ==
  IF \E c \in Commands : b = SubSeq(Units(c), 1, HeadSize)
  THEN {<<b[1][1] # "bad", Sizes[b[1][1]]>>}
  ELSE {<<TRUE, HeadSize>>, <<TRUE, MaxCommand>>, <<TRUE, MaxCommand + 1>>, <<FALSE, HeadSize>>}

Whole(b) == IF \E c \in Commands : b = Units(c) THEN b[1][1] ELSE "garbage"

Dispatch(a) ==
  IF a.expected # 0 /\ Len(a.bytes) = a.expected
  THEN [Nothing EXCEPT !.out = Append(a.out, Whole(a.bytes))] ELSE a

FeedUnit(a, u) ==
  IF a.discard # 0 THEN {[a EXCEPT !.discard = @ - 1]}
  ELSE LET b == [a EXCEPT !.bytes = Append(@, u)] IN
       IF b.expected # 0 \/ Len(b.bytes) < HeadSize THEN {Dispatch(b)}
       ELSE {Dispatch(Announced(b, h[1], h[2])) : h \in Headers(b.bytes)}

Start ==
  IF fresh THEN Nothing
  ELSE [bytes |-> bytes, expected |-> expected, discard |-> discard, out |-> <<>>]

\* What the assembler may be after the first n units.
Fed(n) ==
  LET after[k \in 0..n] ==
        IF k = 0 THEN {Start} ELSE UNION {FeedUnit(a, wire[k]) : a \in after[k - 1]}
  IN after[n]

\* Commands wait in the queue of GadgetQueues; here the writer takes them, and has saved,
\* before the next fragment.
Feed ==
  /\ wire # <<>> /\ queue = <<>> /\ disk.tmp = "none"
  /\ \E n \in 1..(IF Len(wire) < Packet THEN Len(wire) ELSE Packet) :
     \E a \in Fed(n) :
       /\ wire' = SubSeq(wire, n + 1, Len(wire))
       /\ bytes' = a.bytes /\ expected' = a.expected /\ discard' = a.discard /\ fresh' = FALSE
       /\ queue' = a.out
       /\ IF synced
          THEN /\ missed' = (missed \/ ~IsPrefix(a.out, due) \/ (wire' = <<>> /\ a.out # due))
               /\ due' = IF IsPrefix(a.out, due) THEN SubSeq(due, Len(a.out) + 1, Len(due)) ELSE <<>>
          ELSE UNCHANGED <<missed, due>>
  /\ UNCHANGED <<synced, sent, native, flash, breaks>>

-----------------------------------------------------------------------------
(* switch2_native_handle_vendor_command.                                   *)

Features == {"imu", "mouse"}

\* A start without a report, or with an unknown one, asks for a new connection instead.
\* set_feature_state: enabling is limited by the mask, setting the mask disables nothing.
Handled(c) ==
  [streaming |-> port.streaming \/ c = "start",
   mask |-> IF c = "mask" THEN Features ELSE port.mask,
   enabled |-> IF c = "enable" THEN port.enabled \union port.mask ELSE port.enabled]

Target == "tmp"

Take ==
  /\ queue # <<>> /\ queue' = Tail(queue) /\ disk.tmp = "none"
  /\ \E c \in IF queue[1] = "garbage" THEN Commands ELSE {queue[1]} :
       /\ port' = Handled(c) /\ restart' = (restart \/ c = "short")
       /\ told' = (told \/ c = "mask") /\ asked' = IF c = "enable" THEN asked \union port.mask ELSE asked
       /\ IF c = "write" /\ cal = "erased"
          THEN cal' = "record" /\ disk' = [disk EXCEPT ![Target] = "partial"]
          ELSE UNCHANGED flash
  /\ UNCHANGED <<stream, pid, breaks>>

\* save_user_motion_calibration: the temporary file is complete, and renamed; or either fails.
SaveWrite ==
  /\ disk.tmp = "partial"
  /\ \/ disk' = [disk EXCEPT !.tmp = cal]
     \/ disk' = [disk EXCEPT !.tmp = "none"]
  /\ UNCHANGED <<stream, queue, native, cal, breaks>>

SaveRename ==
  /\ disk.tmp = "record"
  /\ disk' \in {[main |-> disk.tmp, tmp |-> "none"], [disk EXCEPT !.tmp = "none"]}
  /\ UNCHANGED <<stream, queue, native, cal, breaks>>

-----------------------------------------------------------------------------
(* What else changes the port.                                             *)

\* switch2_native_set_port_pid, when the pad of the port is another one.
SetPid ==
  /\ Break /\ pid' \in {"pro", "joycon"} \ {pid}
  /\ port' = [port EXCEPT !.mask = IF pid' = "joycon" THEN @ \union {"mouse"} ELSE @ \ {"mouse"},
                          !.enabled = IF pid' = "joycon" THEN @ ELSE @ \ {"mouse"}]
  /\ UNCHANGED <<stream, queue, restart, asked, told, flash>>

Reset == NewPort

\* reset_connection_state: another generation, empty queues, switch2_native_reset_port.
Reconnect ==
  /\ Break /\ fresh' = TRUE /\ wire' = <<>> /\ due' = <<>> /\ synced' = TRUE
  /\ queue' = <<>> /\ port' = Reset /\ restart' = FALSE /\ asked' = {} /\ told' = FALSE
  /\ UNCHANGED <<bytes, expected, discard, missed, sent, pid, flash>>

\* A new process loads the calibration; a truncated file is as good as none.
Restarted ==
  /\ Break /\ wire' = <<>> /\ bytes' = <<>> /\ expected' = 0 /\ discard' = 0 /\ fresh' = TRUE
  /\ synced' = TRUE /\ due' = <<>> /\ queue' = <<>> /\ port' = NewPort /\ pid' = "pro"
  /\ restart' = FALSE /\ asked' = {} /\ told' = FALSE
  /\ cal' = IF disk.main = "record" THEN "record" ELSE "erased"
  /\ disk' = [disk EXCEPT !.tmp = "none"]
  /\ UNCHANGED <<missed, sent>>

Next == \/ Send \/ GiveUp \/ Pause \/ Feed \/ Take \/ SaveWrite \/ SaveRename
        \/ SetPid \/ Reconnect \/ Restarted
Spec == Init /\ [][Next]_vars

-----------------------------------------------------------------------------
(* Properties.                                                             *)

\* From a new connection or a pause on, the commands dispatched are those the console sent,
\* whole, in order, each once, however they were cut into fragments: none is lost to a
\* command that was given up or too long.
InStep == ~missed

\* The assembler never holds more than its buffer.
Fits == Len(bytes) < MaxCommand /\ expected <= MaxCommand /\ (expected = 0 => Len(bytes) < HeadSize)

\* A feature is on because the console asked for it on this connection.
FeaturesAsked == port.enabled \subseteq asked

\* Whatever fails, and whenever the process dies, the calibration file is a whole record.
FileIsWhole == disk.main \in {"none", "record"}

\* The four together.
VendorInv == InStep /\ Fits /\ FeaturesAsked /\ FileIsWhole

\* "Keep it in the default mask so the console can enable bit 0x10 even if it does not send
\* an explicit full-mask command first" (switch2_native.cpp, switch2_native_set_port_pid).  It does not hold, and
\* no run checks it.
MouseInDefaultMask == pid = "joycon" /\ ~told => "mouse" \in port.mask
=============================================================================
