---------------------------- MODULE MacroUpload ----------------------------
(***************************************************************************)
(* A macro's way from one client to the server: the upload, in one         *)
(* datagram or in chunks (client/src/macro_client.cpp), the slot in which  *)
(* the server assembles it, its text turned into steps                     *)
(* (shared/src/macros.cpp) and their playback (server/src/app_state.cpp).  *)
(*                                                                         *)
(* A text is a sequence of commands and a chunk carries one command; the   *)
(* number of chunks stands for the length too, which the code compares in  *)
(* the same place.  Datagrams are lost, reordered and delivered again; a   *)
(* refused session (no port left) looks like a lost datagram.  The client  *)
(* program can be started anew, and its upload numbers with it, and the    *)
(* server's session can end while an upload is half done.                  *)
(***************************************************************************)
EXTENDS Integers, FiniteSets, SequencesExt

CONSTANTS
  Texts,       \* the macros of the user's files
  MaxSteps,    \* MAX_EXPANDED_STEPS
  Grace,       \* the 120 ms for which an ended macro keeps its pad
  MaxRuns,     \* bound: runs of the client program
  MaxUploads,  \* bound: uploads
  MaxInFlight, \* bound: datagrams on the way
  MaxAgain     \* bound: datagrams delivered again

VARIABLES
  uploader, \* the client: its run, g_macro_udp_seq and the uploads it made
  net,      \* datagrams on the way
  session,  \* ClientSession.active
  upload,   \* server_macro_uploads[client]
  macro,    \* server_macros[client][0]
  started,  \* history: the uploads that became a macro
  again     \* datagrams delivered again

vars == <<uploader, net, session, upload, macro, started, again>>

(***************************************************************************)
(* Texts and steps.                                                        *)
(***************************************************************************)
IsLoop(c) == c.input = "LOOP"

\* A block of commands, n times over.
Times(block, n) ==
  LET times[k \in 0..n] == IF k = 0 THEN <<>> ELSE times[k - 1] \o block
  IN times[n]

\* One command of validate_text: a LOOP repeats what follows the previous one.
Expand(parse, c) ==
  LET block == SubSeq(parse.steps, parse.start + 1, Len(parse.steps))
      Fits == c.n <= 1 \/ Len(block) <= (MaxSteps - Len(parse.steps)) \div (c.n - 1)
      copies == IF c.n > 1 THEN Times(block, c.n - 1) ELSE <<>>
  IN IF IsLoop(c)
     THEN IF block # <<>> /\ Fits
          THEN [parse EXCEPT !.steps = @ \o copies, !.start = Len(parse.steps \o copies)]
          ELSE [parse EXCEPT !.ok = FALSE]
     ELSE IF Len(parse.steps) + 1 <= MaxSteps
          THEN [parse EXCEPT !.steps = Append(@, c)]
          ELSE [parse EXCEPT !.ok = FALSE]

Parse(text) ==
  LET parse[k \in 0..Len(text)] ==
        IF k = 0 THEN [steps |-> <<>>, start |-> 0, ok |-> TRUE]
        ELSE Expand(parse[k - 1], text[k])
  IN parse[Len(text)]

\* validate_text.
Valid(text) == Parse(text).ok /\ Parse(text).steps # <<>>

TotalMs(steps) == FoldLeft(LAMBDA t, s : t + s.n, 0, steps)

\* step_at finds no step at this time.
Over(steps, at) == at >= TotalMs(steps)

(***************************************************************************)
(* The client.                                                             *)
(***************************************************************************)
\* next_macro_upload_id.
NextId == uploader.seq + 1

Datagram(kind, text, index) ==
  [kind |-> kind, id |-> NextId, index |-> index, count |-> Len(text),
   part |-> text[index], of |-> [run |-> uploader.run, id |-> NextId, text |-> text]]

\* send_udp_upload_packet: the macro was validated before; every datagram takes
\* a number, and the first number of a chunked upload is its id.
Upload(text) ==
  /\ Valid(text) /\ uploader.uploads < MaxUploads
  /\ LET kind == IF Len(text) = 1 THEN "whole" ELSE "chunk"
         packets == {Datagram(kind, text, i) : i \in 1..Len(text)}
     IN /\ Cardinality(net \union packets) <= MaxInFlight
        /\ net' = net \union packets
        /\ uploader' = [uploader EXCEPT !.uploads = @ + 1,
             !.seq = @ + (IF kind = "whole" THEN 1 ELSE 1 + Len(text))]
  /\ UNCHANGED <<session, upload, macro, started, again>>

\* The client program is closed and opened again: g_macro_udp_seq starts at 0.
Restart ==
  /\ uploader.run < MaxRuns
  /\ uploader' = [uploader EXCEPT !.run = @ + 1, !.seq = 0]
  /\ UNCHANGED <<net, session, upload, macro, started, again>>

Lose ==
  /\ \E d \in net : net' = net \ {d}
  /\ UNCHANGED <<uploader, session, upload, macro, started, again>>

(***************************************************************************)
(* The server.                                                             *)
(***************************************************************************)
NoUpload == [active |-> FALSE, id |-> 0, count |-> 0, got |-> <<>>]

NoMacro == [steps |-> <<>>, running |-> FALSE, at |-> 0, text |-> <<>>, parts |-> {}, repeated |-> FALSE]

\* server_macro_client_for_sender: the sender's session, or a new one, which
\* stops the macros of its slot.
Admitted == IF session THEN macro ELSE [macro EXCEPT !.running = FALSE]

\* server_macro_start.
Start(text, parts) ==
  IF Valid(text)
  THEN /\ macro' = [steps |-> Parse(text).steps, running |-> TRUE, at |-> 0,
                    text |-> text, parts |-> parts, repeated |-> parts \subseteq started]
       /\ started' = IF Cardinality(parts) = 1 THEN started \union parts ELSE started
  ELSE macro' = Admitted /\ UNCHANGED started

\* A bug the checks must find: the slot is kept for any chunk that fits.
SlotForAny(d) ==
  IF upload.active /\ upload.count = d.count THEN upload
  ELSE [active |-> TRUE, id |-> d.id, count |-> d.count, got |-> <<>>]

\* The slot this chunk belongs to: a chunk of another upload takes it over.
SlotFor(d) ==
  IF upload.active /\ upload.id = d.id THEN upload
  ELSE [active |-> TRUE, id |-> d.id, count |-> d.count, got |-> <<>>]

\* The slot a finished upload leaves.
Emptied(slot) == NoUpload

\* handle_macro_chunk.
HandleChunk(d) ==
  LET slot == SlotFor(d)
      got == IF d.index \in DOMAIN slot.got THEN slot.got
             ELSE [i \in DOMAIN slot.got \union {d.index} |-> IF i = d.index THEN d ELSE slot.got[i]]
  IN CASE slot.count # d.count ->
            upload' = slot /\ macro' = Admitted /\ UNCHANGED started
       [] slot.count = d.count /\ DOMAIN got = 1..slot.count ->
            /\ upload' = Emptied([slot EXCEPT !.got = got])
            /\ Start([i \in 1..slot.count |-> got[i].part], {got[i].of : i \in 1..slot.count})
       [] OTHER ->
            upload' = [slot EXCEPT !.got = got] /\ macro' = Admitted /\ UNCHANGED started

\* The UDP thread takes a datagram: server_macro_handle_chunk_packet, or the
\* macro text packet of main.cpp.
Receive == \E d \in net, twice \in BOOLEAN :
  /\ twice => again < MaxAgain
  /\ again' = IF twice THEN again + 1 ELSE again
  /\ net' = IF twice THEN net ELSE net \ {d}
  /\ session' = TRUE
  /\ IF d.kind = "whole"
     THEN Start(<<d.part>>, {d.of}) /\ UNCHANGED upload
     ELSE HandleChunk(d)
  /\ UNCHANGED uploader

\* What server_macro_running finds, and leaves.
Checked == IF macro.at > TotalMs(macro.steps) + Grace THEN [macro EXCEPT !.running = FALSE] ELSE macro

\* The writer asks server_macro_running about every pad of every session.
Check ==
  /\ macro.running /\ macro' = Checked
  /\ UNCHANGED <<uploader, net, session, upload, started, again>>

\* server_macro_apply: the writer plays the macro on the port of its pad.
Apply ==
  /\ macro.running /\ Over(macro.steps, macro.at)
  /\ macro' = [macro EXCEPT !.running = FALSE]
  /\ UNCHANGED <<uploader, net, session, upload, started, again>>

Tick ==
  /\ macro.running /\ macro.at <= TotalMs(macro.steps) + Grace
  /\ macro' = [macro EXCEPT !.at = @ + 1]
  /\ UNCHANGED <<uploader, net, session, upload, started, again>>

\* The writer ends a silent session, unless a macro of it is running.
Reap ==
  /\ session /\ ~Checked.running
  /\ session' = FALSE /\ macro' = Checked
  /\ UNCHANGED <<uploader, net, upload, started, again>>

\* reset_client_session: the client leaves, or the console went to sleep.
Reset ==
  /\ session
  /\ session' = FALSE /\ macro' = [macro EXCEPT !.running = FALSE]
  /\ UNCHANGED <<uploader, net, upload, started, again>>

Init ==
  /\ uploader = [run |-> 1, seq |-> 0, uploads |-> 0]
  /\ net = {} /\ session = FALSE /\ upload = NoUpload /\ macro = NoMacro
  /\ started = {} /\ again = 0

Next ==
  \/ \E text \in Texts : Upload(text)
  \/ Restart \/ Lose \/ Receive \/ Check \/ Apply \/ Tick \/ Reap \/ Reset

Spec == Init /\ [][Next]_vars

\* The writer's poll comes round, and time passes.
Fairness == WF_vars(Check) /\ WF_vars(Tick)
FairSpec == Spec /\ Fairness

(***************************************************************************)
(* Properties.                                                             *)
(***************************************************************************)
\* A macro is never made of two uploads of one run of the client, and one
\* made of a single upload is the text that was sent, whatever the order in
\* which its chunks came and how often (handle_macro_chunk).
OneUpload ==
  /\ \A p, q \in macro.parts : p.run = q.run => p = q
  /\ \A p \in macro.parts : macro.parts = {p} => macro.text = p.text

\* What started a macro starts it again only if every one of its datagrams was
\* delivered again: a chunk that comes twice opens a slot, which others must fill.
StartedOnce == macro.repeated /\ Cardinality(macro.parts) = 1 => Len(macro.text) <= again

\* Each command once, and every block that a LOOP n closes max(1, n) times.
Unrolled(text) ==
  LET Loop(k) == k > 0 => IsLoop(text[k])
      \* The last loop before a command, or 0.
      Behind(k) == CHOOSE l \in 0..(k - 1) : Loop(l) /\ \A m \in (l + 1)..(k - 1) : ~Loop(m)
      Block(k) == SubSeq(text, Behind(k) + 1, k - 1)
      upto[k \in 0..Len(text)] ==
        IF k = 0 THEN <<>>
        ELSE IF Loop(k) THEN upto[Behind(k)] \o Times(Block(k), IF text[k].n > 1 THEN text[k].n ELSE 1)
        ELSE Append(upto[k - 1], text[k])
  IN upto[Len(text)]

\* What plays is the text with its loops unrolled, within the limit of steps
\* (the division in validate_text stands for a product that could overflow).
Played == macro.steps = Unrolled(macro.text) /\ Len(macro.steps) <= MaxSteps

\* Macros are whole, play once per upload and play what was written.
MacroInv == OneUpload /\ StartedOnce /\ Played

\* A macro ends, also when its pad has no port to play it on: the session it
\* keeps alive can be reaped (server_macro_running).
MacroEnds == macro.running ~> ~macro.running
=============================================================================
