-------------------------------- MODULE Nfc --------------------------------
(***************************************************************************)
(* The amiibo of one native Switch 2 port: the tag that server/src/        *)
(* s2_nfc_codec.cpp emulates (an NTAG215 or a figure-v3 tag), what the      *)
(* console's NFC commands do to it, and its image in the library           *)
(* (server/src/virtual_controller.cpp, amiibo_library.cpp).  The writer of  *)
(* the port answers the console; the thread that receives from the client  *)
(* presents tags.                                                          *)
(*                                                                         *)
(* A write travels in Chunks.  A staged chunk is "new", or "old" once the  *)
(* console has begun another write.  Of an image the model keeps whether a  *)
(* commit tore it; of a file, whose image it holds.  unsaved is history: a  *)
(* change was committed and has not been stored.                            *)
(***************************************************************************)
EXTENDS Naturals

CONSTANTS Ntags, V3s,  \* amiibo in the library, by kind
  Dump,                \* a dump a client uploads, of an NTAG215
  Chunks,              \* 1 holds the header
  None,                \* nothing there
  MaxTags, MaxFaults   \* bounds: tags presented, failed saves

VARIABLES
  tag,        \* S2NfcRuntime
  save,       \* what the writer has copied out and not yet stored
  hand,       \* what the client's thread has read and not yet presented
  lib,        \* the files of the library
  selected,   \* g_selected_ids
  recent,     \* g_recent_read_uid
  unsaved, tags, faults

files == <<lib, selected>>
counts == <<tags, faults>>
vars == <<tag, save, hand, files, recent, unsaved, counts>>

Tags == Ntags \cup V3s
Kind(t) == IF t \in V3s THEN "v3" ELSE "ntag"
Empty == [c \in Chunks |-> None]

\* Ntag215Runtime and AmiiboV3Runtime as init leaves them.
Fresh(k, t) ==
  [kind |-> k, id |-> t, torn |-> FALSE, modified |-> FALSE, status |-> "scan", op |-> FALSE,
   read |-> FALSE, defer |-> FALSE, command |-> FALSE, mode |-> None, phase |-> "idle",
   stage |-> Empty, committed |-> FALSE, persisted |-> TRUE, waiting |-> FALSE, ejected |-> FALSE]

NoTag == Fresh(None, None)
Placed(r) == r.kind # None /\ ~r.ejected

Init ==
  /\ tag = NoTag /\ save = None /\ hand = None
  /\ lib = [t \in Tags |-> None] /\ selected = None
  /\ recent = None /\ unsaved = FALSE /\ tags = 0 /\ faults = 0

-----------------------------------------------------------------------------
(* What one command does to the tag.  What does not change is left out.     *)

Refused(r) == [r EXCEPT !.status = "gone"]
Ejected(r) == [r EXCEPT !.ejected = TRUE, !.committed = FALSE, !.status = "gone"]
Unstaged(r) == [r EXCEPT !.stage = Empty]

\* The five seconds passed in which the update after a clear was awaited.
Lapsed(r) ==
  LET q == [r EXCEPT !.phase = IF @ = "await" THEN "idle" ELSE @] IN
  IF q = r \/ r.op \/ r.ejected THEN q ELSE Ejected(q)

\* A bug the checks must find: a scan brings back the tag that was taken away.
ScannedBack(r) == [r EXCEPT !.op = FALSE, !.read = FALSE, !.mode = None, !.ejected = FALSE, !.status = "scan"]

Scanned(r) ==
  LET q == IF r.phase = "await" THEN Ejected([r EXCEPT !.phase = "idle"]) ELSE r
      p == [(IF q.mode = None THEN q ELSE Unstaged(q)) EXCEPT !.op = FALSE, !.read = FALSE, !.mode = None]
  IN IF q.committed \/ (q.kind = "v3" /\ q.ejected) THEN p ELSE [p EXCEPT !.status = "scan"]

\* A bug the checks must find: a tag is taken away before what was written is saved.
GoneUnsaved(r) == Ejected(r)

Gone(r) == IF r.persisted THEN Ejected(r) ELSE [r EXCEPT !.waiting = TRUE]

Left(r) ==
  LET q == [r EXCEPT !.op = FALSE, !.command = FALSE, !.mode = None, !.read = FALSE]
      removed(e) == [q EXCEPT !.ejected = e, !.status = IF e THEN "gone" ELSE "scan"] IN
  IF r.committed /\ r.phase = "await" THEN [q EXCEPT !.committed = FALSE, !.ejected = FALSE, !.status = "scan"]
  ELSE IF r.committed THEN Gone(q)
  ELSE IF r.read THEN removed(~r.defer)
  ELSE removed(r.ejected)

\* A descriptor for any tag ("read"), for this one ("write"), for another, or a malformed one.
Begun(r, d) ==
  IF r.kind = "ntag" THEN
    IF d = "malformed" \/ r.ejected THEN Refused([r EXCEPT !.mode = None])
    ELSE IF d = "other" THEN Refused([r EXCEPT !.op = FALSE])
    ELSE [r EXCEPT !.mode = IF d = "write" THEN d ELSE None, !.read = FALSE, !.status = "active",
                   !.op = TRUE, !.committed = FALSE]
  ELSE IF d \in {"read", "write"} /\ ~r.ejected
  THEN [r EXCEPT !.op = TRUE, !.read = FALSE, !.status = "active", !.committed = FALSE, !.mode = None]
  ELSE Refused([r EXCEPT !.op = FALSE])

SectorRead(r, good) ==
  IF good /\ ~r.ejected
  THEN [r EXCEPT !.op = TRUE, !.read = FALSE, !.status = "sector", !.mode = None]
  ELSE Refused([r EXCEPT !.op = FALSE])

FetchedLast(r) == IF r.op /\ ~(r.kind = "ntag" /\ r.mode = "write") THEN [r EXCEPT !.read = TRUE] ELSE r

NtagStaged(r, c) ==
  IF r.ejected \/ ~r.op THEN r
  ELSE LET q == IF r.mode = None THEN Unstaged([r EXCEPT !.mode = "write", !.read = FALSE]) ELSE r
       IN [q EXCEPT !.stage[c] = "new"]

\* What a staged chunk starts, by its first bytes (is_v3_write_start,
\* v3_extended_expected_size).
Heads == {"write", "clear", "update", None}

\* A write starts with no chunk staged.
Opened(r, head) ==
  Unstaged([r EXCEPT !.mode = head, !.committed = IF head = "write" THEN FALSE ELSE @])

\* head is what chunk 1 starts: a write, a clear, an update or none of them.
V3Staged(r, c, head) ==
  LET device == r.mode = None /\ c = 1 /\ r.op /\ r.status = "device" /\ r.read /\ head = "write"
      again == ~r.op /\ r.committed /\ r.status = "written" /\ c = 1 /\ head \in {"clear", "update"}
      q == IF device THEN [r EXCEPT !.status = "active"]
           ELSE IF again THEN [r EXCEPT !.op = TRUE, !.status = "active", !.committed = FALSE] ELSE r
      opens == q.mode = None /\ c = 1 /\ q.op /\ q.status = "active" /\ head # None
      p == IF opens THEN Opened(q, head) ELSE q
  IN IF r.ejected THEN Refused(r)
     ELSE IF p.op /\ p.mode # None /\ p.status = "active" THEN [p EXCEPT !.stage[c] = "new"]
     ELSE Refused(p)

Covered(r) == \A c \in Chunks : r.stage[c] # None
Applied(r) == [r EXCEPT !.torn = \E c, d \in Chunks : r.stage[c] # r.stage[d]]

\* apply_write_staging, apply_v3_write_staging: good is that envelope and records are well formed.
Committed(r, good) ==
  IF /\ r.mode = "write" /\ r.op /\ good /\ Covered(r)
     /\ r.kind = "v3" => ~r.ejected /\ r.status = "active"
  THEN [Applied(r) EXCEPT !.status = "written", !.committed = TRUE, !.persisted = FALSE,
                                  !.waiting = FALSE, !.op = FALSE, !.mode = None]
  ELSE Refused(r)

SectorCommitted(r, good) ==
  IF /\ r.mode \in {"clear", "update"} /\ r.op /\ r.status = "active" /\ ~r.ejected
     /\ good /\ Covered(r)
  THEN [Applied(r) EXCEPT !.status = "extended", !.op = FALSE, !.mode = None, !.committed = FALSE,
          !.phase = IF r.mode = "clear" THEN "await" ELSE "done"]
  ELSE Refused(r)

DeviceRun(r) == IF r.command THEN [r EXCEPT !.op = TRUE, !.status = "device", !.command = FALSE] ELSE r

-----------------------------------------------------------------------------
(* fill_nfc_response_payload: the tag's step and what follows from it, all  *)
(* under g_amiibo_mtx up to the copy of a changed image.                    *)

Ready == save = None

\* The step of S2NfcRuntime: without a tag nothing happens, and a change is marked.
Stepped(sub, q) ==
  IF tag.kind = None THEN tag
  ELSE [q EXCEPT !.modified = @ \/ IF q.kind = "v3"
           THEN (sub = "commit" /\ q.committed) \/ (sub = "sector commit" /\ q.status = "extended")
           ELSE q.committed]

Answer(sub, q) ==
  LET r == Stepped(sub, q)
      copies == r.modified \/ (r.committed /\ sub = "leave")
  IN /\ tag' = [r EXCEPT !.modified = FALSE]
     /\ recent' = IF sub = "leave" /\ tag.read /\ ~tag.committed THEN tag.id
                  ELSE IF sub \in {"commit", "sector commit"} /\ r.committed THEN None ELSE recent
     /\ save' = IF copies THEN [id |-> r.id, mark |-> r.committed, result |-> None] ELSE None
     /\ unsaved' = (unsaved \/ (sub = "commit" /\ r.status = "written") \/ (sub = "sector commit" /\ r.status = "extended"))
     /\ UNCHANGED <<hand, files, counts>>

Now == {tag, Lapsed(tag)}
V3 == tag.kind = "v3"

Scan == Ready /\ \E now \in Now : Answer("scan", Scanned(now))
Leave == Ready /\ \E now \in Now : Answer("leave", Left(now))
Status == Ready /\ \E now \in Now : Answer("status", now)

\* With a new descriptor the console begins another write; the chunks it staged are of an old one.
Begin ==
  /\ Ready
  /\ \E now \in Now, d \in {"read", "write", "other", "malformed"} :
       LET r == Begun(now, d) IN
       Answer("begin", [r EXCEPT !.stage = [c \in Chunks |-> IF @[c] = "new" THEN "old" ELSE @[c]]])

Fetch == Ready /\ \E now \in Now : Answer("fetch", FetchedLast(now))

Stage ==
  /\ Ready
  /\ \E now \in Now, c \in Chunks, head \in Heads :
       /\ c # 1 => head = None
       /\ Answer("stage", IF V3 THEN V3Staged(now, c, head) ELSE NtagStaged(now, c))

StageCommand ==
  /\ Ready /\ V3
  /\ \E now \in Now : Answer("stage", IF now.ejected THEN Refused(now) ELSE [now EXCEPT !.command = TRUE])

ReadSector ==
  /\ Ready
  /\ \E now \in Now, good \in BOOLEAN : Answer("sector", IF V3 THEN SectorRead(now, good) ELSE now)

RunDevice == Ready /\ \E now \in Now : Answer("device", IF V3 THEN DeviceRun(now) ELSE now)

Commit == Ready /\ \E now \in Now, good \in BOOLEAN : Answer("commit", Committed(now, good))

CommitSector ==
  /\ Ready
  /\ \E now \in Now, good \in BOOLEAN : Answer("sector commit", IF V3 THEN SectorCommitted(now, good) ELSE now)

-----------------------------------------------------------------------------
(* The library, and the writer's other work.                               *)

\* store_writeback, into the file of whichever tag is selected now.
Store ==
  /\ save # None /\ save.result = None
  /\ \E ok \in BOOLEAN :
       /\ ok => selected # None
       /\ faults' = IF ~ok /\ selected # None THEN faults + 1 ELSE faults
       /\ lib' = IF ok THEN [lib EXCEPT ![selected] = save.id] ELSE lib
       /\ unsaved' = (unsaved /\ ~ok)
       /\ save' = IF save.mark THEN [save EXCEPT !.result = ok] ELSE None
  /\ faults' <= MaxFaults
  /\ UNCHANGED <<tag, hand, selected, recent, tags>>

\* set_write_persisted
Mark ==
  /\ save # None /\ save.result # None /\ save' = None
  /\ LET r == [tag EXCEPT !.persisted = save.result] IN
     tag' = IF tag.kind = None THEN tag
            ELSE IF save.result /\ tag.waiting
            THEN [r EXCEPT !.waiting = FALSE, !.committed = FALSE, !.ejected = TRUE] ELSE r
  /\ UNCHANGED <<hand, files, recent, unsaved, counts>>

\* check_amiibo_expiry, when the tag's hold is over.
Expire ==
  /\ Ready /\ tag.kind # None /\ tag' = NoTag /\ unsaved' = FALSE
  /\ save' = IF tag.modified THEN [id |-> tag.id, mark |-> FALSE, result |-> None] ELSE None
  /\ UNCHANGED <<hand, files, recent, counts>>

-----------------------------------------------------------------------------
(* The client's thread.                                                    *)

\* amiibo_library::select; a format, or a first use, writes a tag from the factory.
Select ==
  /\ hand = None /\ tags < MaxTags
  /\ \E t \in Tags, format \in BOOLEAN :
       /\ lib' = IF format \/ lib[t] = None THEN [lib EXCEPT ![t] = t] ELSE lib
       /\ selected' = t /\ hand' = lib'[t]
  /\ UNCHANGED <<tag, save, recent, unsaved, counts>>

\* AMIIBO_DATA: a dump of the client's own.
Upload ==
  /\ hand = None /\ tags < MaxTags /\ hand' = Dump
  /\ UNCHANGED <<tag, save, files, recent, unsaved, counts>>

\* set_amiibo_data_for_port; the same tag again soon after it was read stays for the write.
Present ==
  /\ hand # None /\ hand' = None
  /\ \E defer \in {FALSE, recent = hand} : tag' = [Fresh(Kind(hand), hand) EXCEPT !.defer = defer]
  /\ tags' = tags + 1 /\ unsaved' = FALSE
  /\ UNCHANGED <<save, files, recent, faults>>

\* AMIIBO_LIBRARY_DELETE, and AMIIBO_LIBRARY_CLEAR of all of them.
Delete ==
  /\ hand = None
  /\ \E gone \in {{t} : t \in Tags} \cup {Tags} :
       /\ \E t \in gone : lib[t] # None
       /\ lib' = [t \in Tags |-> IF t \in gone THEN None ELSE lib[t]]
       /\ selected' = IF selected \in gone THEN None ELSE selected
  /\ UNCHANGED <<tag, save, hand, recent, unsaved, counts>>

-----------------------------------------------------------------------------
Next ==
  \/ Scan \/ Leave \/ Status \/ Begin \/ Fetch \/ Stage \/ StageCommand \/ ReadSector \/ RunDevice
  \/ Commit \/ CommitSector \/ Store \/ Mark \/ Expire \/ Select \/ Upload \/ Present \/ Delete

Spec == Init /\ [][Next]_vars

-----------------------------------------------------------------------------
\* A figure-v3 tag never gets chunks of two writes, whatever the console
\* repeats, abandons or mixes (the staging of AmiiboV3Runtime::step).
WholeImage == tag.kind = "v3" => ~tag.torn

\* A tag that the console leaves after a write is not taken away before the
\* library has stored the write (set_write_persisted, eject_waiting_for_persist);
\* only the end of an awaited update takes it away whatever was stored.
EjectedIsSaved ==
  [][tag.id = tag'.id /\ tag.committed /\ tag.phase # "await" /\ tag'.ejected => ~unsaved']_vars

\* Through all of this the tag lies on the reader as TagPresence says: once
\* taken away it is back only when a client presents one, or when it was kept
\* for a write (AmiiboV3Runtime::step, S2NfcRuntime::set_write_persisted).
Presence == INSTANCE TagPresence WITH
  presence <- IF tag.kind = None THEN "none" ELSE IF tag.ejected THEN "taken" ELSE "there",
  shown <- tags, kept <- tag.defer
TagIsTaken == Presence!Spec

\* CLAIM of s2_nfc_codec.cpp:941, "finish the removal handshake when that
\* continuation window closes instead of leaving the tag up": a tag that was
\* taken away then is not there again without a client presenting one.  It does not
\* hold, and no run checks it.
StaysAway == [][tag.ejected /\ tags' = tags => ~Placed(tag')]_vars

\* CLAIM of amiibo_library.hpp: store_writeback is called "when the console has
\* changed the currently selected tag"; so a file holds its own tag.
OwnFile == \A t \in Tags : lib[t] \in {None, t}

\* CLAIM of s2_nfc_codec.cpp:213, "staging stream did not receive all required
\* chunks": a write with a chunk missing is refused, so an image is of one write.
\* It does not hold for an NTAG, and no run checks it.
OneWrite == ~tag.torn
=============================================================================
