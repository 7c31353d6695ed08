------------------------- MODULE EnumerationProofs -------------------------
(***************************************************************************)
(* Proofs about Enumeration, for any retry limit and any number of client  *)
(* threads.                                                                *)
(*                                                                         *)
(* RecoveringHasWork is not inductive: it needs to know who may own a      *)
(* request (Ownership), that the gadget is only ever down while no event   *)
(* thread runs (Joined), and that the event thread of a gadget being       *)
(* restarted cannot ask for another restart (Quiet).  RestartsBounded      *)
(* follows from what each restart has cost (Accounts).                     *)
(***************************************************************************)
EXTENDS Enumeration, TLAPS

\* Between the compare-exchange and the step that gives the request a meaning.
Claiming == {"count", "cancel", "Recovering"}

\* From the moment the limit is met to the store that forgets the failures.
Exhausting == {"cancel", "disable", "rest", "release", "released", "forget"}

One(b) == IF b THEN 1 ELSE 0

\* The types, in two parts: the one about flags, the other about everything else.
Flags ==
  /\ requested \in BOOLEAN /\ running \in BOOLEAN /\ automatic \in BOOLEAN
  /\ session \in BOOLEAN

Labels ==
  /\ state \in States
  /\ failures \in Nat /\ restarts \in Nat
  /\ gadget \in GadgetStates
  /\ pc \in [Threads -> {"idle"} \cup States \cup EventPcs \cup WriterPcs \cup ClientPcs]
  /\ pc[Event] \in {"idle"} \cup States \cup EventPcs
  /\ pc[Writer] \in {"idle"} \cup States \cup WriterPcs
  /\ \A c \in Clients : pc[c] \in {"idle"} \cup ClientPcs

\* A thread that has met the limit accounts for one failure above the others.
FailureCount ==
  failures <= MaxRetries - 1 + One(pc[Event] \in Exhausting) + One(pc[Writer] \in Exhausting)

\* Every restart was paid for by a failure, counted or about to be, but for the one
\* request that may have been pending when the failures were forgotten.
Accounts ==
  restarts + One(requested)
    <= failures + One(pc[Event] = "count") + One(pc[Writer] = "count") + 1

\* A gadget that is down has no event thread, and is down where the writer says so.
Joined ==
  /\ gadget = "down" => pc[Event] = "idle"
  /\ pc[Writer] \in {"rebuild", "abandon", "refail"} => gadget = "down"

RunningPcs == {"take", "stop", "join", "rebuild", "audio", "undo", "abandon"}

\* At most one thread owns a request; it is pending, or the writer has taken the event
\* thread's and is on its way to joining it.
Ownership ==
  /\ running => pc[Writer] \in RunningPcs
  /\ pc[Writer] \in {"take", "abandon"} => running
  /\ pc[Event] \in Claiming => requested \/ (running /\ pc[Writer] \in {"stop", "join"})
  /\ pc[Writer] \in Claiming => requested
  /\ ~(pc[Event] \in Claiming /\ pc[Writer] \in Claiming)

\* While a restart is running no request is owned and the state is not "recovering",
\* except on the way to joining the event thread.
Quiet ==
  running =>
    /\ pc[Writer] = "take" /\ ~requested =>
         state # "Recovering" /\ pc[Event] \notin Claiming \cup {"claim"}
    /\ pc[Writer] \in {"audio", "undo"} =>
         state # "Recovering" /\ pc[Event] \notin Claiming \cup {"claim"}

\* A thread that has just claimed a request found no recovery to be under way.
ClaimsAfresh ==
  /\ pc[Event] \in {"count", "cancel"} /\ state = "Recovering" =>
       running /\ pc[Writer] \in {"stop", "join"}
  /\ pc[Writer] \in {"count", "cancel"} => state # "Recovering"

\* RecoveringHasWork, without the case that does not happen.
HasWork == state = "Recovering" => requested \/ running \/ pc[Writer] = "refail"

Recovery == Joined /\ Ownership /\ Quiet /\ ClaimsAfresh /\ HasWork

IInv == /\ Flags /\ Labels /\ FailureCount /\ Accounts /\ RestartsBounded /\ Recovery
        /\ SurvivorCanRecover

\* Every step keeps the flags Boolean.
LEMMA FlagsInductive == Flags /\ [Next]_vars => Flags'
<1> SUFFICES ASSUME Flags, [Next]_vars PROVE Flags'
  OBVIOUS
<1> USE DEF Flags
<1>1. CASE BusReset
  BY <1>1, Zenon DEF BusReset
<1>2. CASE SetConfiguration
  BY <1>2, Zenon DEF SetConfiguration
<1>3. CASE EnableEndpoints
  BY <1>3, Zenon DEF EnableEndpoints, Requesting
<1>4. CASE BadRequest
  BY <1>4, Zenon DEF BadRequest, Requesting
<1>5. CASE FetchFails
  BY <1>5, Zenon DEF FetchFails, Requesting
<1>6. CASE Suspend
  BY <1>6, Zenon DEF Suspend
<1>7. CASE Service
  BY <1>7, Zenon DEF Service
<1>8. CASE Take
  BY <1>8, Zenon DEF Take
<1>9. CASE ChangeIdentity
  BY <1>9, Zenon DEF ChangeIdentity, WriterReady
<1>10. CASE StopLoop
  BY <1>10, Zenon DEF StopLoop
<1>11. CASE Join
  BY <1>11, Zenon DEF Join
<1>12. CASE Rebuild
  BY <1>12, Zenon DEF Rebuild
<1>13. CASE StartAudio
  BY <1>13, Zenon DEF StartAudio
<1>14. CASE UndoSetup
  BY <1>14, Zenon DEF UndoSetup
<1>15. CASE Abandon
  BY <1>15, Zenon DEF Abandon
<1>16. CASE Refail
  BY <1>16, Zenon DEF Refail
<1>17. CASE RequestAgain
  BY <1>17, Zenon DEF RequestAgain, Requesting
<1>18. CASE BadCommand
  BY <1>18, Zenon DEF BadCommand, WriterReady, Requesting
<1>19. CASE Handshake
  BY <1>19, Zenon DEF Handshake, WriterReady
<1>20. CASE StreamingCommand
  BY <1>20, Zenon DEF StreamingCommand, WriterReady
<1>21. CASE Validated
  BY <1>21, Zenon DEF Validated, ForgetFailures
<1>22. CASE Reenable
  BY <1>22, Zenon DEF Reenable
<1>23. ASSUME NEW t \in {Event, Writer}, Transition(t) PROVE Flags'
  BY <1>23, Zenon DEF Transition
<1>24. ASSUME NEW t \in {Event, Writer}, Claim(t) PROVE Flags'
  BY <1>24, Zenon DEF Claim
<1>25. ASSUME NEW t \in {Event, Writer}, Count(t) PROVE Flags'
  BY <1>25, Zenon DEF Count
<1>26. ASSUME NEW t \in {Event, Writer}, Cancel(t) PROVE Flags'
  BY <1>26, Zenon DEF Cancel
<1>27. ASSUME NEW t \in {Event, Writer}, Disable(t) PROVE Flags'
  BY <1>27, Zenon DEF Disable
<1>28. ASSUME NEW t \in {Event, Writer}, Rest(t) PROVE Flags'
  BY <1>28, Zenon DEF Rest
<1>29. ASSUME NEW t \in {Event, Writer}, Release(t) PROVE Flags'
  BY <1>29, Zenon DEF Release
<1>30. ASSUME NEW t \in {Event, Writer}, Released(t) PROVE Flags'
  BY <1>30, Zenon DEF Released, ForgetFailures
<1>31. ASSUME NEW c \in Clients, Allocate(c) PROVE Flags'
  BY <1>31, Zenon DEF Allocate
<1>32. ASSUME NEW c \in Clients, Connected(c) PROVE Flags'
  BY <1>32, Zenon DEF Connected, ForgetFailures
<1>33. ASSUME NEW c \in Clients, EnableRecovery(c) PROVE Flags'
  BY <1>33, Zenon DEF EnableRecovery
<1>34. ASSUME NEW t \in Clients \cup {Writer}, EndSession(t) PROVE Flags'
  BY <1>34, Zenon DEF EndSession
<1>35. ASSUME NEW t \in Clients \cup {Writer}, Disconnected(t) PROVE Flags'
  BY <1>35, Zenon DEF Disconnected, ForgetFailures
<1>36. CASE UNCHANGED vars
  BY <1>36, Zenon DEF vars, counters
<1> QED
  BY <1>1, <1>2, <1>3, <1>4, <1>5, <1>6, <1>7, <1>8, <1>9, <1>10, <1>11, <1>12,
     <1>13, <1>14, <1>15, <1>16, <1>17, <1>18, <1>19, <1>20, <1>21, <1>22, <1>23,
     <1>24, <1>25, <1>26, <1>27, <1>28, <1>29, <1>30, <1>31, <1>32, <1>33, <1>34,
     <1>35, <1>36 DEF Next, EventStep, RequestStep, WriterStep, ClientStep

\* Every step keeps every other variable in its type.
LEMMA LabelsInductive == Labels /\ [Next]_vars => Labels'
<1> SUFFICES ASSUME Labels, [Next]_vars PROVE Labels'
  OBVIOUS
<1> USE EnumerationAssumption
    DEF Labels, Goto, Threads, States, EventPcs, WriterPcs, ClientPcs, RequestPcs,
        GadgetStates, counters
<1>1. CASE BusReset
  BY <1>1 DEF BusReset
<1>2. CASE SetConfiguration
  BY <1>2 DEF SetConfiguration
<1>3. CASE EnableEndpoints
  BY <1>3 DEF EnableEndpoints, Requesting
<1>4. CASE BadRequest
  BY <1>4 DEF BadRequest, Requesting
<1>5. CASE FetchFails
  BY <1>5 DEF FetchFails, Requesting
<1>6. CASE Suspend
  BY <1>6 DEF Suspend
<1>7. CASE Service
  BY <1>7 DEF Service
<1>8. CASE Take
  BY <1>8 DEF Take
<1>9. CASE ChangeIdentity
  BY <1>9 DEF ChangeIdentity, WriterReady
<1>10. CASE StopLoop
  BY <1>10 DEF StopLoop
<1>11. CASE Join
  BY <1>11 DEF Join
<1>12. CASE Rebuild
  BY <1>12 DEF Rebuild
<1>13. CASE StartAudio
  BY <1>13 DEF StartAudio
<1>14. CASE UndoSetup
  BY <1>14 DEF UndoSetup
<1>15. CASE Abandon
  BY <1>15 DEF Abandon
<1>16. CASE Refail
  BY <1>16 DEF Refail
<1>17. CASE RequestAgain
  BY <1>17 DEF RequestAgain, Requesting
<1>18. CASE BadCommand
  BY <1>18 DEF BadCommand, WriterReady, Requesting
<1>19. CASE Handshake
  BY <1>19 DEF Handshake, WriterReady
<1>20. CASE StreamingCommand
  BY <1>20 DEF StreamingCommand, WriterReady
<1>21. CASE Validated
  BY <1>21 DEF Validated, ForgetFailures
<1>22. CASE Reenable
  BY <1>22 DEF Reenable
<1>23. ASSUME NEW t \in {Event, Writer}, Transition(t) PROVE Labels'
  BY <1>23 DEF Transition
<1>24. ASSUME NEW t \in {Event, Writer}, Claim(t) PROVE Labels'
  BY <1>24 DEF Claim
<1>25. ASSUME NEW t \in {Event, Writer}, Count(t) PROVE Labels'
  BY <1>25 DEF Count
<1>26. ASSUME NEW t \in {Event, Writer}, Cancel(t) PROVE Labels'
  BY <1>26 DEF Cancel
<1>27. ASSUME NEW t \in {Event, Writer}, Disable(t) PROVE Labels'
  BY <1>27 DEF Disable
<1>28. ASSUME NEW t \in {Event, Writer}, Rest(t) PROVE Labels'
  BY <1>28 DEF Rest
<1>29. ASSUME NEW t \in {Event, Writer}, Release(t) PROVE Labels'
  BY <1>29 DEF Release
<1>30. ASSUME NEW t \in {Event, Writer}, Released(t) PROVE Labels'
  BY <1>30 DEF Released, ForgetFailures
<1>31. ASSUME NEW c \in Clients, Allocate(c) PROVE Labels'
  BY <1>31 DEF Allocate
<1>32. ASSUME NEW c \in Clients, Connected(c) PROVE Labels'
  BY <1>32 DEF Connected, ForgetFailures
<1>33. ASSUME NEW c \in Clients, EnableRecovery(c) PROVE Labels'
  BY <1>33 DEF EnableRecovery
<1>34. ASSUME NEW t \in Clients \cup {Writer}, EndSession(t) PROVE Labels'
  BY <1>34 DEF EndSession
<1>35. ASSUME NEW t \in Clients \cup {Writer}, Disconnected(t) PROVE Labels'
  BY <1>35 DEF Disconnected, ForgetFailures
<1>36. CASE UNCHANGED vars
  BY <1>36 DEF vars, counters
<1> QED
  BY <1>1, <1>2, <1>3, <1>4, <1>5, <1>6, <1>7, <1>8, <1>9, <1>10, <1>11, <1>12,
     <1>13, <1>14, <1>15, <1>16, <1>17, <1>18, <1>19, <1>20, <1>21, <1>22, <1>23,
     <1>24, <1>25, <1>26, <1>27, <1>28, <1>29, <1>30, <1>31, <1>32, <1>33, <1>34,
     <1>35, <1>36 DEF Next, EventStep, RequestStep, WriterStep, ClientStep

\* Every step keeps the failures within the limit.
LEMMA FailureCountInductive == Labels /\ FailureCount /\ [Next]_vars => FailureCount'
<1> SUFFICES ASSUME Labels, FailureCount, [Next]_vars PROVE FailureCount'
  OBVIOUS
<1> USE EnumerationAssumption DEF Goto, Labels, Threads, counters, EventReady,
    FailureCount, One, Exhausting, States, EventPcs, RequestPcs, WriterPcs, ClientPcs
<1>1. CASE BusReset
  BY <1>1 DEF BusReset
<1>2. CASE SetConfiguration
  BY <1>2 DEF SetConfiguration
<1>3. CASE EnableEndpoints
  BY <1>3 DEF EnableEndpoints, Requesting
<1>4. CASE BadRequest
  BY <1>4 DEF BadRequest, Requesting
<1>5. CASE FetchFails
  BY <1>5 DEF FetchFails, Requesting
<1>6. CASE Suspend
  BY <1>6 DEF Suspend
<1>7. CASE Service
  BY <1>7 DEF Service
<1>8. CASE Take
  BY <1>8 DEF Take
<1>9. CASE ChangeIdentity
  BY <1>9 DEF ChangeIdentity, WriterReady
<1>10. CASE StopLoop
  BY <1>10 DEF StopLoop
<1>11. CASE Join
  BY <1>11 DEF Join
<1>12. CASE Rebuild
  BY <1>12 DEF Rebuild
<1>13. CASE StartAudio
  BY <1>13 DEF StartAudio
<1>14. CASE UndoSetup
  BY <1>14 DEF UndoSetup
<1>15. CASE Abandon
  BY <1>15 DEF Abandon
<1>16. CASE Refail
  BY <1>16 DEF Refail
<1>17. CASE RequestAgain
  BY <1>17 DEF RequestAgain, Requesting
<1>18. CASE BadCommand
  BY <1>18 DEF BadCommand, WriterReady, Requesting
<1>19. CASE Handshake
  BY <1>19 DEF Handshake, WriterReady
<1>20. CASE StreamingCommand
  BY <1>20 DEF StreamingCommand, WriterReady
<1>21. CASE Validated
  BY <1>21 DEF Validated, ForgetFailures
<1>22. CASE Reenable
  BY <1>22 DEF Reenable
<1>23. ASSUME NEW t \in {Event, Writer}, Transition(t) PROVE FailureCount'
  BY <1>23 DEF Transition
<1>24. ASSUME NEW t \in {Event, Writer}, Claim(t) PROVE FailureCount'
  BY <1>24 DEF Claim
<1>25. ASSUME NEW t \in {Event, Writer}, Count(t) PROVE FailureCount'
  BY <1>25 DEF Count
<1>26. ASSUME NEW t \in {Event, Writer}, Cancel(t) PROVE FailureCount'
  BY <1>26 DEF Cancel
<1>27. ASSUME NEW t \in {Event, Writer}, Disable(t) PROVE FailureCount'
  BY <1>27 DEF Disable
<1>28. ASSUME NEW t \in {Event, Writer}, Rest(t) PROVE FailureCount'
  BY <1>28 DEF Rest
<1>29. ASSUME NEW t \in {Event, Writer}, Release(t) PROVE FailureCount'
  BY <1>29 DEF Release
<1>30. ASSUME NEW t \in {Event, Writer}, Released(t) PROVE FailureCount'
  BY <1>30 DEF Released, ForgetFailures
<1>31. ASSUME NEW c \in Clients, Allocate(c) PROVE FailureCount'
  BY <1>31 DEF Allocate
<1>32. ASSUME NEW c \in Clients, Connected(c) PROVE FailureCount'
  BY <1>32 DEF Connected, ForgetFailures
<1>33. ASSUME NEW c \in Clients, EnableRecovery(c) PROVE FailureCount'
  BY <1>33 DEF EnableRecovery
<1>34. ASSUME NEW t \in Clients \cup {Writer}, EndSession(t) PROVE FailureCount'
  BY <1>34 DEF EndSession
<1>35. ASSUME NEW t \in Clients \cup {Writer}, Disconnected(t) PROVE FailureCount'
  BY <1>35 DEF Disconnected, ForgetFailures
<1>36. CASE UNCHANGED vars
  BY <1>36 DEF vars, counters
<1> QED
  BY <1>1, <1>2, <1>3, <1>4, <1>5, <1>6, <1>7, <1>8, <1>9, <1>10, <1>11, <1>12,
     <1>13, <1>14, <1>15, <1>16, <1>17, <1>18, <1>19, <1>20, <1>21, <1>22, <1>23,
     <1>24, <1>25, <1>26, <1>27, <1>28, <1>29, <1>30, <1>31, <1>32, <1>33, <1>34,
     <1>35, <1>36 DEF Next, EventStep, RequestStep, WriterStep, ClientStep

\* Every step keeps the accounts of the restarts.
LEMMA AccountsInductive == Flags /\ Labels /\ Accounts /\ [Next]_vars => Accounts'
<1> SUFFICES ASSUME Flags, Labels, Accounts, [Next]_vars PROVE Accounts'
  OBVIOUS
<1> USE EnumerationAssumption DEF Goto, Labels, Threads, counters, EventReady,
    Flags, Accounts, One, States
<1>1. CASE BusReset
  BY <1>1 DEF BusReset
<1>2. CASE SetConfiguration
  BY <1>2 DEF SetConfiguration
<1>3. CASE EnableEndpoints
  BY <1>3 DEF EnableEndpoints, Requesting
<1>4. CASE BadRequest
  BY <1>4 DEF BadRequest, Requesting
<1>5. CASE FetchFails
  BY <1>5 DEF FetchFails, Requesting
<1>6. CASE Suspend
  BY <1>6 DEF Suspend
<1>7. CASE Service
  BY <1>7 DEF Service
<1>8. CASE Take
  BY <1>8 DEF Take
<1>9. CASE ChangeIdentity
  BY <1>9 DEF ChangeIdentity, WriterReady
<1>10. CASE StopLoop
  BY <1>10 DEF StopLoop
<1>11. CASE Join
  BY <1>11 DEF Join
<1>12. CASE Rebuild
  BY <1>12 DEF Rebuild
<1>13. CASE StartAudio
  BY <1>13 DEF StartAudio
<1>14. CASE UndoSetup
  BY <1>14 DEF UndoSetup
<1>15. CASE Abandon
  BY <1>15 DEF Abandon
<1>16. CASE Refail
  BY <1>16 DEF Refail
<1>17. CASE RequestAgain
  BY <1>17 DEF RequestAgain, Requesting
<1>18. CASE BadCommand
  BY <1>18 DEF BadCommand, WriterReady, Requesting
<1>19. CASE Handshake
  BY <1>19 DEF Handshake, WriterReady
<1>20. CASE StreamingCommand
  BY <1>20 DEF StreamingCommand, WriterReady
<1>21. CASE Validated
  BY <1>21 DEF Validated, ForgetFailures
<1>22. CASE Reenable
  BY <1>22 DEF Reenable
<1>23. ASSUME NEW t \in {Event, Writer}, Transition(t) PROVE Accounts'
  BY <1>23 DEF Transition
<1>24. ASSUME NEW t \in {Event, Writer}, Claim(t) PROVE Accounts'
  BY <1>24 DEF Claim
<1>25. ASSUME NEW t \in {Event, Writer}, Count(t) PROVE Accounts'
  BY <1>25 DEF Count
<1>26. ASSUME NEW t \in {Event, Writer}, Cancel(t) PROVE Accounts'
  BY <1>26 DEF Cancel
<1>27. ASSUME NEW t \in {Event, Writer}, Disable(t) PROVE Accounts'
  BY <1>27 DEF Disable
<1>28. ASSUME NEW t \in {Event, Writer}, Rest(t) PROVE Accounts'
  BY <1>28 DEF Rest
<1>29. ASSUME NEW t \in {Event, Writer}, Release(t) PROVE Accounts'
  BY <1>29 DEF Release
<1>30. ASSUME NEW t \in {Event, Writer}, Released(t) PROVE Accounts'
  BY <1>30 DEF Released, ForgetFailures
<1>31. ASSUME NEW c \in Clients, Allocate(c) PROVE Accounts'
  BY <1>31 DEF Allocate
<1>32. ASSUME NEW c \in Clients, Connected(c) PROVE Accounts'
  BY <1>32 DEF Connected, ForgetFailures
<1>33. ASSUME NEW c \in Clients, EnableRecovery(c) PROVE Accounts'
  BY <1>33 DEF EnableRecovery
<1>34. ASSUME NEW t \in Clients \cup {Writer}, EndSession(t) PROVE Accounts'
  BY <1>34 DEF EndSession
<1>35. ASSUME NEW t \in Clients \cup {Writer}, Disconnected(t) PROVE Accounts'
  BY <1>35 DEF Disconnected, ForgetFailures
<1>36. CASE UNCHANGED vars
  BY <1>36 DEF vars, counters
<1> QED
  BY <1>1, <1>2, <1>3, <1>4, <1>5, <1>6, <1>7, <1>8, <1>9, <1>10, <1>11, <1>12,
     <1>13, <1>14, <1>15, <1>16, <1>17, <1>18, <1>19, <1>20, <1>21, <1>22, <1>23,
     <1>24, <1>25, <1>26, <1>27, <1>28, <1>29, <1>30, <1>31, <1>32, <1>33, <1>34,
     <1>35, <1>36 DEF Next, EventStep, RequestStep, WriterStep, ClientStep

\* Every step keeps the control of requests and restarts.
LEMMA RecoveryInductive == Flags /\ Labels /\ Recovery /\ [Next]_vars => Recovery'
<1> SUFFICES ASSUME Flags, Labels, Recovery, [Next]_vars PROVE Recovery'
  OBVIOUS
<1> USE EnumerationAssumption
    DEF Goto, Flags, Labels, Threads, counters, States, EventPcs, RequestPcs, WriterPcs,
        ClientPcs, Recovery, Joined, Ownership, Quiet, ClaimsAfresh, HasWork, Claiming,
        RunningPcs, Suppressed, EventReady, SlotLocked
<1>1. CASE BusReset
  BY <1>1 DEF BusReset
<1>2. CASE SetConfiguration
  BY <1>2 DEF SetConfiguration
<1>3. CASE EnableEndpoints
  BY <1>3 DEF EnableEndpoints, Requesting
<1>4. CASE BadRequest
  BY <1>4 DEF BadRequest, Requesting
<1>5. CASE FetchFails
  BY <1>5 DEF FetchFails, Requesting
<1>6. CASE Suspend
  BY <1>6 DEF Suspend
<1>7. CASE Service
  BY <1>7 DEF Service
<1>8. CASE Take
  BY <1>8 DEF Take
<1>9. CASE ChangeIdentity
  BY <1>9 DEF ChangeIdentity, WriterReady
<1>10. CASE StopLoop
  BY <1>10 DEF StopLoop
<1>11. CASE Join
  BY <1>11 DEF Join
<1>12. CASE Rebuild
  BY <1>12 DEF Rebuild
<1>13. CASE StartAudio
  BY <1>13 DEF StartAudio
<1>14. CASE UndoSetup
  BY <1>14 DEF UndoSetup
<1>15. CASE Abandon
  BY <1>15 DEF Abandon
<1>16. CASE Refail
  BY <1>16 DEF Refail
<1>17. CASE RequestAgain
  BY <1>17 DEF RequestAgain, Requesting
<1>18. CASE BadCommand
  BY <1>18 DEF BadCommand, WriterReady, Requesting
<1>19. CASE Handshake
  BY <1>19 DEF Handshake, WriterReady
<1>20. CASE StreamingCommand
  BY <1>20 DEF StreamingCommand, WriterReady
<1>21. CASE Validated
  BY <1>21 DEF Validated, ForgetFailures
<1>22. CASE Reenable
  BY <1>22 DEF Reenable
<1>23. ASSUME NEW t \in {Event, Writer}, Transition(t) PROVE Recovery'
  BY <1>23 DEF Transition
<1>24. ASSUME NEW t \in {Event, Writer}, Claim(t) PROVE Recovery'
  BY <1>24 DEF Claim
<1>25. ASSUME NEW t \in {Event, Writer}, Count(t) PROVE Recovery'
  BY <1>25 DEF Count
<1>26. ASSUME NEW t \in {Event, Writer}, Cancel(t) PROVE Recovery'
  BY <1>26 DEF Cancel
<1>27. ASSUME NEW t \in {Event, Writer}, Disable(t) PROVE Recovery'
  BY <1>27 DEF Disable
<1>28. ASSUME NEW t \in {Event, Writer}, Rest(t) PROVE Recovery'
  BY <1>28 DEF Rest
<1>29. ASSUME NEW t \in {Event, Writer}, Release(t) PROVE Recovery'
  BY <1>29 DEF Release
<1>30. ASSUME NEW t \in {Event, Writer}, Released(t) PROVE Recovery'
  BY <1>30 DEF Released, ForgetFailures
<1>31. ASSUME NEW c \in Clients, Allocate(c) PROVE Recovery'
  BY <1>31 DEF Allocate
<1>32. ASSUME NEW c \in Clients, Connected(c) PROVE Recovery'
  BY <1>32 DEF Connected, ForgetFailures
<1>33. ASSUME NEW c \in Clients, EnableRecovery(c) PROVE Recovery'
  BY <1>33 DEF EnableRecovery
<1>34. ASSUME NEW t \in Clients \cup {Writer}, EndSession(t) PROVE Recovery'
  BY <1>34 DEF EndSession
<1>35. ASSUME NEW t \in Clients \cup {Writer}, Disconnected(t) PROVE Recovery'
  BY <1>35 DEF Disconnected, ForgetFailures
<1>36. CASE UNCHANGED vars
  BY <1>36 DEF vars, counters
<1> QED
  BY <1>1, <1>2, <1>3, <1>4, <1>5, <1>6, <1>7, <1>8, <1>9, <1>10, <1>11, <1>12,
     <1>13, <1>14, <1>15, <1>16, <1>17, <1>18, <1>19, <1>20, <1>21, <1>22, <1>23,
     <1>24, <1>25, <1>26, <1>27, <1>28, <1>29, <1>30, <1>31, <1>32, <1>33, <1>34,
     <1>35, <1>36 DEF Next, EventStep, RequestStep, WriterStep, ClientStep

\* Every step keeps a session that outlives the exhaustion recoverable.
LEMMA SurvivorInductive == Flags /\ Labels /\ SurvivorCanRecover /\ [Next]_vars => SurvivorCanRecover'
<1> SUFFICES ASSUME Flags, Labels, SurvivorCanRecover, [Next]_vars PROVE SurvivorCanRecover'
  OBVIOUS
<1> USE EnumerationAssumption
    DEF Goto, Flags, Labels, Threads, counters, States, EventPcs, RequestPcs, WriterPcs,
        ClientPcs, SurvivorCanRecover, SlotLocked, EventReady
<1>1. CASE BusReset
  BY <1>1 DEF BusReset
<1>2. CASE SetConfiguration
  BY <1>2 DEF SetConfiguration
<1>3. CASE EnableEndpoints
  BY <1>3 DEF EnableEndpoints, Requesting
<1>4. CASE BadRequest
  BY <1>4 DEF BadRequest, Requesting
<1>5. CASE FetchFails
  BY <1>5 DEF FetchFails, Requesting
<1>6. CASE Suspend
  BY <1>6 DEF Suspend
<1>7. CASE Service
  BY <1>7 DEF Service
<1>8. CASE Take
  BY <1>8 DEF Take
<1>9. CASE ChangeIdentity
  BY <1>9 DEF ChangeIdentity, WriterReady
<1>10. CASE StopLoop
  BY <1>10 DEF StopLoop
<1>11. CASE Join
  BY <1>11 DEF Join
<1>12. CASE Rebuild
  BY <1>12 DEF Rebuild
<1>13. CASE StartAudio
  BY <1>13 DEF StartAudio
<1>14. CASE UndoSetup
  BY <1>14 DEF UndoSetup
<1>15. CASE Abandon
  BY <1>15 DEF Abandon
<1>16. CASE Refail
  BY <1>16 DEF Refail
<1>17. CASE RequestAgain
  BY <1>17 DEF RequestAgain, Requesting
<1>18. CASE BadCommand
  BY <1>18 DEF BadCommand, WriterReady, Requesting
<1>19. CASE Handshake
  BY <1>19 DEF Handshake, WriterReady
<1>20. CASE StreamingCommand
  BY <1>20 DEF StreamingCommand, WriterReady
<1>21. CASE Validated
  BY <1>21 DEF Validated, ForgetFailures
<1>22. CASE Reenable
  BY <1>22 DEF Reenable
<1>23. ASSUME NEW t \in {Event, Writer}, Transition(t) PROVE SurvivorCanRecover'
  BY <1>23 DEF Transition
<1>24. ASSUME NEW t \in {Event, Writer}, Claim(t) PROVE SurvivorCanRecover'
  BY <1>24 DEF Claim
<1>25. ASSUME NEW t \in {Event, Writer}, Count(t) PROVE SurvivorCanRecover'
  BY <1>25 DEF Count
<1>26. ASSUME NEW t \in {Event, Writer}, Cancel(t) PROVE SurvivorCanRecover'
  BY <1>26 DEF Cancel
<1>27. ASSUME NEW t \in {Event, Writer}, Disable(t) PROVE SurvivorCanRecover'
  BY <1>27 DEF Disable
<1>28. ASSUME NEW t \in {Event, Writer}, Rest(t) PROVE SurvivorCanRecover'
  BY <1>28 DEF Rest
<1>29. ASSUME NEW t \in {Event, Writer}, Release(t) PROVE SurvivorCanRecover'
  BY <1>29 DEF Release
<1>30. ASSUME NEW t \in {Event, Writer}, Released(t) PROVE SurvivorCanRecover'
  BY <1>30 DEF Released, ForgetFailures
<1>31. ASSUME NEW c \in Clients, Allocate(c) PROVE SurvivorCanRecover'
  BY <1>31 DEF Allocate
<1>32. ASSUME NEW c \in Clients, Connected(c) PROVE SurvivorCanRecover'
  BY <1>32 DEF Connected, ForgetFailures
<1>33. ASSUME NEW c \in Clients, EnableRecovery(c) PROVE SurvivorCanRecover'
  BY <1>33 DEF EnableRecovery
<1>34. ASSUME NEW t \in Clients \cup {Writer}, EndSession(t) PROVE SurvivorCanRecover'
  BY <1>34 DEF EndSession
<1>35. ASSUME NEW t \in Clients \cup {Writer}, Disconnected(t) PROVE SurvivorCanRecover'
  BY <1>35 DEF Disconnected, ForgetFailures
<1>36. CASE UNCHANGED vars
  BY <1>36 DEF vars, counters
<1> QED
  BY <1>1, <1>2, <1>3, <1>4, <1>5, <1>6, <1>7, <1>8, <1>9, <1>10, <1>11, <1>12,
     <1>13, <1>14, <1>15, <1>16, <1>17, <1>18, <1>19, <1>20, <1>21, <1>22, <1>23,
     <1>24, <1>25, <1>26, <1>27, <1>28, <1>29, <1>30, <1>31, <1>32, <1>33, <1>34,
     <1>35, <1>36 DEF Next, EventStep, RequestStep, WriterStep, ClientStep

\* The bound on the restarts is kept: the only step that restarts takes a request, which
\* the accounts say has been paid for.
LEMMA BoundInductive ==
  Flags /\ Labels /\ FailureCount /\ Accounts /\ RestartsBounded /\ [Next]_vars
    => RestartsBounded'
<1> SUFFICES ASSUME Flags, Labels, FailureCount, Accounts, RestartsBounded, [Next]_vars
             PROVE  RestartsBounded'
  OBVIOUS
<1>1. restarts' = restarts \/ restarts' = 0 \/ (Take /\ requested)
  BY DEF Next, vars, counters, EventStep, RequestStep, WriterStep, ClientStep, ForgetFailures,
         BusReset, SetConfiguration, EnableEndpoints, BadRequest, FetchFails, Suspend,
         Service, Take, ChangeIdentity, StopLoop, Join, Rebuild, StartAudio, UndoSetup,
         Abandon, Refail, RequestAgain, BadCommand, Handshake, StreamingCommand, Validated,
         Reenable, Transition, Claim, Count, Cancel, Disable, Rest, Release, Released,
         Allocate, Connected, EnableRecovery, EndSession, Disconnected
<1>2. CASE restarts' = restarts
  BY <1>2 DEF RestartsBounded
<1>3. CASE restarts' = 0
  BY <1>3, EnumerationAssumption DEF RestartsBounded
<1>4. CASE Take /\ requested
  <2>1. restarts' = restarts + 1 /\ pc[Writer] = "take"
    BY <1>4 DEF Take
  <2>2. restarts + 1 <= failures + One(pc[Event] = "count") + 1
    BY <1>4, <2>1 DEF Accounts, One, Labels
  <2>3. failures + One(pc[Event] = "count") <= MaxRetries
    BY <2>1, EnumerationAssumption DEF FailureCount, One, Exhausting, Labels
  <2> QED
    BY <2>1, <2>2, <2>3, EnumerationAssumption DEF RestartsBounded, Labels, One
<1> QED
  BY <1>1, <1>2, <1>3, <1>4

\* The initial state satisfies the invariant.
LEMMA InitInv == Init => IInv
<1> SUFFICES ASSUME Init PROVE IInv
  OBVIOUS
<1>1. Flags
  BY Zenon DEF Init, Flags
<1>2. Labels
  BY DEF Init, Labels, Threads, States, GadgetStates
<1>3. /\ pc[Event] = "idle" /\ pc[Writer] = "idle" /\ state = "WaitingForHost"
      /\ failures = 0 /\ restarts = 0 /\ gadget = "up"
  BY DEF Init, Threads
<1>4. ~running /\ ~requested /\ automatic
  BY DEF Init
<1>5. FailureCount
  BY <1>3, EnumerationAssumption DEF FailureCount, One, Exhausting
<1>6. Accounts /\ RestartsBounded
  BY <1>3, <1>4, EnumerationAssumption DEF Accounts, RestartsBounded, One
<1>7. Recovery
  BY <1>3, <1>4 DEF Recovery, Joined, Ownership, Quiet, ClaimsAfresh, HasWork, Claiming
<1>8. SurvivorCanRecover
  BY <1>4 DEF SurvivorCanRecover
<1> QED
  BY <1>1, <1>2, <1>5, <1>6, <1>7, <1>8 DEF IInv

\* The invariant holds in every reachable state.
THEOREM Invariance == Spec => []IInv
<1>1. IInv /\ [Next]_vars => IInv'
  BY FlagsInductive, LabelsInductive, FailureCountInductive, AccountsInductive,
     BoundInductive, RecoveryInductive, SurvivorInductive DEF IInv
<1> QED
  BY InitInv, <1>1, PTL DEF Spec

\* Every variable keeps its type, the counter of failures its range, and every thread of
\* s2_enumeration.cpp its own functions.
THEOREM TypeCorrect == Spec => []TypeOK
<1>1. IInv => TypeOK
  BY EnumerationAssumption DEF IInv, Flags, Labels, FailureCount, One, TypeOK
<1> QED
  BY Invariance, <1>1, PTL

\* The state "recovering" always has a request pending or a restart under way, for any
\* interleaving of the atomics of request_ and service_switch2_reenumeration.
THEOREM RecoveringServed == Spec => []RecoveringHasWork
<1>1. IInv => RecoveringHasWork
  BY DEF IInv, Recovery, HasWork, RecoveringHasWork
<1> QED
  BY Invariance, <1>1, PTL

\* A session that survives the exhaustion of the retries has automatic recovery.
THEOREM SurvivorRecovers == Spec => []SurvivorCanRecover
<1>1. IInv => SurvivorCanRecover
  BY DEF IInv
<1> QED
  BY Invariance, <1>1, PTL

\* The gadget is not restarted more than MaxRetries + 1 times before the failures are
\* forgotten, and the counter of failures stays in range, for every retry limit.
THEOREM BoundedCounts == Spec => []CountsBounded
<1>1. IInv => RestartsBounded
  BY DEF IInv
<1> QED
  BY Invariance, TypeCorrect, <1>1, PTL DEF CountsBounded

=============================================================================
