--------------------------- MODULE MessageHistory ---------------------------
(***************************************************************************)
(* ropemother/capture: the history a freestanding broker serves from its   *)
(* own capture file.  JSONLinesCaptureSink appends a line for each record, *)
(* JSONLinesCaptureHistory indexes the lines and answers selections, and   *)
(* HistoryClient.select_all asks for page after page, from the sequence    *)
(* number the last page ended with, while sessions go on writing.          *)
(*                                                                         *)
(* A restarted broker appends to the file of the last one (the default of  *)
(* its command line), with IDs and sequence numbers that start again.  The *)
(* history service runs in the broker's accept loop, so that an exception  *)
(* of a selection ends the broker.                                         *)
(*                                                                         *)
(* A topic stands for the symbols of a message.  An emission takes its     *)
(* sequence number first and is written later, or never where the write or *)
(* the bootstrap policy refuses it; the writers are the threads inside the *)
(* core.  The messages that carry selections and pages are captured too:   *)
(* select_all reads a file that each of its own pages makes longer.        *)
(***************************************************************************)
EXTENDS Naturals, Sequences, FiniteSets

CONSTANTS Topics,        \* of the writers' messages
          RequestTopic,  \* BROKER_HISTORY_REQUEST_TOPIC
          ReplyTopic,    \* BROKER_HISTORY_REPLY_TOPIC
          Opaque,        \* topics whose format the client has no decoder for
          Writers,       \* threads that emit
          PageSizes,     \* max_count of the selections
          AnyTopic,      \* a selection without a topic
          AskedTopics,   \* those of the selections, AnyTopic among them
          NoCursor,      \* a selection from the start
          MaxMessages,   \* bound on the writers' messages, run by run
          MaxRestarts,   \* bound on the restarts of the broker
          MaxQueries,    \* bound on the calls of select_all
          MaxPages       \* bound on the pages one call asks for

ASSUME HistoryAssumption ==
  /\ RequestTopic # ReplyTopic
  /\ {RequestTopic, ReplyTopic} \cap Topics = {}
  /\ AnyTopic \notin Topics \cup {RequestTopic, ReplyTopic}
  /\ Opaque \subseteq Topics
  /\ AskedTopics \subseteq Topics \cup {RequestTopic, ReplyTopic, AnyTopic}
  /\ NoCursor \notin Nat
  /\ PageSizes \subseteq Nat
  /\ {MaxQueries, MaxPages} \subseteq Nat
  /\ MaxRestarts \in Nat /\ MaxMessages \in [0..MaxRestarts -> Nat]

Orders == {"ascending", "descending"}

HistoryTopics == {RequestTopic, ReplyTopic}

AllTopics == Topics \cup HistoryTopics

VARIABLES
  log,           \* the lines of the capture file
  lineOpen,      \* the last line has no end yet
  symbols,       \* the core's topics, each at the place of its ID
  nextSequence,  \* DirectBrokerCore._bus_sequence
  writing,       \* for each thread, the emission in progress
  serving,       \* MessageBusService.serve_forever is running
  restarts,
  indexed,       \* InMemoryCaptureHistory._indexed_record_count
  names,         \* its registration table: ID -> topic
  query,         \* the client's select_all
  queries,       \* how many there were
  collected,     \* the lines whose messages it has been given
  ordered        \* history: each page went on where the last one ended

fileVars == <<log, lineOpen>>
brokerVars == <<symbols, nextSequence, writing, serving, restarts>>
tableVars == <<indexed, names>>
queryVars == <<query, queries, collected, ordered>>

historyVars == <<fileVars, brokerVars, tableVars, queryVars>>

(* readable: the line is one record and has its end *)
Records == [kind : {"registration", "message"}, id : Nat, topic : AllTopics,
            sequence : Nat, readable : BOOLEAN]

Registration(id, topic) ==
  [kind |-> "registration", id |-> id, topic |-> topic, sequence |-> 0,
   readable |-> TRUE]

(* The topic of a message is not in its record; the properties need it. *)
Message(id, topic, sequence) ==
  [kind |-> "message", id |-> id, topic |-> topic, sequence |-> sequence,
   readable |-> TRUE]

IsMessage(rec) == rec.kind = "message"

Idle == [step |-> "idle"]

(* BrokerHistoryExtension.create_handler: the service subscribes to its    *)
(* request topic, then registers its emitter.                              *)
ServiceSymbols == <<RequestTopic, ReplyTopic>>

HistoryInit ==
  /\ log = <<Registration(1, RequestTopic), Registration(2, ReplyTopic)>>
  /\ lineOpen = FALSE
  /\ symbols = ServiceSymbols
  /\ nextSequence = 0
  /\ writing = [w \in Writers |-> Idle]
  /\ serving = TRUE
  /\ restarts = 0
  /\ indexed = 0
  /\ names = [id \in {} |-> AnyTopic]
  /\ query = Idle
  /\ queries = 0
  /\ collected = {}
  /\ ordered = TRUE

------------------------------------------------------------------------------
(* The core and its sink. *)

(* What is written after a line without an end becomes part of that line. *)
AppendText(rec) ==
  log' = IF lineOpen THEN [log EXCEPT ![Len(log)].readable = FALSE]
                     ELSE Append(log, rec)

(* The controller's lock: no record begins inside another one. *)
Unlocked == \A w \in Writers : writing[w].step # "rest"

(* The topic is in the core's table whether or not its line is written. *)
RegisterTopic(topic) ==
  /\ serving /\ Unlocked
  /\ \A i \in DOMAIN symbols : symbols[i] # topic
  /\ symbols' = Append(symbols, topic)
  /\ \/ AppendText(Registration(Len(symbols) + 1, topic)) /\ lineOpen' = FALSE
     \/ UNCHANGED fileVars
  /\ UNCHANGED <<nextSequence, writing, serving, restarts, tableVars,
                 queryVars>>

TakeSequence(w) ==
  /\ serving
  /\ writing[w] = Idle
  /\ nextSequence < MaxMessages[restarts]
  /\ \E i \in DOMAIN symbols :
       /\ symbols[i] \in Topics
       /\ writing' = [writing EXCEPT ![w] =
                        [step |-> "write",
                         message |-> Message(i, symbols[i], nextSequence)]]
  /\ nextSequence' = nextSequence + 1
  /\ UNCHANGED <<fileVars, symbols, serving, restarts, tableVars, queryVars>>

(* The policy refuses the message, or its write raises. *)
RefuseMessage(w) ==
  /\ serving
  /\ writing[w].step = "write"
  /\ writing' = [writing EXCEPT ![w] = Idle]
  /\ UNCHANGED <<fileVars, symbols, nextSequence, serving, restarts,
                 tableVars, queryVars>>

WriteMessage(w) ==
  /\ serving /\ Unlocked
  /\ writing[w].step = "write"
  /\ AppendText(writing[w].message)
  /\ lineOpen' = FALSE
  /\ writing' = [writing EXCEPT ![w] = Idle]
  /\ UNCHANGED <<symbols, nextSequence, serving, restarts, tableVars,
                 queryVars>>

(* A line longer than the stream's buffer reaches the file in pieces. *)
WriteFirstPart(w) ==
  /\ serving /\ Unlocked
  /\ writing[w].step = "write"
  /\ AppendText([writing[w].message EXCEPT !.readable = FALSE])
  /\ lineOpen' = TRUE
  /\ writing' = [writing EXCEPT ![w] = [step |-> "rest", alone |-> ~lineOpen]]
  /\ UNCHANGED <<symbols, nextSequence, serving, restarts, tableVars,
                 queryVars>>

WriteRest(w) ==
  /\ serving
  /\ writing[w].step = "rest"
  /\ log' = IF writing[w].alone
            THEN [log EXCEPT ![Len(log)].readable = TRUE] ELSE log
  /\ lineOpen' = FALSE
  /\ writing' = [writing EXCEPT ![w] = Idle]
  /\ UNCHANGED <<symbols, nextSequence, serving, restarts, tableVars,
                 queryVars>>

(* The lines the service's own symbols are written to at the start. *)
LogAfterStart ==
  LET lines == <<Registration(1, RequestTopic), Registration(2, ReplyTopic)>>
  IN IF lineOpen
     THEN [log EXCEPT ![Len(log)].readable = FALSE] \o Tail(lines)
     ELSE log \o lines

(* A new process on the file of the last one, however that one ended. *)
Restart ==
  /\ restarts < MaxRestarts
  /\ restarts' = restarts + 1
  /\ serving' = TRUE
  /\ log' = LogAfterStart
  /\ lineOpen' = FALSE
  /\ symbols' = ServiceSymbols
  /\ nextSequence' = 0
  /\ writing' = [w \in Writers |-> Idle]
  /\ indexed' = 0
  /\ names' = [id \in {} |-> AnyTopic]
  /\ query' = Idle
  /\ collected' = {} /\ ordered' = TRUE
  /\ UNCHANGED queries

------------------------------------------------------------------------------
(* HistoryClient.select_all, and AsyncHistoryClient's, whose task may be   *)
(* cancelled while it waits for a page; any client may also be gone by     *)
(* then.  The client's and the service's own messages are written in the   *)
(* step that numbers them.                                                 *)

SelectAll(topic, order, maxCount) ==
  /\ serving
  /\ query = Idle
  /\ queries < MaxQueries
  /\ queries' = queries + 1
  /\ query' = [step |-> "send", topic |-> topic, order |-> order,
               maxCount |-> maxCount, cursor |-> NoCursor, first |-> 0,
               pages |-> 0, wanted |-> TRUE]
  /\ collected' = {}
  /\ ordered' = TRUE
  /\ UNCHANGED <<fileVars, brokerVars, tableVars>>

IdOf(topic) == CHOOSE i \in DOMAIN symbols : symbols[i] = topic

Capture(topic) ==
  /\ Unlocked
  /\ AppendText(Message(IdOf(topic), topic, nextSequence))
  /\ lineOpen' = FALSE
  /\ nextSequence' = nextSequence + 1

(* HistoryClient.send *)
SendSelection ==
  /\ serving
  /\ query.step = "send"
  /\ query.pages < MaxPages
  /\ Capture(RequestTopic)
  /\ query' = [query EXCEPT !.step = "ask", !.pages = @ + 1]
  /\ UNCHANGED <<symbols, writing, serving, restarts, tableVars, queries,
                 collected, ordered>>

(* The write of the request raises: the broker tells the client. *)
SendSelectionFails ==
  /\ serving
  /\ query.step = "send"
  /\ nextSequence' = nextSequence + 1
  /\ query' = [query EXCEPT !.step = "failed"]
  /\ UNCHANGED <<fileVars, symbols, writing, serving, restarts, tableVars,
                 queries, collected, ordered>>

(* Its request stays with the service. *)
CancelSelectAll ==
  /\ query.step \in {"ask", "read"}
  /\ query' = [query EXCEPT !.wanted = FALSE]
  /\ UNCHANGED <<fileVars, brokerVars, tableVars, queries, collected,
                 ordered>>

SelectAllReturns ==
  /\ query.step \in {"done", "failed"}
  /\ serving
  /\ query' = Idle
  /\ collected' = {} /\ ordered' = TRUE
  /\ UNCHANGED <<fileVars, brokerVars, tableVars, queries>>

------------------------------------------------------------------------------
(* HistoryService._handle_request and InMemoryCaptureHistory.select *)

(* Nobody catches what select raises: serve_forever ends. *)
ServiceEnds == /\ serving' = FALSE
               /\ query' = [query EXCEPT !.step = "failed"]
               /\ UNCHANGED <<fileVars, symbols, nextSequence, writing,
                              restarts, tableVars, queries, collected,
                              ordered>>

NewRecords == {log[i] : i \in (indexed + 1)..Len(log)}

NewRegistrations == {rec \in NewRecords : rec.kind = "registration"}

(* Mutant: a registration may change what an ID or a topic stands for. *)
NoConflict_replaced == TRUE

(* _IDTable.bind: an ID has one topic and a topic one ID. *)
NoConflict ==
  /\ \A r, s \in NewRegistrations : (r.id = s.id) <=> (r.topic = s.topic)
  /\ \A r \in NewRegistrations, id \in DOMAIN names :
       (r.id = id) <=> (r.topic = names[id])

(* Mutant: the table holds the registrations of the new records only. *)
NamesWith_rebuilt(registrations) ==
  [id \in {r.id : r \in registrations} |->
     (CHOOSE r \in registrations : r.id = id).topic]

NamesWith(registrations) ==
  [id \in DOMAIN names \cup {r.id : r \in registrations} |->
     IF \E r \in registrations : r.id = id
     THEN (CHOOSE r \in registrations : r.id = id).topic
     ELSE names[id]]

(* _validate_selection *)
ValidSelection == query.maxCount >= 1

(* _read_record: a line must hold one JSON object with a record's fields.  *)
NewRecordsReadable == \A rec \in NewRecords : rec.readable

(* _refresh_registrations, up to the last line *)
Refresh ==
  /\ serving
  /\ query.step = "ask"
  /\ ValidSelection /\ NewRecordsReadable /\ NoConflict
  /\ names' = NamesWith(NewRegistrations)
  /\ indexed' = Len(log)
  /\ query' = [query EXCEPT !.step = "read",
                            !.first = IF query.cursor = NoCursor
                                      THEN Len(log) ELSE @]
  /\ UNCHANGED <<fileVars, brokerVars, queries, collected, ordered>>

RefreshFails ==
  /\ serving
  /\ query.step = "ask"
  /\ ~(ValidSelection /\ NewRecordsReadable /\ NoConflict)
  /\ ServiceEnds

(* _message_matches *)
Selected(i) ==
  /\ IsMessage(log[i])
  /\ query.topic # AnyTopic =>
       log[i].id \in DOMAIN names /\ names[log[i].id] = query.topic
  /\ query.cursor # NoCursor =>
       IF query.order = "descending" THEN log[i].sequence < query.cursor
                                     ELSE log[i].sequence > query.cursor

Candidates == {i \in 1..indexed : Selected(i)}

(* i comes before j in the order of the selection. *)
Before(i, j) == IF query.order = "descending" THEN i > j ELSE i < j

(***************************************************************************)
(* The first max_count candidates, in the order asked for.  A page with    *)
(* more to come carries a cursor: the sequence number of its last message. *)
(***************************************************************************)
IsPage(page) ==
  /\ page \subseteq Candidates
  /\ \A i \in page, j \in Candidates : Before(j, i) => j \in page
  /\ \/ page = Candidates /\ Cardinality(page) <= query.maxCount
     \/ page # Candidates /\ Cardinality(page) = query.maxCount

Decodable(page) == \A i \in page : log[i].id \in DOMAIN names

(* Mutant: the cursor is the sequence of the first message left out. *)
CursorAfter_next(page) ==
  LET left == Candidates \ page
  IN log[CHOOSE i \in left : \A j \in left \ {i} : Before(i, j)].sequence

CursorAfter(page) ==
  log[CHOOSE i \in page : \A j \in page \ {i} : Before(j, i)].sequence

(* message_history_page_from_record: every entry's payload is decoded. *)
Readable(page) == \A i \in page : log[i].topic \notin Opaque

(* Mutant: the loop asks with the cursor it was given. *)
AfterPage_sameCursor(page) ==
  IF ~query.wanted THEN Idle
  ELSE IF ~Readable(page) THEN [query EXCEPT !.step = "failed"]
  ELSE IF page = Candidates THEN [query EXCEPT !.step = "done"]
  ELSE [query EXCEPT !.step = "send"]

(* HistoryClient.receive and the loop of select_all *)
AfterPage(page) ==
  IF ~query.wanted THEN Idle
  ELSE IF ~Readable(page) THEN [query EXCEPT !.step = "failed"]
  ELSE IF page = Candidates THEN [query EXCEPT !.step = "done"]
  ELSE [query EXCEPT !.step = "send", !.cursor = CursorAfter(page)]

(* The page is selected, its reply captured, and the client takes it. *)
ReadPage ==
  /\ serving
  /\ query.step = "read"
  /\ Capture(ReplyTopic)
  /\ \E page \in SUBSET Candidates :
       /\ IsPage(page)
       /\ Decodable(page)
       /\ query' = AfterPage(page)
       /\ IF query.wanted /\ Readable(page)
          THEN /\ collected' = collected \cup page
               /\ ordered' = /\ ordered
                             /\ \A i \in collected, j \in page : Before(i, j)
          ELSE UNCHANGED <<collected, ordered>>
  /\ UNCHANGED <<symbols, writing, serving, restarts, tableVars, queries>>

(* The write of the reply raises in the service's loop. *)
ReplyFails ==
  /\ serving
  /\ query.step = "read"
  /\ serving' = FALSE
  /\ nextSequence' = nextSequence + 1
  /\ query' = [query EXCEPT !.step = "unanswered"]
  /\ UNCHANGED <<fileVars, symbols, writing, restarts, tableVars, queries,
                 collected, ordered>>

ReadPageFails ==
  /\ serving
  /\ query.step = "read"
  /\ \E page \in SUBSET Candidates : IsPage(page) /\ ~Decodable(page)
  /\ ServiceEnds

------------------------------------------------------------------------------
WriterStep(w) == \/ TakeSequence(w) \/ RefuseMessage(w)
                 \/ WriteMessage(w) \/ WriteFirstPart(w) \/ WriteRest(w)

HistoryNext ==
  \/ \E topic \in Topics : RegisterTopic(topic)
  \/ \E w \in Writers : WriterStep(w)
  \/ Restart
  \/ \E topic \in AskedTopics, order \in Orders,
        maxCount \in PageSizes : SelectAll(topic, order, maxCount)
  \/ SendSelection \/ SendSelectionFails
  \/ CancelSelectAll \/ SelectAllReturns
  \/ Refresh \/ RefreshFails
  \/ ReadPage \/ ReadPageFails \/ ReplyFails

(* A writer inside the sink's write finishes it, the client goes on with   *)
(* its loop, and the broker's loop calls the history service's handler.    *)
(* No write has to fail.                                                   *)
HistoryFairness ==
  /\ \A w \in Writers : WF_historyVars(WriteRest(w))
  /\ WF_historyVars(SendSelection)
  /\ WF_historyVars(Refresh \/ RefreshFails)
  /\ WF_historyVars(ReadPage \/ ReadPageFails)

HistorySpec == HistoryInit /\ [][HistoryNext]_historyVars /\ HistoryFairness

------------------------------------------------------------------------------
(* Properties *)

(* The message of line i comes after the registration it was written with. *)
Explained(i) ==
  \E j \in 1..(i - 1) : log[j] = Registration(log[i].id, log[i].topic)

AllExplained == \A i \in 1..Len(log) : IsMessage(log[i]) => Explained(i)

(***************************************************************************)
(* No message whose registration was written is given a name its emitter   *)
(* did not use: IDs start again with each run, and a table that would have *)
(* to change the name of an ID is refused before any message is read.      *)
(***************************************************************************)
NeverMisnamed ==
  \A i \in 1..indexed :
    IsMessage(log[i]) /\ Explained(i) /\ log[i].id \in DOMAIN names =>
      names[log[i].id] = log[i].topic

(***************************************************************************)
(* select_all gives each captured message that matches once and in order:  *)
(* those the file held when the last page was read or, newest first, when  *)
(* the first page was.                                                     *)
(***************************************************************************)
Wanted(i) == /\ IsMessage(log[i])
             /\ query.topic \in {log[i].topic, AnyTopic}

Reached == IF query.order = "descending" THEN query.first ELSE indexed

Exact ==
  query.step = "done" =>
    /\ collected = {i \in 1..Reached : Wanted(i)}
    /\ ordered

(***************************************************************************)
(* While the file has its messages in the order of their sequence numbers  *)
(* and after their registrations, paging is exact, however it falls        *)
(* between registrations, refusals and writes.  A run whose threads write  *)
(* in the order they took their numbers keeps the order; other threads and *)
(* a restart do not.                                                       *)
(***************************************************************************)
InSequence == \A i, j \in 1..Len(log) :
  i < j /\ IsMessage(log[i]) /\ IsMessage(log[j]) =>
    log[i].sequence < log[j].sequence

ExactInSequence == InSequence /\ AllExplained => Exact

(***************************************************************************)
(* The broker ends by its history only when a line of the file is not a    *)
(* record, when two runs gave an ID two names or a name two IDs, when the  *)
(* write of a registration or of the reply raised, or when the selection   *)
(* is refused.                                                             *)
(***************************************************************************)
Registered == {i \in DOMAIN log : ~IsMessage(log[i])}

EndsForACause ==
  ~serving =>
    \/ \E i \in DOMAIN log : ~log[i].readable
    \/ \E i, j \in Registered :
         (log[i].id = log[j].id) # (log[i].topic = log[j].topic)
    \/ ~AllExplained
    \/ query.maxCount = 0
    \/ query.step = "unanswered"

(***************************************************************************)
(* select_all ends although each of its pages adds a request and a reply   *)
(* to the file it reads.  What it selects must not grow faster than pages  *)
(* take it away: newest first it does not grow, a topic of the writers     *)
(* only by what they write, and otherwise a page must hold more than a     *)
(* page adds.                                                              *)
(***************************************************************************)
AddedByPage == IF query.topic = AnyTopic THEN 2
               ELSE IF query.topic \in HistoryTopics THEN 1 ELSE 0

Outpaced == query.order = "ascending" /\ query.maxCount <= AddedByPage

Asking == query.step \in {"send", "ask", "read"}

SelectAllEnds == Asking /\ ~Outpaced ~> ~Asking
==============================================================================
