------------------------------ MODULE Journal ------------------------------
(***************************************************************************)
(* The flight recorder and what replay makes of its file                   *)
(* (src/src/brain/recorder.py, replay.py), with everybody who writes to    *)
(* it: the brain's handlers and senders (server.py) and the language model *)
(* client (llm/client.py).                                                 *)
(*                                                                         *)
(* All of them share one event loop, so a write is one step, and what can  *)
(* come between two writes is whatever another task does.  A record is     *)
(* reduced to what tells it from the others: its topic, the connection it  *)
(* belongs to, its direction and its sender's number, or the call.         *)
(***************************************************************************)
EXTENDS Integers, Sequences, FiniteSets

CONSTANTS
  Conn,      \* connections bodies open; each is a session of its own
  Type,      \* types of the messages that follow the handshake
  Call,      \* calls of LLMClient.complete
  Role,      \* roles a caller may ask for
  Routed,    \* the roles the routing table fills
  Time,      \* readings of the wall clock, at its resolution
  MaxNo,     \* bound: the largest number either end of a session takes
  MaxIndex,  \* bound: the largest index the recorder gives
  MaxLost    \* bound: a write or a sender fails only while no more is lost

ASSUME RoutedAssumption == Routed \subseteq Role
ASSUME TopicAssumption ==
  Type \cap {"session_meta", "hello", "welcome", "reject", "llm_io"} = {}
ASSUME BoundAssumption ==
  Time \subseteq Int /\ MaxNo \in Nat \ {0} /\ {MaxIndex, MaxLost} \subseteq Nat

VARIABLES
  rec,      \* the FlightRecorder: whether it is open, its counters and its file
  handler,  \* where each connection's _handle is
  said,     \* how many messages of each session the brain numbered
  sending,  \* in SessionState.send: messages whose senders hold the socket or wait
  call,     \* where each LLMClient.complete is, or how it ended
  \* Kept for the properties.
  taken,    \* what the brain took from each connection, oldest first
  wire,     \* what it handed to each, oldest first
  lost      \* what of it all will never be on file

vars == <<rec, handler, said, sending, call, taken, wire, lost>>

Topic == Type \cup {"session_meta", "hello", "welcome", "reject", "llm_io"}
Status == {"ok", "refusal", "error"}

\* What a record is about.
Message(c, topic, dir, no) == [topic |-> topic, conn |-> c, dir |-> dir, no |-> no]
Meta(c) == [topic |-> "session_meta", conn |-> c]
Exchange(k, status) == [topic |-> "llm_io", call |-> k, status |-> status]

Passed ==
  [topic : Type \cup {"hello", "welcome", "reject"}, conn : Conn, dir : {"rx", "tx"},
   no : 1 .. MaxNo]
Item ==
  Passed
  \cup [topic : {"session_meta"}, conn : Conn]
  \cup [topic : {"llm_io"}, call : Call, status : Status]

Entry == [item : Item, index : Nat \ {0}, sequence : Nat \ {0}, time : Time]
Recorder ==
  [open : BOOLEAN, count : Nat, sequence : [Topic -> Nat], file : Seq(Entry)]

Items(file) == {file[i].item : i \in DOMAIN file}

TypeOK ==
  /\ rec \in Recorder
  /\ handler \in [Conn -> {"accepting", "welcoming", "serving", "gone"}]
  /\ said \in [Conn -> 0 .. MaxNo]
  /\ sending \in [Conn -> Seq(Passed)]
  /\ taken \in [Conn -> Seq(Passed)]
  /\ wire \in [Conn -> Seq(Passed)]
  /\ call \in [Call -> {"unmade", "unrouted", "waiting", "cancelled"} \cup Status]
  /\ lost \in SUBSET Item

Init ==
  /\ rec = [open |-> FALSE, count |-> 0, sequence |-> [t \in Topic |-> 0],
            file |-> <<>>]
  /\ handler = [c \in Conn |-> "accepting"]
  /\ said = [c \in Conn |-> 0]
  /\ sending = [c \in Conn |-> <<>>]
  /\ taken = [c \in Conn |-> <<>>]
  /\ wire = [c \in Conn |-> <<>>]
  /\ call = [k \in Call |-> "unmade"]
  /\ lost = {}

-----------------------------------------------------------------------------
(* The recorder.                                                           *)

\* A slip: the record carries the count as it was.
EntryUncounted(r, item, t) ==
  [item |-> item, index |-> r.count, sequence |-> r.sequence[item.topic] + 1, time |-> t]

EntryOf(r, item, t) ==
  [item |-> item, index |-> r.count + 1, sequence |-> r.sequence[item.topic] + 1,
   time |-> t]

Counted(r, item, file) ==
  [open |-> TRUE, count |-> r.count + 1,
   sequence |-> [r.sequence EXCEPT ![item.topic] = @ + 1], file |-> file]

\* _write, as the recorders it may leave behind: it raises at once if the
\* recorder is closed, and otherwise counts before it serializes, so that a
\* record which cannot be written has used up its index.  log_time is read
\* off the wall clock, which may be corrected between any two records.
Write(r, item) ==
  IF ~r.open THEN {r}
  ELSE IF r.count = MaxIndex THEN {}
  ELSE {Counted(r, item, r.file)}
       \cup {Counted(r, item, Append(r.file, EntryOf(r, item, t))) : t \in Time}

Loses(items) ==
  /\ lost' = lost \cup items
  /\ items \subseteq lost \/ Cardinality(lost') <= MaxLost

\* Every caller swallows what _write raises.
Journals(item) ==
  /\ rec' \in Write(rec, item)
  /\ Loses({item} \ Items(rec'.file))

\* The file is truncated; the counters of a recorder opened again run on.
OpenRecorder ==
  /\ ~rec.open
  /\ rec' = [rec EXCEPT !.open = TRUE, !.file = <<>>]
  /\ Loses(Items(rec.file))
  /\ UNCHANGED <<handler, said, sending, call, taken, wire>>

CloseRecorder ==
  /\ rec.open
  /\ rec' = [rec EXCEPT !.open = FALSE]
  /\ UNCHANGED <<handler, said, sending, call, taken, wire, lost>>

-----------------------------------------------------------------------------
(* The brain's handler of connection c, and its senders.                   *)

HandlerGoes(c, from, to) ==
  /\ handler[c] = from
  /\ handler' = [handler EXCEPT ![c] = to]

\* _refuse records the reject before it sends it, and outside any session.
Refuses(c) ==
  /\ HandlerGoes(c, "accepting", "gone")
  /\ Journals(Message(c, "reject", "tx", 1))
  /\ UNCHANGED <<said, sending, call, taken, wire>>

\* _open hands the welcome to the socket, and waits.
Welcomes(c) ==
  /\ HandlerGoes(c, "accepting", "welcoming")
  /\ taken' = [taken EXCEPT ![c] = <<Message(c, "hello", "rx", 1)>>]
  /\ said' = [said EXCEPT ![c] = 1]
  /\ wire' = [wire EXCEPT ![c] = <<Message(c, "welcome", "tx", 1)>>]
  /\ UNCHANGED <<rec, sending, call, lost>>

\* The welcome is out: three records with nothing between them, each of
\* which may fail by itself.
SessionOpens(c) ==
  LET hello == Message(c, "hello", "rx", 1)
      welcome == Message(c, "welcome", "tx", 1)
  IN /\ HandlerGoes(c, "welcoming", "serving")
     /\ \E r1 \in Write(rec, Meta(c)) : \E r2 \in Write(r1, hello) :
          rec' \in Write(r2, welcome)
     /\ Loses({Meta(c), hello, welcome} \ Items(rec'.file))
     /\ UNCHANGED <<said, sending, call, taken, wire>>

\* The connection dies under the welcome.
WelcomeFails(c) ==
  /\ HandlerGoes(c, "welcoming", "gone")
  /\ lost' = lost \cup {Message(c, "hello", "rx", 1), Message(c, "welcome", "tx", 1)}
  /\ UNCHANGED <<rec, said, sending, call, taken, wire>>

\* _steady_state takes a frame and records it before it does anything else.
\* One that cannot be decoded is passed over, and leaves no record.
Receives(c, type) ==
  LET message == Message(c, type, "rx", Len(taken[c]) + 1)
  IN /\ handler[c] = "serving"
     /\ message.no <= MaxNo
     /\ taken' = [taken EXCEPT ![c] = Append(@, message)]
     /\ Journals(message)
     /\ UNCHANGED <<handler, said, sending, call, wire>>

SessionEnds(c) ==
  /\ HandlerGoes(c, "serving", "gone")
  /\ UNCHANGED <<rec, said, sending, call, taken, wire, lost>>

\* The socket serves its senders one at a time, in the order they came: the
\* first has handed its frame over and waits for the buffer to drain.
Sending(c, queue) ==
  /\ sending' = [sending EXCEPT ![c] = queue]
  /\ wire' = IF queue # <<>> /\ (sending[c] = <<>> \/ Head(queue) # Head(sending[c]))
             THEN [wire EXCEPT ![c] = Append(@, Head(queue))]
             ELSE wire

\* SessionState.send, up to its wait: any task of the brain's may be sending.
Sends(c, type) ==
  /\ handler[c] = "serving"
  /\ said[c] < MaxNo
  /\ said' = [said EXCEPT ![c] = @ + 1]
  /\ Sending(c, Append(sending[c], Message(c, type, "tx", said'[c])))
  /\ UNCHANGED <<rec, handler, call, taken, lost>>

\* The send returns, and its task records the message in the same step.
SendReturns(c) ==
  /\ sending[c] # <<>>
  /\ Sending(c, Tail(sending[c]))
  /\ Journals(Head(sending[c]))
  /\ UNCHANGED <<handler, said, call, taken>>

Without(s, i) == SubSeq(s, 1, i - 1) \o SubSeq(s, i + 1, Len(s))

\* A slip: the record is made in a finally.
SendInterruptedFinally(c, i) ==
  /\ i \in DOMAIN sending[c]
  /\ Sending(c, Without(sending[c], i))
  /\ Journals(sending[c][i])
  /\ UNCHANGED <<handler, said, call, taken>>

\* A sender is cancelled, or its connection dies: nothing is recorded, and
\* the first one's frame is out already.
SendInterrupted(c, i) ==
  /\ i \in DOMAIN sending[c]
  /\ Sending(c, Without(sending[c], i))
  /\ Loses({sending[c][i]})
  /\ UNCHANGED <<rec, handler, said, call, taken>>

-----------------------------------------------------------------------------
(* LLMClient.complete.                                                     *)

\* provider_for: an unrouted role raises before there is anything to record.
CallStarts(k) ==
  /\ call[k] = "unmade"
  /\ \E role \in Role :
       call' = [call EXCEPT ![k] = IF role \in Routed THEN "waiting" ELSE "unrouted"]
  /\ UNCHANGED <<rec, handler, said, sending, taken, wire, lost>>

\* A slip: except Exception, which a cancellation is not.
CallEndsCaught(k, outcome) ==
  /\ call[k] = "waiting"
  /\ call' = [call EXCEPT ![k] = outcome]
  /\ IF outcome = "cancelled" THEN UNCHANGED <<rec, lost>>
                              ELSE Journals(Exchange(k, outcome))
  /\ UNCHANGED <<handler, said, sending, taken, wire>>

\* Answered, refused, failed or cancelled: the finally records it, the last
\* two as errors, and the caller gets what the provider gave.
CallEnds(k, outcome) ==
  /\ call[k] = "waiting"
  /\ call' = [call EXCEPT ![k] = outcome]
  /\ Journals(Exchange(k, IF outcome = "cancelled" THEN "error" ELSE outcome))
  /\ UNCHANGED <<handler, said, sending, taken, wire>>

-----------------------------------------------------------------------------
Session(c) ==
  \/ Refuses(c) \/ Welcomes(c) \/ SessionOpens(c) \/ WelcomeFails(c)
  \/ \E t \in Type : Receives(c, t) \/ Sends(c, t)
  \/ SendReturns(c) \/ SessionEnds(c)
  \/ \E i \in 1 .. MaxNo : SendInterrupted(c, i)

Next ==
  \/ OpenRecorder \/ CloseRecorder
  \/ \E c \in Conn : Session(c)
  \/ \E k \in Call :
       CallStarts(k) \/ \E o \in Status \cup {"cancelled"} : CallEnds(k, o)

Spec == Init /\ [][Next]_vars

-----------------------------------------------------------------------------
(* read_session.                                                           *)

\* The positions in a file of what is a message to replay: every record but
\* a session_meta.
MessageAt(file) == {i \in DOMAIN file : file[i].item.topic # "session_meta"}
Messages(file) == {file[i] : i \in MessageAt(file)}

\* A record without a message in it ends the reading, and so do two with
\* the same index.
Readable(file) ==
  /\ \A i \in MessageAt(file) : file[i].item.topic # "llm_io"
  /\ \A i, j \in MessageAt(file) : file[i].index = file[j].index => i = j

\* A slip: the order is log_time's, which is the one the reader yields.
ReplayByTime(file) ==
  [n \in 1 .. Cardinality(MessageAt(file)) |->
     file[CHOOSE i \in MessageAt(file) :
            Cardinality({j \in MessageAt(file) :
              \/ file[j].time < file[i].time
              \/ (file[j].time = file[i].time /\ j <= i)}) = n]]

\* Whatever order the reader yields them in, sorted by their index.
Replay(file) ==
  LET messages == Messages(file)
  IN [n \in 1 .. Cardinality(MessageAt(file)) |->
        CHOOSE e \in messages : Cardinality({f \in messages : f.index <= e.index}) = n]

-----------------------------------------------------------------------------
(* What the record promises.                                               *)

\* A file that can be replayed is replayed in the order it was written,
\* whatever the wall clock did between two records, whatever topics they
\* are on and whichever writes failed in between.
ReplayKeepsOrder ==
  Readable(rec.file) =>
    LET replayed == Replay(rec.file)
    IN \A i \in MessageAt(rec.file) :
         replayed[Cardinality(MessageAt(rec.file) \cap 1 .. i)] = rec.file[i]

\* What has been taken or handed over and whose record is not due yet.
Pending(c) ==
  IF handler[c] = "welcoming" THEN {taken[c][1], wire[c][1]}
  ELSE IF sending[c] = <<>> THEN {} ELSE {Head(sending[c])}

\* A message of the session that connection c carried, one way.
SessionTopic == Type \cup {"hello", "welcome"}
Passes(m, c, dir) == m.topic \in SessionTopic /\ m.conn = c /\ m.dir = dir

PlacesOf(file, c, dir) == {i \in DOMAIN file : Passes(file[i].item, c, dir)}
OnFile(file, c, dir) == {file[i].item : i \in PlacesOf(file, c, dir)}

\* The numbers of what is on file of a session rise.
InOrder(file, c, dir) ==
  \A i, j \in PlacesOf(file, c, dir) : i < j => file[i].item.no < file[j].item.no

Rising(stream) ==
  \A i, j \in DOMAIN stream : i < j => stream[i].no < stream[j].no

\* What is on file of a session is what passed over its connection, each way
\* in the order it passed, which is that of its numbers: nothing that never
\* went out, nothing twice, and nothing missing but what failed to be
\* written or whose sender was interrupted.
RecordIsTheWire ==
  \A c \in Conn, dir \in {"rx", "tx"} :
    LET stream == IF dir = "rx" THEN taken[c] ELSE wire[c]
    IN /\ OnFile(rec.file, c, dir)
            = {stream[i] : i \in DOMAIN stream} \ (lost \cup Pending(c))
       /\ InOrder(rec.file, c, dir)
       /\ Rising(stream)

LoggedOnce(file) ==
  \A i \in DOMAIN file : file[i].item.topic = "llm_io" =>
    \A j \in DOMAIN file : file[i].item = file[j].item => i = j

\* Every call that reached a provider and ended is on file once, as what it
\* ended as, unless its record could not be written, and none is before it
\* ended: the caller's cancellation included.
CallsLogged ==
  /\ LET recorded == Items(rec.file) \cup lost
     IN \A k \in Call, s \in Status :
          Exchange(k, s) \in recorded
            <=> call[k] = s \/ (s = "error" /\ call[k] = "cancelled")
  /\ LoggedOnce(rec.file)

\* recorder.py:85-86, ADR-0005 point 4: replay also re-feeds recorded model
\* output, so a finished file with a call in it can be replayed.
ReplayReadsTheFile == ~rec.open => Readable(rec.file)
=============================================================================
