--------------------------- MODULE Journal_proofs ---------------------------
(* Proofs about Journal, for every set of connections, calls, roles and    *)
(* types, every clock and every bound.                                     *)
EXTENDS Journal, TLAPS, SequenceTheorems, FiniteSetTheorems

\* Every item has a topic a channel was registered for.
LEMMA ItemTopic == \A item \in Item : item.topic \in Topic
  BY DEF Item, Passed, Topic

\* _write appends one entry, with an index above all before it, or nothing.
LEMMA WriteOutcome ==
  ASSUME NEW r \in Recorder, NEW item \in Item, NEW r2 \in Write(r, item)
  PROVE  /\ r2 \in Recorder
         /\ \/ r2.file = r.file /\ r2.count \in {r.count, r.count + 1}
            \/ /\ r2.count = r.count + 1
               /\ \E e \in Entry : /\ e.item = item
                                   /\ e.index = r2.count
                                   /\ r2.file = Append(r.file, e)
<1>1. item.topic \in Topic
  BY ItemTopic
<1>2. [r.sequence EXCEPT ![item.topic] = @ + 1] \in [Topic -> Nat]
  BY <1>1 DEF Recorder
<1>3. \A file \in Seq(Entry) :
        /\ Counted(r, item, file) \in Recorder
        /\ Counted(r, item, file).file = file
        /\ Counted(r, item, file).count = r.count + 1
  BY <1>2 DEF Counted, Recorder
<1>4. CASE r2 \in {r, Counted(r, item, r.file)}
  BY <1>3, <1>4 DEF Recorder
<1>5. CASE \E t \in Time : r2 = Counted(r, item, Append(r.file, EntryOf(r, item, t)))
  <2>1. PICK t \in Time : r2 = Counted(r, item, Append(r.file, EntryOf(r, item, t)))
    BY <1>5
  <2>2. /\ EntryOf(r, item, t) \in Entry
        /\ EntryOf(r, item, t).item = item
        /\ EntryOf(r, item, t).index = r.count + 1
    BY <1>1 DEF EntryOf, Entry, Recorder
  <2>3. Append(r.file, EntryOf(r, item, t)) \in Seq(Entry)
    BY <2>2 DEF Recorder
  <2>4. QED
    BY <1>3, <2>1, <2>2, <2>3
<1>6. QED
  BY <1>4, <1>5 DEF Write

\* The three writes that open a session, one after the other.
LEMMA OpeningOutcome ==
  ASSUME TypeOK, NEW c \in Conn, SessionOpens(c)
  PROVE  /\ Meta(c) \in Item
         /\ Message(c, "hello", "rx", 1) \in Passed
         /\ Message(c, "welcome", "tx", 1) \in Passed
         /\ \E r1 \in Write(rec, Meta(c)) :
              \E r2 \in Write(r1, Message(c, "hello", "rx", 1)) :
                /\ rec' \in Write(r2, Message(c, "welcome", "tx", 1))
                /\ r1 \in Recorder
                /\ r2 \in Recorder
                /\ rec' \in Recorder
<1>1. /\ Meta(c) \in Item
      /\ Message(c, "hello", "rx", 1) \in Passed
      /\ Message(c, "welcome", "tx", 1) \in Passed
  BY BoundAssumption DEF Meta, Message, Item, Passed
<1>2. PICK r1 \in Write(rec, Meta(c)) :
        \E r2 \in Write(r1, Message(c, "hello", "rx", 1)) :
          rec' \in Write(r2, Message(c, "welcome", "tx", 1))
  BY DEF SessionOpens
<1>3. PICK r2 \in Write(r1, Message(c, "hello", "rx", 1)) :
        rec' \in Write(r2, Message(c, "welcome", "tx", 1))
  BY <1>2
<1>4. Passed \subseteq Item
  BY DEF Item
<1>5. r1 \in Recorder
  BY <1>1, <1>2, WriteOutcome DEF TypeOK
<1>6. r2 \in Recorder
  BY <1>1, <1>3, <1>4, <1>5, WriteOutcome
<1>7. rec' \in Recorder
  BY <1>1, <1>3, <1>4, <1>6, WriteOutcome
<1>8. QED
  BY <1>1, <1>2, <1>3, <1>5, <1>6, <1>7

\* An entry more is an item more.
LEMMA ItemsAppend ==
  ASSUME NEW file \in Seq(Entry), NEW e \in Entry
  PROVE  Items(Append(file, e)) = Items(file) \cup {e.item}
<1>1. /\ DOMAIN file = 1 .. Len(file)
      /\ DOMAIN Append(file, e) = 1 .. Len(file) + 1
      /\ Len(file) \in Nat
      /\ \A i \in 1 .. Len(file) : Append(file, e)[i] = file[i]
      /\ Append(file, e)[Len(file) + 1] = e
  OBVIOUS
<1>2. \A i \in 1 .. Len(file) + 1 : i \in 1 .. Len(file) \/ i = Len(file) + 1
  BY <1>1
<1>3. 1 .. Len(file) \subseteq 1 .. Len(file) + 1 /\ Len(file) + 1 \in 1 .. Len(file) + 1
  BY <1>1
<1>4. Items(Append(file, e)) \subseteq Items(file) \cup {e.item}
  BY <1>1, <1>2 DEF Items
<1>5. Items(file) \cup {e.item} \subseteq Items(Append(file, e))
  BY <1>1, <1>3 DEF Items
<1>6. QED
  BY <1>4, <1>5

\* A write puts its item on file or leaves the file as it is.
LEMMA WriteItems ==
  ASSUME NEW r \in Recorder, NEW item \in Item, NEW r2 \in Write(r, item)
  PROVE  Items(r2.file) \in {Items(r.file), Items(r.file) \cup {item}}
<1>1. CASE r2.file = r.file
  BY <1>1
<1>2. CASE \E e \in Entry : e.item = item /\ r2.file = Append(r.file, e)
  BY <1>2, ItemsAppend DEF Recorder
<1>3. QED
  BY <1>1, <1>2, WriteOutcome

\* Every item a task accounts for is on file or lost, and nothing that was
\* is forgotten.
LEMMA JournalsOutcome ==
  ASSUME TypeOK, NEW item \in Item, Journals(item)
  PROVE  /\ rec' \in Recorder
         /\ lost' \in SUBSET Item
         /\ Items(rec'.file) \cup lost' = Items(rec.file) \cup lost \cup {item}
<1>1. rec \in Recorder /\ rec' \in Write(rec, item)
  BY DEF TypeOK, Journals
<1>2. rec' \in Recorder
  BY <1>1, WriteOutcome
<1>3. Items(rec'.file) \in {Items(rec.file), Items(rec.file) \cup {item}}
  BY <1>1, WriteItems
<1>4. lost' = lost \cup ({item} \ Items(rec'.file))
  BY DEF Journals, Loses
<1>5. QED
  BY <1>2, <1>3, <1>4 DEF TypeOK

\* The same of the three records of a session that opens.
LEMMA OpeningItems ==
  ASSUME TypeOK, NEW c \in Conn, SessionOpens(c)
  PROVE  /\ rec' \in Recorder
         /\ lost' \in SUBSET Item
         /\ Items(rec'.file) \cup lost'
              = Items(rec.file) \cup lost
                \cup {Meta(c), Message(c, "hello", "rx", 1), Message(c, "welcome", "tx", 1)}
<1> DEFINE hello == Message(c, "hello", "rx", 1)
           welcome == Message(c, "welcome", "tx", 1)
<1>1. /\ Meta(c) \in Item
      /\ hello \in Item
      /\ welcome \in Item
  BY OpeningOutcome DEF Item
<1>2. PICK r1 \in Write(rec, Meta(c)), r2 \in Recorder :
        /\ r1 \in Recorder
        /\ r2 \in Write(r1, hello)
        /\ rec' \in Write(r2, welcome)
        /\ rec' \in Recorder
  BY OpeningOutcome
<1>3. lost' = lost \cup ({Meta(c), hello, welcome} \ Items(rec'.file))
  BY DEF SessionOpens, Loses
<1> HIDE DEF hello, welcome
<1>4. Items(r1.file) \in {Items(rec.file), Items(rec.file) \cup {Meta(c)}}
  BY <1>1, <1>2, WriteItems DEF TypeOK
<1>5. Items(r2.file) \in {Items(r1.file), Items(r1.file) \cup {hello}}
  BY <1>1, <1>2, WriteItems
<1>6. Items(rec'.file) \in {Items(r2.file), Items(r2.file) \cup {welcome}}
  BY <1>1, <1>2, WriteItems
<1>7. Items(rec'.file) \cup lost'
        = Items(rec.file) \cup lost \cup {Meta(c), hello, welcome}
  BY <1>3, <1>4, <1>5, <1>6
<1>8. lost' \in SUBSET Item
  BY <1>1, <1>3 DEF TypeOK
<1>9. QED
  BY <1>2, <1>7, <1>8 DEF hello, welcome

\* Opening the file again forgets what it held, and accounts for it.
LEMMA ReopeningItems ==
  ASSUME TypeOK, OpenRecorder
  PROVE  /\ rec' \in Recorder
         /\ rec'.file = <<>>
         /\ rec'.count = rec.count
         /\ lost' \in SUBSET Item
         /\ Items(rec'.file) \cup lost' = Items(rec.file) \cup lost
<1>1. rec' \in Recorder /\ rec'.file = <<>> /\ rec'.count = rec.count
  <2>1. rec \in Recorder /\ rec' = [rec EXCEPT !.open = TRUE, !.file = <<>>]
    BY DEF OpenRecorder, TypeOK
  <2>2. rec' = [open |-> TRUE, count |-> rec.count, sequence |-> rec.sequence,
                file |-> <<>>]
    BY <2>1 DEF Recorder
  <2>3. rec'.file = <<>> /\ rec'.count = rec.count
    BY <2>2
  <2>4. rec.count \in Nat /\ rec.sequence \in [Topic -> Nat] /\ <<>> \in Seq(Entry)
    BY <2>1 DEF Recorder
  <2>5. rec' \in Recorder
    BY <2>2, <2>4 DEF Recorder
  <2>6. QED
    BY <2>3, <2>5
<1>2. Items(rec'.file) = {}
  BY <1>1 DEF Items
<1>3. lost' = lost \cup Items(rec.file)
  BY DEF OpenRecorder, Loses
<1>4. Items(rec.file) \subseteq Item
  <2>1. \A i \in DOMAIN rec.file : rec.file[i] \in Entry
    BY DEF TypeOK, Recorder
  <2>2. QED
    BY <2>1 DEF Items, Entry
<1>5. QED
  BY <1>1, <1>2, <1>3, <1>4 DEF TypeOK

\* The socket's queue and what it was handed keep their types.
LEMMA SendingType ==
  ASSUME TypeOK, NEW c \in Conn, NEW queue \in Seq(Passed), Sending(c, queue)
  PROVE  sending' \in [Conn -> Seq(Passed)] /\ wire' \in [Conn -> Seq(Passed)]
<1>1. sending' \in [Conn -> Seq(Passed)]
  BY DEF Sending, TypeOK
<1>2. CASE wire' = wire
  BY <1>1, <1>2 DEF TypeOK
<1>3. CASE queue # <<>> /\ wire' = [wire EXCEPT ![c] = Append(@, Head(queue))]
  <2>1. Head(queue) \in Passed
    BY <1>3, HeadTailProperties
  <2>2. Append(wire[c], Head(queue)) \in Seq(Passed)
    BY <2>1 DEF TypeOK
  <2>3. QED
    BY <1>1, <1>3, <2>2 DEF TypeOK
<1>4. QED
  BY <1>2, <1>3 DEF Sending

\* Taking one out of a queue leaves a queue.
LEMMA WithoutType ==
  ASSUME NEW s \in Seq(Passed), NEW i \in DOMAIN s
  PROVE  Without(s, i) \in Seq(Passed) /\ s[i] \in Passed
<1>1. i \in 1 .. Len(s) /\ Len(s) \in Nat /\ \A j \in 1 .. Len(s) : s[j] \in Passed
  OBVIOUS
<1>2. \A j \in 1 .. i - 1 : s[j] \in Passed
  BY <1>1
<1>3. \A j \in i + 1 .. Len(s) : s[j] \in Passed
  BY <1>1
<1>4. SubSeq(s, 1, i - 1) \in Seq(Passed)
  BY <1>1, <1>2, SubSeqProperties
<1>5. SubSeq(s, i + 1, Len(s)) \in Seq(Passed)
  BY <1>1, <1>3, SubSeqProperties
<1>6. QED
  BY <1>1, <1>4, <1>5 DEF Without

\* Every variable of the journal holds a value of its kind.
THEOREM TypeCorrect == Spec => []TypeOK
<1>1. Init => TypeOK
  <2> SUFFICES ASSUME Init PROVE TypeOK
    OBVIOUS
  <2>1. rec \in Recorder
    BY DEF Init, Recorder
  <2>2. QED
    BY <2>1, BoundAssumption DEF Init, TypeOK
<1>2. TypeOK /\ [Next]_vars => TypeOK'
  <2> SUFFICES ASSUME TypeOK, [Next]_vars PROVE TypeOK'
    OBVIOUS
  <2> USE BoundAssumption
  <2>1. CASE OpenRecorder
    <3>1. rec' \in Recorder /\ lost' \in SUBSET Item
      BY <2>1, ReopeningItems
    <3>2. QED
      BY <2>1, <3>1 DEF OpenRecorder, TypeOK
  <2>2. CASE CloseRecorder
    <3>1. rec' \in Recorder
      BY <2>2 DEF CloseRecorder, TypeOK, Recorder
    <3>2. QED
      BY <2>2, <3>1 DEF CloseRecorder, TypeOK
  <2>3. ASSUME NEW c \in Conn, Refuses(c) PROVE TypeOK'
    <3>1. Message(c, "reject", "tx", 1) \in Item
      BY DEF Message, Item, Passed
    <3>2. rec' \in Recorder /\ lost' \in SUBSET Item
      BY <2>3, <3>1, JournalsOutcome DEF Refuses
    <3>3. QED
      BY <2>3, <3>2 DEF Refuses, HandlerGoes, TypeOK
  <2>4. ASSUME NEW c \in Conn, Welcomes(c) PROVE TypeOK'
    <3>1. /\ <<Message(c, "hello", "rx", 1)>> \in Seq(Passed)
          /\ <<Message(c, "welcome", "tx", 1)>> \in Seq(Passed)
      BY DEF Message, Passed
    <3>2. taken' \in [Conn -> Seq(Passed)] /\ wire' \in [Conn -> Seq(Passed)]
      BY <2>4, <3>1 DEF Welcomes, TypeOK
    <3>3. said' \in [Conn -> 0 .. MaxNo]
      BY <2>4 DEF Welcomes, TypeOK
    <3>4. QED
      BY <2>4, <3>2, <3>3 DEF Welcomes, HandlerGoes, TypeOK
  <2>5. ASSUME NEW c \in Conn, SessionOpens(c) PROVE TypeOK'
    <3>1. rec' \in Recorder /\ lost' \in SUBSET Item
      BY <2>5, OpeningItems
    <3>2. QED
      BY <2>5, <3>1 DEF SessionOpens, HandlerGoes, TypeOK
  <2>6. ASSUME NEW c \in Conn, WelcomeFails(c) PROVE TypeOK'
    <3>1. {Message(c, "hello", "rx", 1), Message(c, "welcome", "tx", 1)} \subseteq Item
      BY DEF Message, Item, Passed
    <3>2. lost' \in SUBSET Item
      BY <2>6, <3>1 DEF WelcomeFails, Loses, TypeOK
    <3>3. QED
      BY <2>6, <3>2 DEF WelcomeFails, HandlerGoes, TypeOK
  <2>7. ASSUME NEW c \in Conn, NEW t \in Type, Receives(c, t) PROVE TypeOK'
    <3> DEFINE message == Message(c, t, "rx", Len(taken[c]) + 1)
    <3>1. message \in Passed
      BY <2>7 DEF Receives, Message, Passed, TypeOK
    <3>2. rec' \in Recorder /\ lost' \in SUBSET Item
      BY <2>7, <3>1, JournalsOutcome DEF Receives, Item
    <3>3. taken' \in [Conn -> Seq(Passed)]
      BY <2>7, <3>1 DEF Receives, TypeOK
    <3>4. QED
      BY <2>7, <3>2, <3>3 DEF Receives, TypeOK
  <2>8. ASSUME NEW c \in Conn, NEW t \in Type, Sends(c, t) PROVE TypeOK'
    <3>1. said' \in [Conn -> 0 .. MaxNo] /\ said'[c] \in 1 .. MaxNo
      BY <2>8 DEF Sends, TypeOK
    <3>2. Message(c, t, "tx", said'[c]) \in Passed
      BY <3>1 DEF Message, Passed
    <3>3. Append(sending[c], Message(c, t, "tx", said'[c])) \in Seq(Passed)
      BY <3>2 DEF TypeOK
    <3>4. sending' \in [Conn -> Seq(Passed)] /\ wire' \in [Conn -> Seq(Passed)]
      BY <2>8, <3>3, SendingType DEF Sends
    <3>5. QED
      BY <2>8, <3>1, <3>4 DEF Sends, TypeOK
  <2>9. ASSUME NEW c \in Conn, SendReturns(c) PROVE TypeOK'
    <3>1. Head(sending[c]) \in Passed /\ Tail(sending[c]) \in Seq(Passed)
      BY <2>9, HeadTailProperties DEF SendReturns, TypeOK
    <3>2. sending' \in [Conn -> Seq(Passed)] /\ wire' \in [Conn -> Seq(Passed)]
      BY <2>9, <3>1, SendingType DEF SendReturns
    <3>3. rec' \in Recorder /\ lost' \in SUBSET Item
      BY <2>9, <3>1, JournalsOutcome DEF SendReturns, Item
    <3>4. QED
      BY <2>9, <3>2, <3>3 DEF SendReturns, TypeOK
  <2>10. ASSUME NEW c \in Conn, SessionEnds(c) PROVE TypeOK'
    BY <2>10 DEF SessionEnds, HandlerGoes, TypeOK
  <2>11. ASSUME NEW c \in Conn, NEW i \in 1 .. MaxNo, SendInterrupted(c, i) PROVE TypeOK'
    <3>1. Without(sending[c], i) \in Seq(Passed) /\ sending[c][i] \in Passed
      BY <2>11, WithoutType DEF SendInterrupted, TypeOK
    <3>2. sending' \in [Conn -> Seq(Passed)] /\ wire' \in [Conn -> Seq(Passed)]
      BY <2>11, <3>1, SendingType DEF SendInterrupted
    <3>3. lost' \in SUBSET Item
      BY <2>11, <3>1 DEF SendInterrupted, Loses, Item, TypeOK
    <3>4. QED
      BY <2>11, <3>2, <3>3 DEF SendInterrupted, TypeOK
  <2>12. ASSUME NEW k \in Call, CallStarts(k) PROVE TypeOK'
    BY <2>12 DEF CallStarts, TypeOK
  <2>13. ASSUME NEW k \in Call, NEW o \in Status \cup {"cancelled"}, CallEnds(k, o)
         PROVE  TypeOK'
    <3>1. Exchange(k, IF o = "cancelled" THEN "error" ELSE o) \in Item
      BY DEF Exchange, Item, Status
    <3>2. rec' \in Recorder /\ lost' \in SUBSET Item
      BY <2>13, <3>1, JournalsOutcome DEF CallEnds
    <3>3. call' \in [Call -> {"unmade", "unrouted", "waiting", "cancelled"} \cup Status]
      BY <2>13 DEF CallEnds, TypeOK
    <3>4. QED
      BY <2>13, <3>2, <3>3 DEF CallEnds, TypeOK
  <2>14. CASE UNCHANGED vars
    BY <2>14 DEF vars, TypeOK
  <2>15. QED
    BY <2>1, <2>2, <2>3, <2>4, <2>5, <2>6, <2>7, <2>8, <2>9, <2>10, <2>11, <2>12, <2>13,
       <2>14 DEF Next, Session
<1>3. QED
  BY <1>1, <1>2, PTL DEF Spec

-----------------------------------------------------------------------------
(* CallsLogged is inductive with the types.                                *)

\* What passes over a connection, and what describes one, is not a call.
LEMMA NoExchange ==
  ASSUME NEW k, NEW s
  PROVE  /\ \A m \in Passed : m.topic # "llm_io" /\ m # Exchange(k, s)
         /\ \A c : Meta(c).topic # "llm_io" /\ Meta(c) # Exchange(k, s)
<1>1. \A m \in Passed : m.topic # "llm_io"
  BY TopicAssumption DEF Passed
<1>2. \A c : Meta(c).topic # "llm_io"
  BY DEF Meta
<1>3. Exchange(k, s).topic = "llm_io"
  BY DEF Exchange
<1>4. QED
  BY <1>1, <1>2, <1>3

\* A write keeps the calls on file apart, if what it writes is no call that
\* is there already.
LEMMA WriteLoggedOnce ==
  ASSUME NEW r \in Recorder, NEW item \in Item, NEW r2 \in Write(r, item),
         LoggedOnce(r.file), item.topic = "llm_io" => item \notin Items(r.file)
  PROVE  LoggedOnce(r2.file)
<1>1. CASE r2.file = r.file
  BY <1>1
<1>2. CASE \E e \in Entry : e.item = item /\ r2.file = Append(r.file, e)
  <2>1. PICK e \in Entry : e.item = item /\ r2.file = Append(r.file, e)
    BY <1>2
  <2>2. /\ Len(r.file) \in Nat
        /\ DOMAIN r.file = 1 .. Len(r.file)
        /\ DOMAIN r2.file = 1 .. Len(r.file) + 1
        /\ \A i \in 1 .. Len(r.file) : r2.file[i] = r.file[i]
        /\ r2.file[Len(r.file) + 1] = e
    BY <2>1 DEF Recorder
  <2>3. \A i \in 1 .. Len(r.file) : r.file[i].item \in Items(r.file)
    BY <2>2 DEF Items
  <2>4. SUFFICES ASSUME NEW i \in DOMAIN r2.file, NEW j \in DOMAIN r2.file,
                        r2.file[i].item.topic = "llm_io",
                        r2.file[i].item = r2.file[j].item
                 PROVE  i = j
    BY DEF LoggedOnce
  <2>5. CASE i \in 1 .. Len(r.file) /\ j \in 1 .. Len(r.file)
    BY <2>2, <2>4, <2>5 DEF LoggedOnce
  <2>6. CASE i = Len(r.file) + 1 /\ j \in 1 .. Len(r.file)
    BY <2>1, <2>2, <2>3, <2>4, <2>6
  <2>7. CASE i \in 1 .. Len(r.file) /\ j = Len(r.file) + 1
    BY <2>1, <2>2, <2>3, <2>4, <2>7
  <2>8. QED
    BY <2>2, <2>5, <2>6, <2>7
<1>3. QED
  BY <1>1, <1>2, WriteOutcome

\* A step that ends no call and accounts for no record of one keeps what is
\* said of the calls.
LEMMA NoCallEnds ==
  ASSUME TypeOK, CallsLogged, LoggedOnce(rec'.file),
         NEW items, \A k \in Call, s \in Status : Exchange(k, s) \notin items,
         Items(rec'.file) \cup lost' = Items(rec.file) \cup lost \cup items,
         \A k \in Call : \/ call'[k] = call[k]
                         \/ /\ call[k] \in {"unmade", "waiting"}
                            /\ call'[k] \in {"unrouted", "waiting"}
  PROVE  CallsLogged'
<1>1. \A k \in Call, s \in Status :
        Exchange(k, s) \in Items(rec'.file) \cup lost'
          <=> Exchange(k, s) \in Items(rec.file) \cup lost
  OBVIOUS
<1>2. \A k \in Call, s \in Status :
        call'[k] = s \/ (s = "error" /\ call'[k] = "cancelled")
          <=> call[k] = s \/ (s = "error" /\ call[k] = "cancelled")
  BY DEF Status
<1>3. QED
  BY <1>1, <1>2 DEF CallsLogged

\* One message on record, and no call.
LEMMA JournalsKeepsCalls ==
  ASSUME TypeOK, CallsLogged, NEW m \in Passed, Journals(m), UNCHANGED call
  PROVE  CallsLogged'
<1>1. m \in Item /\ rec \in Recorder /\ rec' \in Write(rec, m) /\ m.topic # "llm_io"
  BY NoExchange DEF Item, TypeOK, Journals
<1>2. LoggedOnce(rec'.file)
  BY <1>1, WriteLoggedOnce DEF CallsLogged
<1>3. Items(rec'.file) \cup lost' = Items(rec.file) \cup lost \cup {m}
  BY <1>1, JournalsOutcome
<1>4. \A k \in Call, s \in Status : Exchange(k, s) \notin {m}
  BY NoExchange
<1>5. QED
  BY <1>2, <1>3, <1>4, NoCallEnds

\* Every call that reached a provider and ended is on file once, as what it
\* ended as, or failed to be written.
THEOREM CallsAreLogged == Spec => []CallsLogged
<1>1. Init => CallsLogged
  BY DEF Init, CallsLogged, LoggedOnce, Items, Status
<1>2. TypeOK /\ CallsLogged /\ [Next]_vars => CallsLogged'
  <2> SUFFICES ASSUME TypeOK, CallsLogged, [Next]_vars PROVE CallsLogged'
    OBVIOUS
  <2>1. CASE OpenRecorder
    <3>1. /\ rec'.file = <<>>
          /\ Items(rec'.file) \cup lost' = Items(rec.file) \cup lost \cup {}
      BY <2>1, ReopeningItems
    <3>2. LoggedOnce(rec'.file)
      BY <3>1 DEF LoggedOnce
    <3>3. QED
      BY <2>1, <3>1, <3>2, NoCallEnds DEF OpenRecorder
  <2>2. CASE CloseRecorder
    <3>1. rec'.file = rec.file
      BY <2>2 DEF CloseRecorder, TypeOK, Recorder
    <3>2. QED
      BY <2>2, <3>1 DEF CloseRecorder, CallsLogged
  <2>3. ASSUME NEW c \in Conn, Refuses(c) PROVE CallsLogged'
    <3>1. Message(c, "reject", "tx", 1) \in Passed
      BY BoundAssumption DEF Message, Passed
    <3>2. QED
      BY <2>3, <3>1, JournalsKeepsCalls DEF Refuses
  <2>4. ASSUME NEW c \in Conn, SessionOpens(c) PROVE CallsLogged'
    <3> DEFINE hello == Message(c, "hello", "rx", 1)
               welcome == Message(c, "welcome", "tx", 1)
    <3>1. /\ Meta(c) \in Item /\ hello \in Passed /\ welcome \in Passed
          /\ hello \in Item /\ welcome \in Item
      BY <2>4, OpeningOutcome DEF Item
    <3>2. PICK r1 \in Write(rec, Meta(c)), r2 \in Recorder :
            /\ r1 \in Recorder
            /\ r2 \in Write(r1, hello)
            /\ rec' \in Write(r2, welcome)
      BY <2>4, OpeningOutcome
    <3> HIDE DEF hello, welcome
    <3>3. /\ Meta(c).topic # "llm_io"
          /\ hello.topic # "llm_io"
          /\ welcome.topic # "llm_io"
      BY <3>1, NoExchange
    <3>4. LoggedOnce(r1.file)
      BY <3>1, <3>2, <3>3, WriteLoggedOnce DEF CallsLogged, TypeOK
    <3>5. LoggedOnce(r2.file)
      BY <3>1, <3>2, <3>3, <3>4, WriteLoggedOnce
    <3>6. LoggedOnce(rec'.file)
      BY <3>1, <3>2, <3>3, <3>5, WriteLoggedOnce
    <3>7. Items(rec'.file) \cup lost'
            = Items(rec.file) \cup lost \cup {Meta(c), hello, welcome}
      BY <2>4, OpeningItems DEF hello, welcome
    <3>8. \A k \in Call, s \in Status : Exchange(k, s) \notin {Meta(c), hello, welcome}
      BY <3>1, NoExchange
    <3>9. call' = call
      BY <2>4 DEF SessionOpens
    <3>10. QED
      BY <3>6, <3>7, <3>8, <3>9, NoCallEnds
  <2>5. ASSUME NEW c \in Conn, WelcomeFails(c) PROVE CallsLogged'
    <3> DEFINE items == {Message(c, "hello", "rx", 1), Message(c, "welcome", "tx", 1)}
    <3>1. items \subseteq Passed
      BY BoundAssumption DEF Message, Passed
    <3>2. rec' = rec /\ lost' = lost \cup items /\ call' = call
      BY <2>5 DEF WelcomeFails, Loses
    <3> HIDE DEF items
    <3>3. \A k \in Call, s \in Status : Exchange(k, s) \notin items
      BY <3>1, NoExchange
    <3>4. Items(rec'.file) \cup lost' = Items(rec.file) \cup lost \cup items
      BY <3>2
    <3>5. LoggedOnce(rec'.file)
      BY <3>2 DEF CallsLogged
    <3>6. QED
      BY <3>2, <3>3, <3>4, <3>5, NoCallEnds
  <2>6. ASSUME NEW c \in Conn, NEW t \in Type, Receives(c, t) PROVE CallsLogged'
    <3> DEFINE message == Message(c, t, "rx", Len(taken[c]) + 1)
    <3>1. message \in Passed
      BY <2>6 DEF Receives, Message, Passed, TypeOK
    <3>2. QED
      BY <2>6, <3>1, JournalsKeepsCalls DEF Receives
  <2>7. ASSUME NEW c \in Conn, SendReturns(c) PROVE CallsLogged'
    <3>1. Head(sending[c]) \in Passed
      BY <2>7, HeadTailProperties DEF SendReturns, TypeOK
    <3>2. QED
      BY <2>7, <3>1, JournalsKeepsCalls DEF SendReturns
  <2>8. ASSUME NEW c \in Conn, NEW i \in 1 .. MaxNo, SendInterrupted(c, i)
        PROVE  CallsLogged'
    <3>1. sending[c][i] \in Passed
      BY <2>8, WithoutType DEF SendInterrupted, TypeOK
    <3>2. rec' = rec /\ lost' = lost \cup {sending[c][i]} /\ call' = call
      BY <2>8 DEF SendInterrupted, Loses
    <3>3. \A k \in Call, s \in Status : Exchange(k, s) \notin {sending[c][i]}
      BY <3>1, NoExchange
    <3>4. Items(rec'.file) \cup lost' = Items(rec.file) \cup lost \cup {sending[c][i]}
      BY <3>2
    <3>5. LoggedOnce(rec'.file)
      BY <3>2 DEF CallsLogged
    <3>6. QED
      BY <3>2, <3>3, <3>4, <3>5, NoCallEnds
  <2>9. CASE \E c \in Conn :
               \/ Welcomes(c) \/ SessionEnds(c) \/ \E t \in Type : Sends(c, t)
    BY <2>9 DEF Welcomes, SessionEnds, Sends, CallsLogged
  <2>10. ASSUME NEW k \in Call, CallStarts(k) PROVE CallsLogged'
    <3>1. rec' = rec /\ lost' = lost
      BY <2>10 DEF CallStarts
    <3>2. \A l \in Call : \/ call'[l] = call[l]
                          \/ /\ call[l] \in {"unmade", "waiting"}
                             /\ call'[l] \in {"unrouted", "waiting"}
      BY <2>10 DEF CallStarts, TypeOK
    <3>3. /\ \A l \in Call, s \in Status :
               Exchange(l, s) \in Items(rec'.file) \cup lost'
                 <=> Exchange(l, s) \in Items(rec.file) \cup lost
          /\ LoggedOnce(rec'.file)
      BY <3>1 DEF CallsLogged
    <3>4. \A l \in Call, s \in Status :
            call'[l] = s \/ (s = "error" /\ call'[l] = "cancelled")
              <=> call[l] = s \/ (s = "error" /\ call[l] = "cancelled")
      BY <3>2 DEF Status
    <3>5. QED
      BY <3>3, <3>4 DEF CallsLogged
  <2>11. ASSUME NEW k \in Call, NEW o \in Status \cup {"cancelled"}, CallEnds(k, o)
         PROVE  CallsLogged'
    <3> DEFINE status == IF o = "cancelled" THEN "error" ELSE o
    <3>1. status \in Status /\ Exchange(k, status) \in Item
      BY DEF Exchange, Item, Status
    <3>2. /\ call[k] = "waiting"
          /\ call' = [call EXCEPT ![k] = o]
          /\ Journals(Exchange(k, status))
      BY <2>11 DEF CallEnds
    <3>3. Exchange(k, status) \notin Items(rec.file)
      BY <3>1, <3>2 DEF CallsLogged, Status
    <3>4. LoggedOnce(rec'.file)
      BY <3>1, <3>2, <3>3, WriteLoggedOnce DEF Journals, CallsLogged, TypeOK
    <3>5. Items(rec'.file) \cup lost' = Items(rec.file) \cup lost \cup {Exchange(k, status)}
      BY <3>1, <3>2, JournalsOutcome
    <3>6. ASSUME NEW l \in Call, NEW s \in Status
          PROVE  Exchange(l, s) \in Items(rec'.file) \cup lost'
                   <=> call'[l] = s \/ (s = "error" /\ call'[l] = "cancelled")
      <4>1. Exchange(l, s) = Exchange(k, status) <=> l = k /\ s = status
        BY DEF Exchange
      <4>2. CASE l # k
        <5>1. call'[l] = call[l]
          BY <3>2, <4>2 DEF TypeOK
        <5>2. QED
          BY <3>5, <4>1, <4>2, <5>1 DEF CallsLogged
      <4>3. CASE l = k
        <5>1. call'[l] = o
          BY <3>2, <4>3 DEF TypeOK
        <5>2. Exchange(l, s) \notin Items(rec.file) \cup lost
          BY <3>2, <4>3 DEF CallsLogged, Status
        <5>3. s = status <=> o = s \/ (s = "error" /\ o = "cancelled")
          BY DEF Status
        <5>4. QED
          BY <3>5, <4>1, <4>3, <5>1, <5>2, <5>3
      <4>4. QED
        BY <4>2, <4>3
    <3>7. QED
      BY <3>4, <3>6 DEF CallsLogged
  <2>12. CASE UNCHANGED vars
    BY <2>12 DEF vars, CallsLogged
  <2>13. QED
    BY <2>1, <2>2, <2>3, <2>4, <2>5, <2>6, <2>7, <2>8, <2>9, <2>10, <2>11, <2>12
       DEF Next, Session
<1>3. QED
  BY <1>1, <1>2, TypeCorrect, PTL DEF Spec

-----------------------------------------------------------------------------
(* Replay keeps the order of the file, because the indices in it increase. *)

Increasing(file) ==
  \A i, j \in DOMAIN file : i < j => file[i].index < file[j].index

\* The strengthening: no index in the file is above the count.
Indexed(r) ==
  /\ Increasing(r.file)
  /\ \A i \in DOMAIN r.file : r.file[i].index <= r.count

\* The positions and the indices of a file are numbers.
LEMMA EntryAt ==
  ASSUME NEW file \in Seq(Entry), NEW i \in DOMAIN file
  PROVE  /\ i \in 1 .. Len(file) /\ i \in Nat
         /\ file[i] \in Entry
         /\ file[i].index \in Nat
<1>1. i \in 1 .. Len(file) /\ file[i] \in Entry
  OBVIOUS
<1>2. QED
  BY <1>1 DEF Entry

\* _write keeps the indices in order, whether its record gets there or not.
LEMMA WriteIndexed ==
  ASSUME NEW r \in Recorder, NEW item \in Item, NEW r2 \in Write(r, item), Indexed(r)
  PROVE  Indexed(r2)
<1>1. r.count \in Nat
  BY DEF Recorder
<1>2. \A i \in DOMAIN r.file : r.file[i].index \in Nat
  BY EntryAt DEF Recorder
<1>3. CASE r2.file = r.file /\ r2.count \in {r.count, r.count + 1}
  BY <1>1, <1>2, <1>3 DEF Indexed
<1>4. CASE /\ r2.count = r.count + 1
           /\ \E e \in Entry : e.index = r2.count /\ r2.file = Append(r.file, e)
  <2>1. PICK e \in Entry : e.index = r2.count /\ r2.file = Append(r.file, e)
    BY <1>4
  <2>2. /\ Len(r.file) \in Nat
        /\ DOMAIN r.file = 1 .. Len(r.file)
        /\ DOMAIN r2.file = 1 .. Len(r.file) + 1
        /\ \A i \in 1 .. Len(r.file) : r2.file[i] = r.file[i]
        /\ r2.file[Len(r.file) + 1] = e
    BY <2>1 DEF Recorder
  <2>3. \A i \in 1 .. Len(r.file) : r2.file[i].index \in Nat /\ r2.file[i].index <= r.count
    BY <1>2, <2>2 DEF Indexed
  <2>4. \A i \in DOMAIN r2.file : r2.file[i].index <= r2.count
    BY <1>1, <1>4, <2>1, <2>2, <2>3
  <2>5. Increasing(r2.file)
    <3>1. SUFFICES ASSUME NEW i \in DOMAIN r2.file, NEW j \in DOMAIN r2.file, i < j
                   PROVE  r2.file[i].index < r2.file[j].index
      BY DEF Increasing
    <3>2. CASE j \in 1 .. Len(r.file)
      BY <2>2, <3>1, <3>2 DEF Indexed, Increasing
    <3>3. CASE j = Len(r.file) + 1
      BY <1>1, <1>4, <2>1, <2>2, <2>3, <3>1, <3>3
    <3>4. QED
      BY <2>2, <3>2, <3>3
  <2>6. QED
    BY <2>4, <2>5 DEF Indexed
<1>5. QED
  BY <1>3, <1>4, WriteOutcome

\* Sorting a file whose indices increase by its indices changes nothing: the
\* record at position i comes out in the place of the messages up to i.
LEMMA SortIsIdentity ==
  ASSUME NEW file \in Seq(Entry), Increasing(file), NEW i \in MessageAt(file)
  PROVE  Replay(file)[Cardinality(MessageAt(file) \cap 1 .. i)] = file[i]
<1> DEFINE M == MessageAt(file)
           UpTo(k) == M \cap 1 .. k
           Below(e) == {f \in Messages(file) : f.index <= e.index}
<1>1. /\ Len(file) \in Nat
      /\ M \subseteq 1 .. Len(file)
      /\ \A k \in M : file[k] \in Entry /\ file[k].index \in Nat /\ k \in Nat
  BY EntryAt DEF MessageAt
<1>2. IsFiniteSet(M)
  <2>1. IsFiniteSet(1 .. Len(file))
    BY <1>1, FS_Interval
  <2>2. QED
    BY <1>1, <2>1, FS_Subset
<1>3. \A k : IsFiniteSet(UpTo(k)) /\ Cardinality(UpTo(k)) \in Nat
             /\ Cardinality(UpTo(k)) <= Cardinality(M)
  BY <1>2, FS_Subset, FS_CardinalityType
<1>4. \A k, l \in M : file[k].index <= file[l].index <=> k <= l
  BY <1>1 DEF Increasing, MessageAt
<1>5. ASSUME NEW k \in M
      PROVE  Cardinality(Below(file[k])) = Cardinality(UpTo(k))
  <2>1. Below(file[k]) = {file[l] : l \in UpTo(k)}
    BY <1>1, <1>4 DEF Messages
  <2> DEFINE at == [l \in UpTo(k) |-> file[l]]
  <2>2. at \in Bijection(UpTo(k), Below(file[k]))
    <3>1. at \in [UpTo(k) -> Below(file[k])]
      BY <2>1
    <3>2. \A l, m \in UpTo(k) : at[l] = at[m] => l = m
      BY <1>1, <1>4
    <3>3. \A e \in Below(file[k]) : \E l \in UpTo(k) : at[l] = e
      BY <2>1
    <3> HIDE DEF at, UpTo, Below
    <3>4. at \in Injection(UpTo(k), Below(file[k]))
      BY <3>1, <3>2 DEF Injection, IsInjective
    <3>5. at \in Surjection(UpTo(k), Below(file[k]))
      BY <3>1, <3>3 DEF Surjection
    <3>6. QED
      BY <3>4, <3>5 DEF Bijection
  <2>3. ExistsBijection(UpTo(k), Below(file[k]))
    BY <2>2 DEF ExistsBijection
  <2>4. QED
    BY <1>3, <2>3, FS_Bijection
<1>6. ASSUME NEW k \in M, NEW l \in M, k < l
      PROVE  Cardinality(UpTo(k)) # Cardinality(UpTo(l))
  <2>1. UpTo(k) \in SUBSET UpTo(l) /\ l \in UpTo(l) /\ l \notin UpTo(k)
    BY <1>1, <1>6
  <2>2. QED
    BY <1>3, <2>1, FS_Subset
<1>7. ASSUME NEW k \in M, Cardinality(Below(file[k])) = Cardinality(UpTo(i))
      PROVE  k = i
  <2>1. k \in Nat /\ i \in Nat /\ i \in M
    BY <1>1
  <2>2. Cardinality(UpTo(k)) = Cardinality(UpTo(i))
    BY <1>5, <1>7
  <2> HIDE DEF M, UpTo, Below
  <2>3. ~(k < i) /\ ~(i < k)
    BY <1>6, <2>1, <2>2
  <2>4. QED
    BY <2>1, <2>3
<1>8. Cardinality(UpTo(i)) \in 1 .. Cardinality(M)
  <2>1. i \in UpTo(i)
    BY <1>1
  <2>2. Cardinality(UpTo(i)) # 0
    BY <1>3, <2>1, FS_EmptySet
  <2>3. Cardinality(M) \in Nat
    BY <1>2, FS_CardinalityType
  <2>4. Cardinality(UpTo(i)) \in Nat /\ Cardinality(UpTo(i)) <= Cardinality(M)
    BY <1>3
  <2> HIDE DEF M, UpTo
  <2>5. QED
    BY <2>2, <2>3, <2>4
<1> DEFINE n == Cardinality(UpTo(i))
           first == CHOOSE e \in Messages(file) : Cardinality(Below(e)) = n
<1>9. Replay(file)[n] = first
  BY <1>8 DEF Replay
<1>10. file[i] \in Messages(file) /\ Cardinality(Below(file[i])) = n
  BY <1>5 DEF Messages
<1>11. first \in Messages(file) /\ Cardinality(Below(first)) = n
  BY <1>10
<1>12. PICK k \in M : first = file[k]
  BY <1>11 DEF Messages
<1>13. first = file[i]
  BY <1>7, <1>11, <1>12
<1>14. QED
  BY <1>9, <1>13

\* The indices in the file increase, and none is above the count.
THEOREM IndicesIncrease == Spec => []Indexed(rec)
<1>1. Init => Indexed(rec)
  BY DEF Init, Indexed, Increasing
<1>2. TypeOK /\ Indexed(rec) /\ [Next]_vars => Indexed(rec)'
  <2> SUFFICES ASSUME TypeOK, Indexed(rec), [Next]_vars PROVE Indexed(rec')
    OBVIOUS
  <2>1. ASSUME NEW item \in Item, Journals(item) PROVE Indexed(rec')
    BY <2>1, WriteIndexed DEF Journals, TypeOK
  <2>2. CASE OpenRecorder
    BY <2>2, ReopeningItems DEF Indexed, Increasing
  <2>3. CASE CloseRecorder
    <3>1. rec'.file = rec.file /\ rec'.count = rec.count
      BY <2>3 DEF CloseRecorder, TypeOK, Recorder
    <3>2. QED
      BY <3>1 DEF Indexed
  <2>4. ASSUME NEW c \in Conn, Refuses(c) PROVE Indexed(rec')
    <3>1. Message(c, "reject", "tx", 1) \in Item
      BY BoundAssumption DEF Message, Item, Passed
    <3>2. QED
      BY <2>1, <2>4, <3>1 DEF Refuses
  <2>5. ASSUME NEW c \in Conn, SessionOpens(c) PROVE Indexed(rec')
    <3> DEFINE hello == Message(c, "hello", "rx", 1)
               welcome == Message(c, "welcome", "tx", 1)
    <3>1. Meta(c) \in Item /\ hello \in Item /\ welcome \in Item
      BY <2>5, OpeningOutcome DEF Item
    <3>2. PICK r1 \in Write(rec, Meta(c)), r2 \in Recorder :
            /\ r1 \in Recorder
            /\ r2 \in Write(r1, hello)
            /\ rec' \in Write(r2, welcome)
      BY <2>5, OpeningOutcome
    <3> HIDE DEF hello, welcome
    <3>3. Indexed(r1)
      BY <3>1, <3>2, WriteIndexed DEF TypeOK
    <3>4. Indexed(r2)
      BY <3>1, <3>2, <3>3, WriteIndexed
    <3>5. QED
      BY <3>1, <3>2, <3>4, WriteIndexed
  <2>6. ASSUME NEW c \in Conn, NEW t \in Type, Receives(c, t) PROVE Indexed(rec')
    <3> DEFINE message == Message(c, t, "rx", Len(taken[c]) + 1)
    <3>1. message \in Item
      BY <2>6 DEF Receives, Message, Item, Passed, TypeOK
    <3>2. QED
      BY <2>1, <2>6, <3>1 DEF Receives
  <2>7. ASSUME NEW c \in Conn, SendReturns(c) PROVE Indexed(rec')
    <3>1. Head(sending[c]) \in Item
      BY <2>7, HeadTailProperties DEF SendReturns, Item, TypeOK
    <3>2. QED
      BY <2>1, <2>7, <3>1 DEF SendReturns
  <2>8. ASSUME NEW k \in Call, NEW o \in Status \cup {"cancelled"}, CallEnds(k, o)
        PROVE  Indexed(rec')
    <3>1. Exchange(k, IF o = "cancelled" THEN "error" ELSE o) \in Item
      BY DEF Exchange, Item, Status
    <3>2. QED
      BY <2>1, <2>8, <3>1 DEF CallEnds
  <2>9. CASE \/ UNCHANGED vars
             \/ \E k \in Call : CallStarts(k)
             \/ \E c \in Conn : Welcomes(c) \/ WelcomeFails(c) \/ SessionEnds(c)
    BY <2>9 DEF vars, CallStarts, Welcomes, WelcomeFails, SessionEnds
  <2>10. CASE \E c \in Conn : \/ \E t \in Type : Sends(c, t)
                             \/ \E i \in 1 .. MaxNo : SendInterrupted(c, i)
    BY <2>10 DEF Sends, SendInterrupted
  <2>11. ASSUME NEW c \in Conn, Session(c) PROVE Indexed(rec')
    BY <2>4, <2>5, <2>6, <2>7, <2>9, <2>10, <2>11 DEF Session
  <2>12. QED
    BY <2>2, <2>3, <2>8, <2>9, <2>11 DEF Next
<1>3. QED
  BY <1>1, <1>2, TypeCorrect, PTL DEF Spec

\* A file that can be replayed is replayed in the order it was written.
THEOREM ReplayIsInOrder == Spec => []ReplayKeepsOrder
<1>1. TypeOK /\ Indexed(rec) => ReplayKeepsOrder
  BY SortIsIdentity DEF TypeOK, Recorder, Indexed, ReplayKeepsOrder
<1>2. QED
  BY <1>1, TypeCorrect, IndicesIncrease, PTL

\* No two records of one file have the same index: _check_indices never
\* refuses what this recorder wrote.
THEOREM IndicesDistinct ==
  Spec => [](\A i, j \in DOMAIN rec.file : rec.file[i].index = rec.file[j].index => i = j)
<1>1. TypeOK /\ Indexed(rec) =>
        \A i, j \in DOMAIN rec.file : rec.file[i].index = rec.file[j].index => i = j
  <2> SUFFICES ASSUME TypeOK, Indexed(rec), NEW i \in DOMAIN rec.file,
                      NEW j \in DOMAIN rec.file, rec.file[i].index = rec.file[j].index
               PROVE  i = j
    OBVIOUS
  <2>1. /\ i \in Nat /\ j \in Nat
        /\ rec.file[i].index \in Nat /\ rec.file[j].index \in Nat
    BY EntryAt DEF TypeOK, Recorder
  <2>2. QED
    BY <2>1 DEF Indexed, Increasing
<1>2. QED
  BY <1>1, TypeCorrect, IndicesIncrease, PTL

-----------------------------------------------------------------------------
(* RecordIsTheWire, and the strengthening that makes it inductive.         *)

Hello(c) == Message(c, "hello", "rx", 1)
Welcome(c) == Message(c, "welcome", "tx", 1)

Stream(c, dir) == IF dir = "rx" THEN taken[c] ELSE wire[c]
Elements(s) == {s[i] : i \in DOMAIN s}

\* Where the handler of a connection is, and what has passed over it by then.
Stage(c) ==
  /\ handler[c] \in {"accepting", "welcoming"} => sending[c] = <<>>
  /\ handler[c] = "accepting" => taken[c] = <<>> /\ wire[c] = <<>> /\ said[c] = 0
  /\ handler[c] = "welcoming" =>
       taken[c] = <<Hello(c)>> /\ wire[c] = <<Welcome(c)>> /\ said[c] = 1

\* What was taken is numbered from one, without a gap.
Counts(c) ==
  \A i \in DOMAIN taken[c] : Passes(taken[c][i], c, "rx") /\ taken[c][i].no = i

\* What the brain numbered: on the wire, in a queue, or neither any more.
Numbered(c, s) ==
  /\ \A i \in DOMAIN s : Passes(s[i], c, "tx") /\ s[i].no <= said[c]
  /\ Rising(s)

\* The first of the queue is the last that was handed over.
Queue(c) ==
  sending[c] # <<>> => wire[c] # <<>> /\ wire[c][Len(wire[c])] = sending[c][1]

\* What is lost was numbered, and nothing is whose record is still to be made.
Unlost(c) ==
  /\ \A m \in lost : /\ Passes(m, c, "rx") => m.no <= Len(taken[c])
                     /\ Passes(m, c, "tx") => m.no <= said[c]
  /\ \A i \in DOMAIN sending[c] : sending[c][i] \notin lost
  /\ handler[c] = "welcoming" => Hello(c) \notin lost /\ Welcome(c) \notin lost

Carried(c) ==
  /\ Stage(c) /\ Counts(c) /\ Queue(c) /\ Unlost(c)
  /\ Numbered(c, wire[c]) /\ Numbered(c, sending[c])

\* RecordIsTheWire of one connection, one way.
Filed(c, dir) ==
  /\ OnFile(rec.file, c, dir) = Elements(Stream(c, dir)) \ (lost \cup Pending(c))
  /\ InOrder(rec.file, c, dir)

Recorded(c) == Carried(c) /\ Filed(c, "rx") /\ Filed(c, "tx")
AllRecorded == \A c \in Conn : Recorded(c)

\* What is on file of a session, as a part of what is on file.
LEMMA OnFileItems ==
  \A file, c, dir : OnFile(file, c, dir) = {m \in Items(file) : Passes(m, c, dir)}
BY DEF OnFile, PlacesOf, Items

\* A message of a session has a number; what describes a session, refuses
\* one or is a call is not one.
LEMMA PassesNumbered ==
  ASSUME NEW m \in Item, NEW c, NEW dir, Passes(m, c, dir)
  PROVE  m \in Passed /\ m.no \in Nat
<1>1. m.topic \notin {"session_meta", "llm_io"}
  BY TopicAssumption DEF Passes, SessionTopic
<1>2. QED
  BY <1>1, BoundAssumption DEF Item, Passed

\* What is recorded of no session at all.
LEMMA PassesNot ==
  ASSUME NEW d, NEW dir
  PROVE  /\ \A c : ~Passes(Meta(c), d, dir)
         /\ \A c, no : ~Passes(Message(c, "reject", "tx", no), d, dir)
         /\ \A k, s : ~Passes(Exchange(k, s), d, dir)
  BY TopicAssumption DEF Passes, SessionTopic, Meta, Message, Exchange

\* A message of one session, one way, is none of another's or the other way.
LEMMA PassesOne ==
  ASSUME NEW c \in Conn, NEW d \in Conn, NEW topic \in Type \cup {"hello", "welcome"},
         NEW dir, NEW way, NEW no
  PROVE  /\ Passes(Message(c, topic, dir, no), d, way) <=> d = c /\ way = dir
         /\ Message(c, topic, dir, no).no = no
  BY DEF Passes, SessionTopic, Message

\* The same of the two messages that open a session.
LEMMA OpeningPasses ==
  ASSUME NEW c \in Conn, NEW d \in Conn, NEW way
  PROVE  /\ Passes(Hello(c), d, way) <=> d = c /\ way = "rx"
         /\ Passes(Welcome(c), d, way) <=> d = c /\ way = "tx"
         /\ Hello(c).no = 1 /\ Welcome(c).no = 1
  BY DEF Passes, SessionTopic, Message, Hello, Welcome

\* A write of a message numbered above all that is on file of its session
\* keeps the numbers in order; a write of anything else does too.
LEMMA WriteInOrder ==
  ASSUME NEW r \in Recorder, NEW item \in Item, NEW r2 \in Write(r, item),
         NEW c \in Conn, NEW dir, InOrder(r.file, c, dir),
         Passes(item, c, dir) => \A m \in OnFile(r.file, c, dir) : m.no < item.no
  PROVE  InOrder(r2.file, c, dir)
<1>1. CASE r2.file = r.file
  BY <1>1
<1>2. CASE \E e \in Entry : e.item = item /\ r2.file = Append(r.file, e)
  <2>1. PICK e \in Entry : e.item = item /\ r2.file = Append(r.file, e)
    BY <1>2
  <2>2. /\ Len(r.file) \in Nat
        /\ DOMAIN r.file = 1 .. Len(r.file)
        /\ DOMAIN r2.file = 1 .. Len(r.file) + 1
        /\ \A i \in 1 .. Len(r.file) : r2.file[i] = r.file[i]
        /\ r2.file[Len(r.file) + 1] = e
    BY <2>1 DEF Recorder
  <2>3. SUFFICES ASSUME NEW i \in DOMAIN r2.file, NEW j \in DOMAIN r2.file, i < j,
                        Passes(r2.file[i].item, c, dir), Passes(r2.file[j].item, c, dir)
                 PROVE  r2.file[i].item.no < r2.file[j].item.no
    BY DEF InOrder, PlacesOf
  <2>4. i \in 1 .. Len(r.file)
    BY <2>2, <2>3
  <2>5. CASE j \in 1 .. Len(r.file)
    <3>1. r2.file[i] = r.file[i] /\ r2.file[j] = r.file[j]
      BY <2>2, <2>4, <2>5
    <3>2. QED
      BY <2>2, <2>3, <2>4, <2>5, <3>1 DEF InOrder, PlacesOf
  <2>6. CASE j = Len(r.file) + 1
    <3>1. r2.file[j].item = item /\ r2.file[i] = r.file[i]
      BY <2>1, <2>2, <2>4, <2>6
    <3>2. r.file[i].item \in OnFile(r.file, c, dir)
      BY <2>2, <2>3, <2>4, <3>1, OnFileItems DEF Items
    <3>3. QED
      BY <2>3, <3>1, <3>2
  <2>7. QED
    BY <2>2, <2>3, <2>5, <2>6
<1>3. QED
  BY <1>1, <1>2, WriteOutcome

\* What a write does to what is on file of a session.
LEMMA WriteOnFile ==
  ASSUME NEW r \in Recorder, NEW item \in Item, NEW r2 \in Write(r, item),
         NEW c, NEW dir
  PROVE  /\ ~Passes(item, c, dir) => OnFile(r2.file, c, dir) = OnFile(r.file, c, dir)
         /\ Passes(item, c, dir) =>
              OnFile(r2.file, c, dir)
                = OnFile(r.file, c, dir) \cup ({item} \cap Items(r2.file))
<1>1. Items(r2.file) \in {Items(r.file), Items(r.file) \cup {item}}
  BY WriteItems
<1>2. QED
  BY <1>1, OnFileItems

\* The same of a task that accounts for its item.
LEMMA JournalsOnFile ==
  ASSUME TypeOK, NEW item \in Item, Journals(item), NEW c \in Conn, NEW dir,
         InOrder(rec.file, c, dir),
         Passes(item, c, dir) => \A m \in OnFile(rec.file, c, dir) : m.no < item.no
  PROVE  /\ InOrder(rec'.file, c, dir)
         /\ ~Passes(item, c, dir) => OnFile(rec'.file, c, dir) = OnFile(rec.file, c, dir)
         /\ Passes(item, c, dir) =>
              OnFile(rec'.file, c, dir)
                = OnFile(rec.file, c, dir) \cup ({item} \cap Items(rec'.file))
         /\ lost' = lost \cup ({item} \ Items(rec'.file))
<1>1. rec \in Recorder /\ rec' \in Write(rec, item)
  BY DEF TypeOK, Journals
<1>2. lost' = lost \cup ({item} \ Items(rec'.file))
  BY DEF Journals, Loses
<1>3. QED
  BY <1>1, <1>2, WriteInOrder, WriteOnFile

\* Taking one out of a queue moves those behind it up.
LEMMA WithoutElements ==
  ASSUME NEW s \in Seq(Passed), NEW i \in DOMAIN s
  PROVE  /\ Len(Without(s, i)) = Len(s) - 1
         /\ \A j \in 1 .. Len(s) - 1 :
              Without(s, i)[j] = IF j < i THEN s[j] ELSE s[j + 1]
<1>1. i \in 1 .. Len(s) /\ Len(s) \in Nat /\ \A j \in 1 .. Len(s) : s[j] \in Passed
  OBVIOUS
<1> DEFINE front == SubSeq(s, 1, i - 1)
           back == SubSeq(s, i + 1, Len(s))
<1>2. /\ front \in Seq(Passed)
      /\ Len(front) = i - 1
      /\ \A j \in 1 .. i - 1 : front[j] = s[j]
  <2>1. \A j \in 1 .. i - 1 : s[j] \in Passed
    BY <1>1
  <2>2. QED
    BY <1>1, <2>1, SubSeqProperties
<1>3. /\ back \in Seq(Passed)
      /\ Len(back) = Len(s) - i
      /\ \A j \in 1 .. Len(s) - i : back[j] = s[i + j]
  <2>1. \A j \in i + 1 .. Len(s) : s[j] \in Passed
    BY <1>1
  <2>2. back \in Seq(Passed)
    BY <1>1, <2>1, SubSeqProperties
  <2>3. Len(back) = Len(s) - i
    BY <1>1, <2>1, SubSeqProperties
  <2>4. \A j \in 1 .. Len(s) - i : back[j] = s[i + j]
    BY <1>1, <2>1, SubSeqProperties
  <2>5. QED
    BY <2>2, <2>3, <2>4
<1> HIDE DEF front, back
<1>4. Without(s, i) = front \o back
  BY DEF Without, front, back
<1>5. /\ Len(front \o back) = Len(s) - 1
      /\ \A j \in 1 .. Len(s) - 1 :
           (front \o back)[j] = IF j <= i - 1 THEN front[j] ELSE back[j - (i - 1)]
  <2>1. /\ Len(front \o back) = Len(front) + Len(back)
        /\ \A j \in 1 .. Len(front) + Len(back) :
             (front \o back)[j]
               = IF j <= Len(front) THEN front[j] ELSE back[j - Len(front)]
    BY <1>2, <1>3, ConcatProperties
  <2>2. Len(front) + Len(back) = Len(s) - 1
    BY <1>1, <1>2, <1>3
  <2>3. QED
    BY <1>2, <2>1, <2>2
<1>6. ASSUME NEW j \in 1 .. Len(s) - 1
      PROVE  (front \o back)[j] = IF j < i THEN s[j] ELSE s[j + 1]
  <2>1. CASE j < i
    <3>1. j \in 1 .. i - 1
      BY <1>1, <2>1
    <3>2. QED
      BY <1>2, <1>5, <2>1, <3>1
  <2>2. CASE ~(j < i)
    <3>1. j - (i - 1) \in 1 .. Len(s) - i /\ i + (j - (i - 1)) = j + 1 /\ ~(j <= i - 1)
      BY <1>1, <2>2
    <3>2. (front \o back)[j] = back[j - (i - 1)]
      BY <1>5, <3>1
    <3>3. QED
      BY <1>3, <2>2, <3>1, <3>2
  <2>3. QED
    BY <2>1, <2>2
<1>7. QED
  BY <1>4, <1>5, <1>6

\* The first leaves the queue: the rest of it is what is left.
LEMMA TailIsWithout ==
  ASSUME NEW s \in Seq(Passed), s # <<>>
  PROVE  1 \in DOMAIN s /\ Head(s) = s[1] /\ Tail(s) = Without(s, 1)
<1>1. 1 \in DOMAIN s /\ Head(s) = s[1] /\ Len(s) \in Nat
  OBVIOUS
<1>2. /\ Tail(s) \in Seq(Passed)
      /\ Len(Tail(s)) = Len(s) - 1
      /\ \A j \in 1 .. Len(s) - 1 : Tail(s)[j] = s[j + 1]
  BY HeadTailProperties
<1>3. /\ Without(s, 1) \in Seq(Passed)
      /\ Len(Without(s, 1)) = Len(s) - 1
      /\ \A j \in 1 .. Len(s) - 1 : Without(s, 1)[j] = s[j + 1]
  BY <1>1, WithoutType, WithoutElements
<1>4. Tail(s) = Without(s, 1)
  BY <1>1, <1>2, <1>3, SeqEqual
<1>5. QED
  BY <1>1, <1>4

\* What is due of a session, by where its handler is.
LEMMA PendingOf ==
  ASSUME TypeOK, NEW c \in Conn, Stage(c)
  PROVE  /\ handler[c] = "welcoming" => Pending(c) = {Hello(c), Welcome(c)}
         /\ handler[c] = "accepting" => Pending(c) = {}
         /\ handler[c] # "welcoming" =>
              Pending(c) = IF sending[c] = <<>> THEN {} ELSE {sending[c][1]}
<1>1. sending[c] # <<>> => Head(sending[c]) = sending[c][1]
  BY TailIsWithout DEF TypeOK
<1>2. QED
  BY <1>1 DEF Stage, Pending, TypeOK

\* Each message of a session has a number of its own, which says where in
\* the stream it is.
LEMMA StreamNumbers ==
  ASSUME TypeOK, NEW c \in Conn, Carried(c), NEW dir \in {"rx", "tx"}
  PROVE  /\ Stream(c, dir) \in Seq(Passed)
         /\ \A i \in DOMAIN Stream(c, dir) :
              Passes(Stream(c, dir)[i], c, dir) /\ Stream(c, dir)[i].no \in Nat
         /\ Rising(Stream(c, dir))
         /\ \A m \in Elements(Stream(c, dir)) :
              m \in Passed /\ m.no \in Nat /\ Passes(m, c, dir)
                /\ m.no <= IF dir = "rx" THEN Len(taken[c]) ELSE said[c]
<1>1. Stream(c, dir) \in Seq(Passed)
  BY DEF Stream, TypeOK
<1>2. \A m \in Passed : m.no \in Nat
  BY BoundAssumption DEF Passed
<1>3. \A i \in DOMAIN Stream(c, dir) :
        Stream(c, dir)[i] \in Passed /\ Stream(c, dir)[i].no \in Nat /\ i \in 1 .. Len(Stream(c, dir))
  BY <1>1, <1>2
<1>4. CASE dir = "rx"
  BY <1>1, <1>3, <1>4 DEF Stream, Carried, Counts, Rising, Elements
<1>5. CASE dir = "tx"
  BY <1>1, <1>3, <1>5 DEF Stream, Carried, Numbered, Elements
<1>6. QED
  BY <1>4, <1>5

\* The queue is numbered above what is on the wire, but for its first, which
\* is the last of the wire.
LEMMA QueueAhead ==
  ASSUME TypeOK, NEW c \in Conn, Carried(c), NEW k \in DOMAIN sending[c]
  PROVE  /\ sending[c][k] \in Passed /\ sending[c][k].no \in Nat
         /\ k = 1 => sending[c][k] \in Elements(wire[c])
         /\ k # 1 => \A m \in Elements(wire[c]) : m.no < sending[c][k].no
         /\ \A m \in Elements(wire[c]) : m.no < sending[c][k].no \/ m = sending[c][k]
<1> DEFINE s == sending[c]
           w == wire[c]
<1>1. /\ s \in Seq(Passed) /\ w \in Seq(Passed)
      /\ Len(s) \in Nat /\ Len(w) \in Nat
      /\ k \in 1 .. Len(s) /\ 1 \in DOMAIN s
      /\ \A j \in DOMAIN s : s[j] \in Passed
      /\ \A j \in DOMAIN w : w[j] \in Passed /\ j \in 1 .. Len(w)
  BY DEF TypeOK
<1>2. \A m \in Passed : m.no \in Nat
  BY BoundAssumption DEF Passed
<1>3. w # <<>> /\ w[Len(w)] = s[1] /\ Len(w) \in DOMAIN w
  BY <1>1 DEF Carried, Queue
<1>4. Rising(w) /\ Rising(s)
  BY DEF Carried, Numbered
<1> HIDE DEF s, w
<1>5. \A j \in DOMAIN w : w[j].no < s[1].no \/ w[j] = s[1]
  BY <1>1, <1>3, <1>4 DEF Rising
<1>6. k # 1 => s[1].no < s[k].no
  BY <1>1, <1>4 DEF Rising
<1>7. k # 1 => \A j \in DOMAIN w : w[j].no < s[k].no
  <2> SUFFICES ASSUME k # 1, NEW j \in DOMAIN w PROVE w[j].no < s[k].no
    OBVIOUS
  <2>1. w[j].no \in Nat /\ s[1].no \in Nat /\ s[k].no \in Nat
    BY <1>1, <1>2
  <2>2. QED
    BY <1>5, <1>6, <2>1
<1>8. QED
  BY <1>1, <1>2, <1>3, <1>5, <1>7 DEF Elements, s, w

\* A step that leaves a session's messages where they are, and loses and
\* writes none of them.
LEMMA Frame ==
  ASSUME TypeOK, TypeOK', NEW c \in Conn, Recorded(c),
         said'[c] = said[c], sending'[c] = sending[c],
         taken'[c] = taken[c], wire'[c] = wire[c],
         handler'[c] = handler[c]
           \/ (handler[c] # "welcoming" /\ handler'[c] \notin {"accepting", "welcoming"}),
         lost \subseteq lost',
         \A m \in lost' \ lost, dir \in {"rx", "tx"} : ~Passes(m, c, dir),
         \A dir \in {"rx", "tx"} :
           /\ OnFile(rec'.file, c, dir) = OnFile(rec.file, c, dir)
           /\ InOrder(rec'.file, c, dir)
  PROVE  Recorded(c)'
<1>1. /\ Stage(c)' /\ Counts(c)' /\ Queue(c)'
      /\ Numbered(c, wire[c])' /\ Numbered(c, sending[c])'
  BY DEF Recorded, Carried, Stage, Counts, Queue, Numbered
<1>2. Unlost(c)'
  <2>1. \A m \in lost' : \/ m \in lost
                         \/ ~Passes(m, c, "rx") /\ ~Passes(m, c, "tx")
    OBVIOUS
  <2>2. \A m \in lost' : /\ Passes(m, c, "rx") => m.no <= Len(taken'[c])
                         /\ Passes(m, c, "tx") => m.no <= said'[c]
    BY <2>1 DEF Recorded, Carried, Unlost
  <2>3. \A i \in DOMAIN sending'[c] : sending'[c][i] \notin lost'
    BY <2>1 DEF Recorded, Carried, Unlost, Numbered
  <2>4. handler'[c] = "welcoming" => Hello(c) \notin lost' /\ Welcome(c) \notin lost'
    <3>1. Passes(Hello(c), c, "rx") /\ Passes(Welcome(c), c, "tx")
      BY PassesOne DEF Hello, Welcome
    <3>2. QED
      BY <2>1, <3>1 DEF Recorded, Carried, Unlost
  <2>5. QED
    BY <2>2, <2>3, <2>4 DEF Unlost
<1>3. Pending(c)' = Pending(c)
  BY <1>1, PendingOf DEF Recorded, Carried, Pending
<1>4. ASSUME NEW dir \in {"rx", "tx"} PROVE Filed(c, dir)'
  <2>1. Stream(c, dir)' = Stream(c, dir)
    BY DEF Stream
  <2>2. \A m \in Elements(Stream(c, dir)) : m \in lost' <=> m \in lost
    BY StreamNumbers DEF Recorded
  <2>3. Filed(c, dir)
    BY DEF Recorded
  <2>4. OnFile(rec'.file, c, dir) = Elements(Stream(c, dir)) \ (lost' \cup Pending(c))
    BY <2>2, <2>3 DEF Filed
  <2>5. QED
    BY <1>3, <2>1, <2>4 DEF Filed
<1>5. QED
  BY <1>1, <1>2, <1>4 DEF Recorded, Carried

\* An item of no session, or of another's, recorded or lost.
LEMMA JournalsElsewhere ==
  ASSUME TypeOK, TypeOK', NEW item \in Item, Journals(item), NEW c \in Conn, Recorded(c),
         said'[c] = said[c], sending'[c] = sending[c],
         taken'[c] = taken[c], wire'[c] = wire[c],
         handler'[c] = handler[c]
           \/ (handler[c] # "welcoming" /\ handler'[c] \notin {"accepting", "welcoming"}),
         \A dir \in {"rx", "tx"} : ~Passes(item, c, dir)
  PROVE  Recorded(c)'
<1>1. ASSUME NEW dir \in {"rx", "tx"}
      PROVE  /\ InOrder(rec'.file, c, dir)
             /\ OnFile(rec'.file, c, dir) = OnFile(rec.file, c, dir)
  <2>1. InOrder(rec.file, c, dir)
    BY DEF Recorded, Filed
  <2>2. QED
    BY <2>1, JournalsOnFile
<1>2. lost \subseteq lost' /\ lost' \ lost \subseteq {item}
  BY DEF Journals, Loses
<1>3. QED
  BY <1>1, <1>2, Frame

\* Taking message i out of the queue, whether it was sent or not: the next in
\* line is handed over if the first has left.
LEMMA Leaves ==
  ASSUME TypeOK, TypeOK', NEW c \in Conn, Carried(c), NEW i \in DOMAIN sending[c],
         Sending(c, Without(sending[c], i)),
         handler' = handler, said' = said, taken' = taken
  PROVE  LET m == sending[c][i]
         IN /\ Stage(c)' /\ Counts(c)' /\ Queue(c)'
            /\ Numbered(c, wire[c])' /\ Numbered(c, sending[c])'
            /\ \A j \in DOMAIN sending'[c] :
                 \E k \in DOMAIN sending[c] : k # i /\ sending'[c][j] = sending[c][k]
            /\ \A k \in DOMAIN sending[c] : k # i => sending[c][k] # m
            /\ m \notin lost /\ m \notin Elements(wire[c]) \ Pending(c)
            /\ Elements(wire'[c]) \ Pending(c)'
                 = (Elements(wire[c]) \ Pending(c)) \cup (IF i = 1 THEN {m} ELSE {})
            /\ i = 1 => \A n \in Elements(wire[c]) \ Pending(c) : n.no < m.no
            /\ \A d \in Conn \ {c} : sending'[d] = sending[d] /\ wire'[d] = wire[d]
<1> DEFINE s == sending[c]
           w == wire[c]
           q == Without(s, i)
           m == s[i]
<1>1. /\ s \in Seq(Passed) /\ w \in Seq(Passed) /\ q \in Seq(Passed)
      /\ Len(s) \in Nat /\ Len(w) \in Nat /\ Len(q) \in Nat /\ Len(q) = Len(s) - 1
      /\ DOMAIN s = 1 .. Len(s) /\ DOMAIN q = 1 .. Len(s) - 1 /\ DOMAIN w = 1 .. Len(w)
      /\ i \in 1 .. Len(s) /\ s # <<>>
      /\ \A j \in 1 .. Len(s) - 1 : q[j] = IF j < i THEN s[j] ELSE s[j + 1]
      /\ \A k \in DOMAIN s : s[k].no \in Nat
  <2>1. s \in Seq(Passed) /\ w \in Seq(Passed) /\ i \in DOMAIN s
    BY DEF TypeOK
  <2>2. q \in Seq(Passed) /\ Len(q) = Len(s) - 1
    BY <2>1, WithoutType, WithoutElements
  <2>3. \A j \in 1 .. Len(s) - 1 : q[j] = IF j < i THEN s[j] ELSE s[j + 1]
    BY <2>1, WithoutElements
  <2> HIDE DEF q
  <2>4. QED
    BY <2>1, <2>2, <2>3, QueueAhead
<1>2. /\ sending'[c] = q
      /\ wire'[c] = IF q # <<>> /\ Head(q) # Head(s) THEN Append(w, Head(q)) ELSE w
      /\ \A d \in Conn \ {c} : sending'[d] = sending[d] /\ wire'[d] = wire[d]
  BY <1>1 DEF Sending, TypeOK
<1>3. handler[c] \notin {"accepting", "welcoming"}
  BY <1>1 DEF Carried, Stage
<1>4. Rising(s) /\ Rising(w) /\ w # <<>> /\ w[Len(w)] = s[1]
  BY <1>1 DEF Carried, Numbered, Queue
<1> HIDE DEF q, s, w
<1>5. /\ q # <<>> => Head(q) = q[1] /\ 1 \in DOMAIN q
      /\ Head(s) = s[1] /\ 1 \in DOMAIN s
      /\ q = <<>> <=> Len(s) = 1
  BY <1>1, TailIsWithout
<1>6. \A j, k \in DOMAIN s : s[j] = s[k] => j = k
  <2> SUFFICES ASSUME NEW j \in DOMAIN s, NEW k \in DOMAIN s, s[j] = s[k] PROVE j = k
    OBVIOUS
  <2>1. ~(j < k) /\ ~(k < j)
    BY <1>1, <1>4 DEF Rising
  <2>2. QED
    BY <1>1, <2>1
<1>7. \A j \in DOMAIN q : \E k \in DOMAIN s : k # i /\ q[j] = s[k]
  <2> SUFFICES ASSUME NEW j \in DOMAIN q PROVE \E k \in DOMAIN s : k # i /\ q[j] = s[k]
    OBVIOUS
  <2>1. CASE j < i
    BY <1>1, <2>1
  <2>2. CASE ~(j < i)
    <3>1. j + 1 \in DOMAIN s /\ j + 1 # i /\ q[j] = s[j + 1]
      BY <1>1, <2>2
    <3>2. QED
      BY <3>1
  <2>3. QED
    BY <2>1, <2>2
<1>8. Rising(q)
  <2> SUFFICES ASSUME NEW j \in DOMAIN q, NEW k \in DOMAIN q, j < k
               PROVE  q[j].no < q[k].no
    BY DEF Rising
  <2> DEFINE at(n) == IF n < i THEN n ELSE n + 1
  <2>1. at(j) \in DOMAIN s /\ at(k) \in DOMAIN s /\ at(j) < at(k)
    BY <1>1
  <2>2. q[j] = s[at(j)] /\ q[k] = s[at(k)]
    BY <1>1
  <2> HIDE DEF at
  <2>3. QED
    BY <1>4, <2>1, <2>2 DEF Rising
<1>9. Numbered(c, sending[c])'
  <2>1. \A k \in DOMAIN s : Passes(s[k], c, "tx") /\ s[k].no <= said[c]
    BY DEF Carried, Numbered, s
  <2>2. QED
    BY <1>2, <1>7, <1>8, <2>1 DEF Numbered
<1>10. Pending(c) = {s[1]} /\ Pending(c)' = IF q = <<>> THEN {} ELSE {q[1]}
  <2>1. Stage(c)'
    BY <1>2, <1>3 DEF Stage
  <2>2. Pending(c) = IF s = <<>> THEN {} ELSE {s[1]}
    BY <1>3, PendingOf DEF Carried, s
  <2>3. sending'[c] # <<>> => Head(sending'[c]) = sending'[c][1]
    BY <1>2, <1>5
  <2>4. QED
    BY <1>1, <1>2, <1>3, <2>2, <2>3 DEF Pending
<1>11. /\ s[1] \in Elements(w)
       /\ \A n \in Elements(w) : n.no < s[1].no \/ n = s[1]
       /\ \A k \in DOMAIN s : k # 1 => \A n \in Elements(w) : n.no < s[k].no
       /\ \A k \in DOMAIN s : k # 1 => s[k] \notin Elements(w)
  <2>1. \A k \in DOMAIN s : k # 1 => \A n \in Elements(w) : n.no < s[k].no
    BY QueueAhead DEF s, w
  <2>2. \A n \in Elements(w) : n.no < s[1].no \/ n = s[1]
    BY <1>5, QueueAhead DEF s, w
  <2>3. s[1] \in Elements(w)
    BY <1>5, QueueAhead DEF s, w
  <2>4. QED
    BY <1>1, <2>1, <2>2, <2>3
<1>12. Unlost(c)
  BY DEF Carried
<1>13. m \notin lost /\ m \notin Elements(w) \ Pending(c)
  BY <1>1, <1>10, <1>11, <1>12 DEF Unlost, s
<1>14. Stage(c)' /\ Counts(c)'
  BY <1>2, <1>3 DEF Stage, Counts, Carried
<1>15. ASSUME i = 1 /\ q # <<>>
       PROVE  /\ Numbered(c, wire[c])' /\ Queue(c)'
              /\ Elements(wire'[c]) \ Pending(c)'
                   = (Elements(w) \ Pending(c)) \cup (IF i = 1 THEN {m} ELSE {})
  <2>1. q[1] = s[2] /\ 2 \in DOMAIN s
    BY <1>1, <1>5, <1>15
  <2>2. wire'[c] = Append(w, s[2])
    BY <1>2, <1>5, <1>6, <1>15, <2>1
  <2>3. /\ DOMAIN wire'[c] = 1 .. Len(w) + 1
        /\ Len(wire'[c]) = Len(w) + 1
        /\ wire'[c][Len(w) + 1] = s[2]
        /\ \A j \in 1 .. Len(w) : wire'[c][j] = w[j]
    BY <1>1, <2>2
  <2>4. Elements(wire'[c]) = Elements(w) \cup {s[2]}
    <3>1. Elements(wire'[c]) \subseteq Elements(w) \cup {s[2]}
      <4> SUFFICES ASSUME NEW j \in DOMAIN wire'[c]
                   PROVE  wire'[c][j] \in Elements(w) \cup {s[2]}
        BY DEF Elements
      <4>1. CASE j = Len(w) + 1
        BY <2>3, <4>1
      <4>2. CASE j # Len(w) + 1
        <5>1. j \in 1 .. Len(w) /\ DOMAIN w = 1 .. Len(w)
          BY <1>1, <2>3, <4>2
        <5>2. QED BY <2>3, <5>1 DEF Elements
      <4>3. QED BY <4>1, <4>2
    <3>2. Elements(w) \subseteq Elements(wire'[c])
      <4>1. 1 .. Len(w) \subseteq DOMAIN wire'[c]
        BY <1>1, <2>3
      <4>2. QED
        BY <1>1, <2>3, <4>1 DEF Elements
    <3>3. s[2] \in Elements(wire'[c])
      <4>1. Len(w) + 1 \in DOMAIN wire'[c]
        BY <1>1, <2>3
      <4>2. QED
        BY <2>3, <4>1 DEF Elements
    <3>4. QED
      BY <3>1, <3>2, <3>3
  <2>5. Numbered(c, wire[c])'
    <3>1. Rising(wire'[c])
      <4> SUFFICES ASSUME NEW j \in DOMAIN wire'[c], NEW k \in DOMAIN wire'[c], j < k
                   PROVE  wire'[c][j].no < wire'[c][k].no
        BY DEF Rising
      <4>1. j \in 1 .. Len(w)
        BY <1>1, <2>3
      <4>2. CASE k = Len(w) + 1
        <5>1. wire'[c][j] \in Elements(w) /\ wire'[c][k] = s[2]
          BY <1>1, <2>3, <4>1, <4>2 DEF Elements
        <5>2. QED
          BY <1>11, <2>1, <5>1
      <4>3. CASE k # Len(w) + 1
        <5>1. k \in 1 .. Len(w)
          BY <1>1, <2>3, <4>3
        <5>2. QED
          BY <1>1, <1>4, <2>3, <4>1, <5>1 DEF Rising
      <4>4. QED
        BY <4>2, <4>3
    <3>2. \A j \in DOMAIN wire'[c] :
            Passes(wire'[c][j], c, "tx") /\ wire'[c][j].no <= said[c]
      <4>1. Passes(s[2], c, "tx") /\ s[2].no <= said[c]
        BY <2>1 DEF Carried, Numbered, s
      <4>2. \A j \in 1 .. Len(w) : Passes(w[j], c, "tx") /\ w[j].no <= said[c]
        BY <1>1 DEF Carried, Numbered, w
      <4>3. QED
        BY <2>3, <4>1, <4>2
    <3>3. QED
      BY <3>1, <3>2 DEF Numbered
  <2>6. Queue(c)'
    BY <1>1, <1>2, <2>1, <2>3 DEF Queue
  <2>7. Elements(wire'[c]) \ Pending(c)' = (Elements(w) \ Pending(c)) \cup {m}
    <3>1. Pending(c)' = {s[2]} /\ m = s[1]
      BY <1>10, <1>15, <2>1
    <3>2. s[2] \notin Elements(w)
      BY <1>11, <2>1
    <3>3. QED
      BY <1>10, <1>11, <2>4, <3>1, <3>2
  <2>8. QED
    BY <1>15, <2>5, <2>6, <2>7
<1>16. ASSUME i = 1 /\ q = <<>>
       PROVE  /\ Numbered(c, wire[c])' /\ Queue(c)'
              /\ Elements(wire'[c]) \ Pending(c)'
                   = (Elements(w) \ Pending(c)) \cup (IF i = 1 THEN {m} ELSE {})
  <2>1. wire'[c] = w
    BY <1>2, <1>16
  <2>2. Numbered(c, wire[c])' /\ Queue(c)'
    BY <1>2, <1>16, <2>1 DEF Numbered, Queue, Carried, w
  <2>3. Elements(wire'[c]) \ Pending(c)' = (Elements(w) \ Pending(c)) \cup {m}
    BY <1>10, <1>11, <1>16, <2>1
  <2>4. QED
    BY <1>16, <2>2, <2>3
<1>17. ASSUME i # 1
       PROVE  /\ Numbered(c, wire[c])' /\ Queue(c)'
              /\ Elements(wire'[c]) \ Pending(c)'
                   = (Elements(w) \ Pending(c)) \cup (IF i = 1 THEN {m} ELSE {})
  <2>1. q # <<>> /\ q[1] = s[1]
    BY <1>1, <1>5, <1>17
  <2>2. wire'[c] = w
    BY <1>2, <1>5, <2>1
  <2>3. Numbered(c, wire[c])' /\ Queue(c)'
    BY <1>2, <1>4, <2>1, <2>2 DEF Numbered, Queue, Carried, w
  <2>4. Elements(wire'[c]) \ Pending(c)' = Elements(w) \ Pending(c)
    BY <1>10, <2>1, <2>2
  <2>5. QED
    BY <1>17, <2>3, <2>4
<1>18. /\ Numbered(c, wire[c])' /\ Queue(c)'
       /\ Elements(wire'[c]) \ Pending(c)'
            = (Elements(w) \ Pending(c)) \cup (IF i = 1 THEN {m} ELSE {})
  BY <1>15, <1>16, <1>17
<1>19. i = 1 => \A n \in Elements(w) \ Pending(c) : n.no < m.no
  BY <1>10, <1>11
<1>20. \A k \in DOMAIN s : k # i => s[k] # m
  BY <1>1, <1>6
<1>21. \A j \in DOMAIN sending'[c] : \E k \in DOMAIN s : k # i /\ sending'[c][j] = s[k]
  BY <1>2, <1>7
<1>22. QED
  BY <1>2, <1>9, <1>13, <1>14, <1>18, <1>19, <1>20, <1>21 DEF s, w

\* A message leaves the queue, and what becomes of it is on file or lost as
\* it had been handed over or not: the step's part in the record.
LEMMA LeavesRecorded ==
  ASSUME TypeOK, TypeOK', NEW c \in Conn, Recorded(c), NEW i \in DOMAIN sending[c],
         Sending(c, Without(sending[c], i)),
         handler' = handler, said' = said, taken' = taken,
         \/ i = 1 /\ Journals(sending[c][i])
         \/ rec' = rec /\ lost' = lost \cup {sending[c][i]}
  PROVE  Recorded(c)'
<1> DEFINE m == sending[c][i]
<1>1. Carried(c) /\ Filed(c, "rx") /\ Filed(c, "tx")
  BY DEF Recorded
<1>2. /\ Stage(c)' /\ Counts(c)' /\ Queue(c)'
      /\ Numbered(c, wire[c])' /\ Numbered(c, sending[c])'
  BY <1>1, Leaves
<1>3. /\ \A j \in DOMAIN sending'[c] :
           \E k \in DOMAIN sending[c] : k # i /\ sending'[c][j] = sending[c][k]
      /\ \A k \in DOMAIN sending[c] : k # i => sending[c][k] # m
      /\ m \notin lost /\ m \notin Elements(wire[c]) \ Pending(c)
      /\ Elements(wire'[c]) \ Pending(c)'
           = (Elements(wire[c]) \ Pending(c)) \cup (IF i = 1 THEN {m} ELSE {})
      /\ i = 1 => \A n \in Elements(wire[c]) \ Pending(c) : n.no < m.no
  BY <1>1, Leaves
<1>4. m \in Item /\ Passes(m, c, "tx") /\ ~Passes(m, c, "rx") /\ m.no <= said[c]
  <2>1. m \in Passed
    BY <1>1, QueueAhead
  <2>2. Passes(m, c, "tx") /\ m.no <= said[c]
    BY <1>1 DEF Carried, Numbered
  <2>3. QED
    BY <2>1, <2>2 DEF Item, Passes, SessionTopic
<1>5. handler[c] \notin {"accepting", "welcoming"}
  <2>1. sending[c] # <<>>
    OBVIOUS
  <2>2. QED
    BY <1>1, <2>1 DEF Carried, Stage
<1> HIDE DEF m
<1>6. /\ lost' = lost \cup ({m} \ OnFile(rec'.file, c, "tx"))
           \/ (rec' = rec /\ lost' = lost \cup {m})
      /\ \A dir \in {"rx", "tx"} : InOrder(rec'.file, c, dir)
      /\ OnFile(rec'.file, c, "rx") = OnFile(rec.file, c, "rx")
      /\ OnFile(rec'.file, c, "tx") = OnFile(rec.file, c, "tx")
           \cup ({m} \cap OnFile(rec'.file, c, "tx"))
  <2>1. CASE rec' = rec /\ lost' = lost \cup {m}
    BY <1>1, <2>1 DEF Filed
  <2>2. CASE i = 1 /\ Journals(m)
    <3>1. \A n \in OnFile(rec.file, c, "tx") : n.no < m.no
      BY <1>1, <1>3, <2>2 DEF Filed, Stream
    <3>2. /\ \A dir \in {"rx", "tx"} : InOrder(rec'.file, c, dir)
          /\ OnFile(rec'.file, c, "rx") = OnFile(rec.file, c, "rx")
          /\ OnFile(rec'.file, c, "tx")
               = OnFile(rec.file, c, "tx") \cup ({m} \cap Items(rec'.file))
          /\ lost' = lost \cup ({m} \ Items(rec'.file))
      BY <1>1, <1>4, <2>2, <3>1, JournalsOnFile DEF Filed
    <3>3. m \in Items(rec'.file) <=> m \in OnFile(rec'.file, c, "tx")
      BY <1>4, OnFileItems
    <3>4. QED
      BY <3>2, <3>3
  <2>3. QED
    BY <2>1, <2>2 DEF m
<1>7. OnFile(rec.file, c, "tx") = (Elements(wire[c]) \ Pending(c)) \ lost
  BY <1>1 DEF Filed, Stream
<1>8. lost \subseteq lost' /\ lost' \subseteq lost \cup {m}
  BY <1>6
<1>9. OnFile(rec'.file, c, "tx") = (Elements(wire'[c]) \ Pending(c)') \ lost'
  <2>1. CASE i = 1 /\ Journals(m)
    <3>1. Elements(wire'[c]) \ Pending(c)' = (Elements(wire[c]) \ Pending(c)) \cup {m}
      BY <1>3, <2>1
    <3>2. lost' = lost \cup ({m} \ OnFile(rec'.file, c, "tx"))
      <4>1. lost' = lost \cup ({m} \ Items(rec'.file))
        BY <2>1 DEF Journals, Loses
      <4>2. m \in Items(rec'.file) <=> m \in OnFile(rec'.file, c, "tx")
        BY <1>4, OnFileItems
      <4>3. QED
        BY <4>1, <4>2
    <3>3. QED
      BY <1>3, <1>6, <1>7, <3>1, <3>2
  <2>2. CASE rec' = rec /\ lost' = lost \cup {m}
    BY <1>3, <1>7, <2>2
  <2>3. QED
    BY <2>1, <2>2 DEF m
<1>10. Filed(c, "tx")'
  BY <1>6, <1>9 DEF Filed, Stream
<1>11. Filed(c, "rx")'
  <2>1. handler'[c] = handler[c] /\ taken'[c] = taken[c]
    OBVIOUS
  <2>2. \A n \in Elements(taken[c]) : Passes(n, c, "rx")
    BY <1>1 DEF Carried, Counts, Elements
  <2>3. \A n \in Pending(c) \cup Pending(c)' : ~Passes(n, c, "rx")
    <3>1. \A n \in Pending(c) : ~Passes(n, c, "rx")
      <4>1. Pending(c) = IF sending[c] = <<>> THEN {} ELSE {sending[c][1]}
        BY <1>1, <1>5, PendingOf DEF Carried
      <4>2. sending[c] # <<>> => 1 \in DOMAIN sending[c]
        BY TailIsWithout DEF TypeOK
      <4>3. QED
        BY <1>1, <4>1, <4>2 DEF Carried, Numbered, Passes, SessionTopic
    <3>2. \A n \in Pending(c)' : ~Passes(n, c, "rx")
      <4>1. Pending(c)' = IF sending'[c] = <<>> THEN {} ELSE {Head(sending'[c])}
        BY <1>5 DEF Pending
      <4>2. sending'[c] # <<>> =>
              1 \in DOMAIN sending'[c] /\ Head(sending'[c]) = sending'[c][1]
        BY TailIsWithout DEF TypeOK
      <4>3. QED
        BY <1>2, <4>1, <4>2 DEF Numbered, Passes, SessionTopic
    <3>3. QED
      BY <3>1, <3>2
  <2>4. OnFile(rec'.file, c, "rx") = Elements(taken'[c]) \ (lost' \cup Pending(c)')
    BY <1>1, <1>4, <1>6, <1>8, <2>1, <2>2, <2>3 DEF Filed, Stream
  <2>5. QED
    BY <1>6, <2>4 DEF Filed, Stream
<1>12. Unlost(c)'
  <2>1. \A n \in lost' : /\ Passes(n, c, "rx") => n.no <= Len(taken'[c])
                         /\ Passes(n, c, "tx") => n.no <= said'[c]
    BY <1>1, <1>4, <1>8 DEF Carried, Unlost
  <2>2. \A j \in DOMAIN sending'[c] : sending'[c][j] \notin lost'
    BY <1>1, <1>3, <1>8 DEF Carried, Unlost
  <2>3. QED
    BY <1>5, <2>1, <2>2 DEF Unlost
<1>13. QED
  BY <1>2, <1>10, <1>11, <1>12 DEF Recorded, Carried

\* A session opens: of its two messages each is on file or lost.
LEMMA OpensRecorded ==
  ASSUME TypeOK, TypeOK', NEW c \in Conn, Recorded(c), SessionOpens(c)
  PROVE  Recorded(c)'
<1> DEFINE hello == Message(c, "hello", "rx", 1)
           welcome == Message(c, "welcome", "tx", 1)
<1>1. /\ Carried(c) /\ Filed(c, "rx") /\ Filed(c, "tx")
      /\ handler[c] = "welcoming" /\ handler'[c] = "serving"
      /\ said' = said /\ sending' = sending /\ taken' = taken /\ wire' = wire
  BY DEF Recorded, SessionOpens, HandlerGoes, TypeOK
<1>2. /\ sending[c] = <<>> /\ taken[c] = <<hello>> /\ wire[c] = <<welcome>> /\ said[c] = 1
      /\ hello \notin lost /\ welcome \notin lost
  BY <1>1 DEF Carried, Stage, Unlost, Hello, Welcome
<1>3. Pending(c) = {hello, welcome} /\ Pending(c)' = {}
  BY <1>1, <1>2, PendingOf DEF Carried, Hello, Welcome, Pending
<1>4. Elements(taken[c]) = {hello} /\ Elements(wire[c]) = {welcome}
  <2>1. \A x : DOMAIN <<x>> = {1} /\ <<x>>[1] = x
    OBVIOUS
  <2> HIDE DEF hello, welcome
  <2>2. QED
    BY <1>2, <2>1 DEF Elements
<1>5. OnFile(rec.file, c, "rx") = {} /\ OnFile(rec.file, c, "tx") = {}
  BY <1>1, <1>3, <1>4 DEF Filed, Stream
<1>6. /\ Passes(hello, c, "rx") /\ ~Passes(hello, c, "tx") /\ hello.no = 1
      /\ Passes(welcome, c, "tx") /\ ~Passes(welcome, c, "rx") /\ welcome.no = 1
      /\ ~Passes(Meta(c), c, "rx") /\ ~Passes(Meta(c), c, "tx")
  BY PassesOne, PassesNot
<1>7. Meta(c) \in Item /\ hello \in Item /\ welcome \in Item /\ rec \in Recorder
  BY OpeningOutcome DEF Item, TypeOK
<1>8. PICK r1 \in Write(rec, Meta(c)), r2 \in Recorder :
        /\ r1 \in Recorder
        /\ r2 \in Write(r1, hello)
        /\ rec' \in Write(r2, welcome)
        /\ rec' \in Recorder
  BY OpeningOutcome
<1>9. lost' = lost \cup ({Meta(c), hello, welcome} \ Items(rec'.file))
  BY DEF SessionOpens, Loses
<1> HIDE DEF hello, welcome
<1>10. \A dir \in {"rx", "tx"} :
         OnFile(r1.file, c, dir) = {} /\ InOrder(r1.file, c, dir)
  BY <1>1, <1>5, <1>6, <1>7, <1>8, WriteOnFile, WriteInOrder DEF Filed
<1>11. /\ OnFile(r2.file, c, "tx") = {} /\ OnFile(r2.file, c, "rx") \subseteq {hello}
       /\ \A dir \in {"rx", "tx"} : InOrder(r2.file, c, dir)
  BY <1>6, <1>7, <1>8, <1>10, WriteOnFile, WriteInOrder
<1>12. /\ OnFile(rec'.file, c, "tx") \subseteq {welcome}
       /\ OnFile(rec'.file, c, "rx") \subseteq {hello}
       /\ \A dir \in {"rx", "tx"} : InOrder(rec'.file, c, dir)
  BY <1>6, <1>7, <1>8, <1>11, WriteOnFile, WriteInOrder
<1>13. /\ hello \in Items(rec'.file) <=> hello \in OnFile(rec'.file, c, "rx")
       /\ welcome \in Items(rec'.file) <=> welcome \in OnFile(rec'.file, c, "tx")
  BY <1>6, OnFileItems
<1>14. hello # Meta(c) /\ welcome # Meta(c)
  BY <1>6
<1>15. /\ hello \in lost' <=> hello \notin OnFile(rec'.file, c, "rx")
       /\ welcome \in lost' <=> welcome \notin OnFile(rec'.file, c, "tx")
  BY <1>2, <1>9, <1>13, <1>14
<1>16. Filed(c, "rx")' /\ Filed(c, "tx")'
  BY <1>1, <1>3, <1>4, <1>12, <1>15 DEF Filed, Stream
<1>17. Unlost(c)'
  <2>1. Len(taken[c]) = 1
    BY <1>2
  <2>2. \A m \in lost' : /\ Passes(m, c, "rx") => m.no <= Len(taken[c])
                         /\ Passes(m, c, "tx") => m.no <= said[c]
    <3>1. \A m \in lost' : m \in lost \/ m \in {Meta(c), hello, welcome}
      BY <1>9
    <3>2. QED
      BY <1>1, <1>2, <1>6, <2>1, <3>1 DEF Carried, Unlost
  <2>3. DOMAIN sending[c] = {}
    BY <1>2
  <2>4. QED
    BY <1>1, <2>2, <2>3 DEF Unlost
<1>18. /\ Stage(c)' /\ Counts(c)' /\ Queue(c)'
       /\ Numbered(c, wire[c])' /\ Numbered(c, sending[c])'
  BY <1>1 DEF Carried, Stage, Counts, Queue, Numbered
<1>19. QED
  BY <1>16, <1>17, <1>18 DEF Recorded, Carried

\* A frame taken while serving is on file or lost.
LEMMA ReceivesRecorded ==
  ASSUME TypeOK, TypeOK', NEW c \in Conn, Recorded(c), NEW t \in Type, Receives(c, t)
  PROVE  Recorded(c)'
<1> DEFINE m == Message(c, t, "rx", Len(taken[c]) + 1)
<1>1. /\ Carried(c) /\ Filed(c, "rx") /\ Filed(c, "tx")
      /\ handler[c] = "serving" /\ handler' = handler
      /\ said' = said /\ sending' = sending /\ wire' = wire
      /\ taken'[c] = Append(taken[c], m) /\ Journals(m)
      /\ m \in Item
  BY DEF Recorded, Receives, TypeOK, Message, Item, Passed
<1>2. /\ Len(taken[c]) \in Nat /\ DOMAIN taken[c] = 1 .. Len(taken[c])
      /\ DOMAIN taken'[c] = 1 .. Len(taken[c]) + 1
      /\ Len(taken'[c]) = Len(taken[c]) + 1
      /\ taken'[c][Len(taken[c]) + 1] = m
      /\ \A i \in 1 .. Len(taken[c]) : taken'[c][i] = taken[c][i]
  BY <1>1 DEF TypeOK
<1>3. Passes(m, c, "rx") /\ ~Passes(m, c, "tx") /\ m.no = Len(taken[c]) + 1
  BY PassesOne
<1> HIDE DEF m
<1>4. /\ \A n \in Elements(taken[c]) : n.no \in Nat /\ n.no <= Len(taken[c])
      /\ \A n \in Elements(taken[c]) : Passes(n, c, "rx")
      /\ \A n \in Elements(wire[c]) : Passes(n, c, "tx")
  BY <1>1, StreamNumbers DEF Stream
<1>5. Elements(taken'[c]) = Elements(taken[c]) \cup {m}
  <2>1. Elements(taken'[c]) \subseteq Elements(taken[c]) \cup {m}
    BY <1>2 DEF Elements
  <2>2. /\ 1 .. Len(taken[c]) \subseteq DOMAIN taken'[c]
        /\ Len(taken[c]) + 1 \in DOMAIN taken'[c]
    BY <1>2
  <2>3. Elements(taken[c]) \cup {m} \subseteq Elements(taken'[c])
    BY <1>2, <2>2 DEF Elements
  <2>4. QED
    BY <2>1, <2>3
<1>6. \A n \in OnFile(rec.file, c, "rx") : n.no < m.no
  BY <1>1, <1>2, <1>3, <1>4 DEF Filed, Stream
<1>7. /\ \A dir \in {"rx", "tx"} : InOrder(rec'.file, c, dir)
      /\ OnFile(rec'.file, c, "tx") = OnFile(rec.file, c, "tx")
      /\ OnFile(rec'.file, c, "rx")
           = OnFile(rec.file, c, "rx") \cup ({m} \cap Items(rec'.file))
      /\ lost' = lost \cup ({m} \ Items(rec'.file))
  BY <1>1, <1>3, <1>6, JournalsOnFile DEF Filed
<1>8. Pending(c)' = Pending(c) /\ \A n \in Pending(c) : ~Passes(n, c, "rx")
  <2>1. Pending(c) = IF sending[c] = <<>> THEN {} ELSE {sending[c][1]}
    BY <1>1, PendingOf DEF Carried
  <2>2. sending[c] # <<>> => 1 \in DOMAIN sending[c]
    BY TailIsWithout DEF TypeOK
  <2>3. \A n \in Pending(c) : ~Passes(n, c, "rx")
    BY <1>1, <2>1, <2>2 DEF Carried, Numbered, Passes, SessionTopic
  <2>4. Pending(c)' = Pending(c)
    BY <1>1 DEF Pending
  <2>5. QED
    BY <2>3, <2>4
<1>9. m \notin lost /\ m \notin Elements(taken[c])
  <2>1. m \notin Elements(taken[c])
    BY <1>2, <1>3, <1>4
  <2>2. m \notin lost
    BY <1>1, <1>2, <1>3 DEF Carried, Unlost
  <2>3. QED
    BY <2>1, <2>2
<1>10. Filed(c, "rx")'
  <2>1. OnFile(rec.file, c, "rx") = Elements(taken[c]) \ (lost \cup Pending(c))
    BY <1>1 DEF Filed, Stream
  <2>2. OnFile(rec'.file, c, "rx") = Elements(taken'[c]) \ (lost' \cup Pending(c)')
    BY <1>3, <1>5, <1>7, <1>8, <1>9, <2>1
  <2>3. QED
    BY <1>7, <2>2 DEF Filed, Stream
<1>11. Filed(c, "tx")'
  <2>1. OnFile(rec.file, c, "tx") = Elements(wire[c]) \ (lost \cup Pending(c))
    BY <1>1 DEF Filed, Stream
  <2>2. m \notin Elements(wire[c])
    BY <1>3, <1>4
  <2>3. OnFile(rec'.file, c, "tx") = Elements(wire'[c]) \ (lost' \cup Pending(c)')
    BY <1>1, <1>7, <1>8, <2>1, <2>2
  <2>4. QED
    BY <1>7, <2>3 DEF Filed, Stream
<1>12. Unlost(c)'
  <2>1. \A n \in lost' : n \in lost \/ n = m
    BY <1>7
  <2>2. \A n \in lost : Passes(n, c, "rx") => n.no <= Len(taken[c]) + 1
    <3>1. \A n \in lost : Passes(n, c, "rx") => n.no \in Nat /\ n.no <= Len(taken[c])
      BY <1>1, PassesNumbered DEF Carried, Unlost, TypeOK
    <3>2. QED
      BY <1>2, <3>1
  <2>3. \A n \in lost' : Passes(n, c, "rx") => n.no <= Len(taken'[c])
    BY <1>2, <1>3, <2>1, <2>2
  <2>4. \A n \in lost' : Passes(n, c, "tx") => n.no <= said'[c]
    BY <1>1, <1>3, <2>1 DEF Carried, Unlost
  <2>5. \A i \in DOMAIN sending'[c] : sending'[c][i] \notin lost'
    BY <1>1, <1>3, <2>1 DEF Carried, Unlost, Numbered
  <2>6. handler'[c] # "welcoming"
    BY <1>1
  <2>7. QED
    BY <2>3, <2>4, <2>5, <2>6 DEF Unlost
<1>13. Counts(c)'
  BY <1>1, <1>2, <1>3 DEF Carried, Counts
<1>14. Stage(c)' /\ Queue(c)' /\ Numbered(c, wire[c])' /\ Numbered(c, sending[c])'
  BY <1>1 DEF Carried, Stage, Queue, Numbered
<1>15. QED
  BY <1>10, <1>11, <1>12, <1>13, <1>14 DEF Recorded, Carried

\* A message joins the queue, and is handed over at once if it is alone.
LEMMA SendsRecorded ==
  ASSUME TypeOK, TypeOK', NEW c \in Conn, Recorded(c), NEW t \in Type, Sends(c, t)
  PROVE  /\ Recorded(c)'
         /\ \A d \in Conn \ {c} :
              sending'[d] = sending[d] /\ wire'[d] = wire[d] /\ said'[d] = said[d]
<1> DEFINE s == sending[c]
           w == wire[c]
           m == Message(c, t, "tx", said[c] + 1)
           q == Append(s, m)
<1>1. /\ Carried(c) /\ Filed(c, "rx") /\ Filed(c, "tx")
      /\ handler[c] = "serving" /\ handler' = handler
      /\ taken' = taken /\ rec' = rec /\ lost' = lost
      /\ said'[c] = said[c] + 1 /\ said[c] \in Nat
      /\ s \in Seq(Passed) /\ w \in Seq(Passed)
  BY DEF Recorded, Sends, TypeOK
<1>2. Sending(c, q) /\ m \in Passed /\ m.no = said[c] + 1
  BY <1>1 DEF Sends, TypeOK, Message, Passed
<1>3. Passes(m, c, "tx") /\ ~Passes(m, c, "rx")
  BY PassesOne
<1> HIDE DEF m
<1>4. /\ q # <<>> /\ Head(q) = IF s = <<>> THEN m ELSE Head(s)
      /\ q \in Seq(Passed)
      /\ DOMAIN q = 1 .. Len(s) + 1 /\ Len(s) \in Nat /\ DOMAIN s = 1 .. Len(s)
      /\ q[Len(s) + 1] = m /\ \A i \in 1 .. Len(s) : q[i] = s[i]
      /\ Head(q) = q[1]
  BY <1>1, <1>2
<1>5. /\ sending'[c] = q
      /\ wire'[c] = IF s = <<>> THEN Append(w, m) ELSE w
      /\ \A d \in Conn \ {c} :
           sending'[d] = sending[d] /\ wire'[d] = wire[d] /\ said'[d] = said[d]
  BY <1>2, <1>4 DEF Sending, Sends, TypeOK
<1>6. /\ \A i \in DOMAIN s : Passes(s[i], c, "tx") /\ s[i].no <= said[c] /\ s[i].no \in Nat
      /\ Rising(s)
  BY <1>1, QueueAhead DEF Carried, Numbered
<1>7. \A n \in Elements(w) : Passes(n, c, "tx") /\ n.no <= said[c] /\ n.no \in Nat
  BY <1>1, StreamNumbers DEF Stream
<1> HIDE DEF s, w, q
<1>8. Numbered(c, sending[c])'
  <2>1. \A i \in DOMAIN q : Passes(q[i], c, "tx") /\ q[i].no <= said[c] + 1
    BY <1>1, <1>2, <1>3, <1>4, <1>6
  <2>2. Rising(q)
    <3> SUFFICES ASSUME NEW i \in DOMAIN q, NEW j \in DOMAIN q, i < j
                 PROVE  q[i].no < q[j].no
      BY DEF Rising
    <3>1. i \in 1 .. Len(s) /\ q[i] = s[i]
      BY <1>4
    <3>2. CASE j = Len(s) + 1
      BY <1>1, <1>2, <1>4, <1>6, <3>1, <3>2
    <3>3. CASE j # Len(s) + 1
      <4>1. j \in 1 .. Len(s) /\ q[j] = s[j]
        BY <1>4, <3>3
      <4>2. QED
        BY <1>4, <1>6, <3>1, <4>1 DEF Rising
    <3>4. QED
      BY <3>2, <3>3
  <2>3. QED
    BY <1>1, <1>5, <2>1, <2>2 DEF Numbered
<1>9. /\ Numbered(c, wire[c])' /\ Queue(c)'
      /\ Elements(wire'[c]) = Elements(w) \cup (IF s = <<>> THEN {m} ELSE {})
  <2>1. ASSUME s = <<>>
        PROVE  /\ Numbered(c, wire[c])' /\ Queue(c)'
               /\ Elements(wire'[c]) = Elements(w) \cup {m}
    <3>1. /\ Len(w) \in Nat /\ DOMAIN w = 1 .. Len(w)
          /\ DOMAIN wire'[c] = 1 .. Len(w) + 1 /\ Len(wire'[c]) = Len(w) + 1
          /\ wire'[c][Len(w) + 1] = m
          /\ \A i \in 1 .. Len(w) : wire'[c][i] = w[i]
      BY <1>1, <1>5, <2>1
    <3>2. Elements(wire'[c]) = Elements(w) \cup {m}
      <4>1. Elements(wire'[c]) \subseteq Elements(w) \cup {m}
        BY <3>1 DEF Elements
      <4>2. 1 .. Len(w) \subseteq DOMAIN wire'[c] /\ Len(w) + 1 \in DOMAIN wire'[c]
        BY <3>1
      <4>3. Elements(w) \cup {m} \subseteq Elements(wire'[c])
        BY <3>1, <4>2 DEF Elements
      <4>4. QED
        BY <4>1, <4>3
    <3>3. Queue(c)'
      BY <1>4, <1>5, <2>1, <3>1 DEF Queue
    <3>4. \A i \in 1 .. Len(w) : w[i] \in Elements(w)
      BY <3>1 DEF Elements
    <3>5. \A i \in DOMAIN wire'[c] :
            Passes(wire'[c][i], c, "tx") /\ wire'[c][i].no <= said[c] + 1
      <4> SUFFICES ASSUME NEW i \in DOMAIN wire'[c]
                   PROVE  Passes(wire'[c][i], c, "tx") /\ wire'[c][i].no <= said[c] + 1
        OBVIOUS
      <4>1. CASE i = Len(w) + 1
        BY <1>1, <1>2, <1>3, <3>1, <4>1
      <4>2. CASE i # Len(w) + 1
        <5>1. wire'[c][i] = w[i] /\ w[i] \in Elements(w)
          BY <3>1, <3>4, <4>2
        <5>2. /\ Passes(wire'[c][i], c, "tx")
              /\ wire'[c][i].no \in Nat /\ wire'[c][i].no <= said[c]
          BY <1>7, <5>1
        <5>3. QED BY <1>1, <5>2
      <4>3. QED BY <4>1, <4>2
    <3>6. Rising(wire'[c])
      <4> SUFFICES ASSUME NEW i \in DOMAIN wire'[c], NEW j \in DOMAIN wire'[c], i < j
                   PROVE  wire'[c][i].no < wire'[c][j].no
        BY DEF Rising
      <4>1. i \in 1 .. Len(w) /\ wire'[c][i] = w[i]
        BY <3>1
      <4>2. CASE j = Len(w) + 1
        <5>1. w[i].no <= said[c] /\ w[i].no \in Nat
          BY <1>7, <3>4, <4>1
        <5>2. QED
          BY <1>1, <1>2, <3>1, <4>1, <4>2, <5>1
      <4>3. CASE j # Len(w) + 1
        <5>1. j \in 1 .. Len(w) /\ wire'[c][j] = w[j]
          BY <3>1, <4>3
        <5>2. QED
          BY <1>1, <3>1, <4>1, <5>1 DEF Rising, Carried, Numbered, w
      <4>4. QED
        BY <4>2, <4>3
    <3>7. QED
      BY <1>1, <3>2, <3>3, <3>5, <3>6 DEF Numbered
  <2>2. ASSUME s # <<>>
        PROVE  Numbered(c, wire[c])' /\ Queue(c)' /\ Elements(wire'[c]) = Elements(w)
    <3>1. wire'[c] = w
      BY <1>5, <2>2
    <3>2. \A i \in DOMAIN w : Passes(w[i], c, "tx") /\ w[i].no <= said[c] + 1
      BY <1>1, <1>7 DEF Elements
    <3>3. Numbered(c, wire[c])'
      BY <1>1, <3>1, <3>2 DEF Carried, Numbered, w
    <3>4. q[1] = s[1]
      BY <1>1, <1>4, <2>2
    <3>5. Queue(c)'
      BY <1>1, <1>5, <2>2, <3>1, <3>4 DEF Carried, Queue, s, w
    <3>6. QED
      BY <3>1, <3>3, <3>5
  <2>3. QED
    BY <2>1, <2>2
<1>10. Pending(c) = (IF s = <<>> THEN {} ELSE {s[1]}) /\ Pending(c)' = {q[1]}
  <2>1. Pending(c) = IF s = <<>> THEN {} ELSE {s[1]}
    BY <1>1, PendingOf DEF Carried, s
  <2>2. QED
    BY <1>1, <1>4, <1>5, <2>1 DEF Pending
<1>11. Elements(wire'[c]) \ Pending(c)' = Elements(w) \ Pending(c)
  <2>1. m \notin Elements(w)
    BY <1>1, <1>2, <1>7
  <2>2. CASE s = <<>>
    <3>1. q[1] = m
      BY <1>4, <2>2
    <3>2. QED
      BY <1>9, <1>10, <2>1, <2>2, <3>1
  <2>3. CASE s # <<>>
    <3>1. q[1] = s[1]
      BY <1>1, <1>4, <2>3
    <3>2. QED
      BY <1>9, <1>10, <2>3, <3>1
  <2>4. QED
    BY <2>2, <2>3
<1>12. Filed(c, "tx")'
  <2>1. OnFile(rec.file, c, "tx") = (Elements(w) \ Pending(c)) \ lost
    BY <1>1 DEF Filed, Stream, w
  <2>2. OnFile(rec'.file, c, "tx") = Elements(wire'[c]) \ (lost' \cup Pending(c)')
    BY <1>1, <1>11, <2>1
  <2>3. QED
    BY <1>1, <2>2 DEF Filed, Stream
<1>13. Filed(c, "rx")'
  <2>1. OnFile(rec.file, c, "rx") = Elements(taken[c]) \ (lost \cup Pending(c))
    BY <1>1 DEF Filed, Stream
  <2>2. \A n \in Elements(taken[c]) : Passes(n, c, "rx")
    BY <1>1 DEF Carried, Counts, Elements
  <2>3. s # <<>> => Passes(s[1], c, "tx")
    BY <1>1, <1>6
  <2>4. Passes(q[1], c, "tx")
    BY <1>1, <1>3, <1>4, <2>3
  <2>5. \A n \in Pending(c) \cup Pending(c)' : ~Passes(n, c, "rx")
    BY <1>10, <2>3, <2>4 DEF Passes, SessionTopic
  <2>6. OnFile(rec'.file, c, "rx") = Elements(taken'[c]) \ (lost' \cup Pending(c)')
    BY <1>1, <2>1, <2>2, <2>5
  <2>7. QED
    BY <1>1, <2>6 DEF Filed, Stream
<1>14. Unlost(c)'
  <2>1. \A n \in lost : Passes(n, c, "tx") => n.no \in Nat /\ n.no <= said[c]
    BY <1>1, PassesNumbered DEF Carried, Unlost, TypeOK
  <2>2. m \notin lost
    BY <1>1, <1>2, <1>3, <2>1
  <2>3. \A i \in DOMAIN q : q[i] \notin lost
    BY <1>1, <1>4, <2>2 DEF Carried, Unlost, s
  <2>4. \A n \in lost : Passes(n, c, "tx") => n.no <= said[c] + 1
    BY <1>1, <2>1
  <2>5. QED
    BY <1>1, <1>5, <2>3, <2>4 DEF Carried, Unlost
<1>15. Stage(c)' /\ Counts(c)'
  BY <1>1 DEF Carried, Stage, Counts
<1>16. QED
  BY <1>5, <1>8, <1>9, <1>12, <1>13, <1>14, <1>15 DEF Recorded, Carried

\* What is on file of each session, and what is owed to it, at every point.
LEMMA RecordedInvariant == Spec => []AllRecorded
<1>1. Init => AllRecorded
  <2> SUFFICES ASSUME Init, NEW c \in Conn PROVE Recorded(c)
    BY DEF AllRecorded
  <2>1. /\ rec.file = <<>> /\ lost = {} /\ handler[c] = "accepting" /\ said[c] = 0
        /\ sending[c] = <<>> /\ taken[c] = <<>> /\ wire[c] = <<>>
    BY DEF Init
  <2>2. DOMAIN <<>> = {}
    OBVIOUS
  <2>3. Stage(c) /\ Counts(c) /\ Queue(c) /\ Numbered(c, wire[c]) /\ Numbered(c, sending[c])
    BY <2>1, <2>2 DEF Stage, Counts, Queue, Numbered, Rising
  <2>4. Unlost(c)
    BY <2>1, <2>2 DEF Unlost
  <2>5. ASSUME NEW dir \in {"rx", "tx"} PROVE Filed(c, dir)
    <3>1. Elements(Stream(c, dir)) = {} /\ Items(rec.file) = {}
      BY <2>1, <2>2 DEF Stream, Elements, Items
    <3>2. QED
      BY <2>1, <2>2, <3>1, OnFileItems DEF Filed, InOrder, PlacesOf
  <2>6. QED
    BY <2>3, <2>4, <2>5 DEF Recorded, Carried
<1>2. TypeOK /\ TypeOK' /\ AllRecorded /\ [Next]_vars => AllRecorded'
  <2> SUFFICES ASSUME TypeOK, TypeOK', AllRecorded, [Next]_vars, NEW d \in Conn
               PROVE  Recorded(d)'
    BY DEF AllRecorded
  <2>0. Recorded(d) /\ \A dir \in {"rx", "tx"} : InOrder(rec.file, d, dir)
    BY DEF AllRecorded, Recorded, Filed
  <2>1. CASE OpenRecorder
    <3>1. /\ rec'.file = <<>> /\ lost' = lost \cup Items(rec.file)
          /\ handler' = handler /\ said' = said /\ sending' = sending
          /\ taken' = taken /\ wire' = wire
      BY <2>1, ReopeningItems DEF OpenRecorder, Loses
    <3>2. /\ Stage(d)' /\ Counts(d)' /\ Queue(d)'
          /\ Numbered(d, wire[d])' /\ Numbered(d, sending[d])'
      BY <2>0, <3>1 DEF Recorded, Carried, Stage, Counts, Queue, Numbered
    <3>3. Pending(d)' = Pending(d)
      BY <3>1 DEF Pending
    <3>4. ASSUME NEW dir \in {"rx", "tx"} PROVE Filed(d, dir)'
      <4>1. Stream(d, dir)' = Stream(d, dir)
        BY <3>1 DEF Stream
      <4>2. OnFile(rec.file, d, dir) = Elements(Stream(d, dir)) \ (lost \cup Pending(d))
        BY <2>0 DEF Recorded, Filed
      <4>3. OnFile(rec.file, d, dir) \subseteq Items(rec.file)
        BY OnFileItems
      <4>4. Elements(Stream(d, dir)) \ (lost' \cup Pending(d)) = {}
        BY <3>1, <4>2, <4>3
      <4>5. DOMAIN <<>> = {}
        OBVIOUS
      <4>6. OnFile(rec'.file, d, dir) = {} /\ InOrder(rec'.file, d, dir)
        BY <3>1, <4>5, OnFileItems DEF Items, InOrder, PlacesOf
      <4>7. QED
        BY <3>3, <4>1, <4>4, <4>6 DEF Filed
    <3>5. \A dir \in {"rx", "tx"}, m \in Items(rec.file) : Passes(m, d, dir) =>
            /\ m \in Elements(Stream(d, dir)) /\ m \notin Pending(d)
            /\ m.no <= IF dir = "rx" THEN Len(taken[d]) ELSE said[d]
      <4>1. \A dir \in {"rx", "tx"}, m \in Items(rec.file) : Passes(m, d, dir) =>
              m \in Elements(Stream(d, dir)) /\ m \notin Pending(d)
        BY <2>0, OnFileItems DEF Recorded, Filed
      <4>2. QED
        BY <2>0, <4>1, StreamNumbers DEF Recorded
    <3>6. \A i \in DOMAIN sending[d] : sending[d][i] \notin Items(rec.file)
      <4> SUFFICES ASSUME NEW i \in DOMAIN sending[d], sending[d][i] \in Items(rec.file)
                   PROVE  FALSE
        OBVIOUS
      <4>1. Passes(sending[d][i], d, "tx")
        BY <2>0 DEF Recorded, Carried, Numbered
      <4>2. sending[d][i] \in Elements(wire[d]) /\ sending[d][i] \notin Pending(d)
        BY <3>5, <4>1 DEF Stream
      <4>3. i # 1
        <5>1. sending[d] # <<>>
          OBVIOUS
        <5>2. Pending(d) = {sending[d][1]}
          BY <2>0, <5>1, PendingOf DEF Recorded, Carried, Stage
        <5>3. QED
          BY <4>2, <5>2
      <4>4. sending[d][i].no < sending[d][i].no /\ sending[d][i].no \in Nat
        BY <2>0, <4>2, <4>3, QueueAhead DEF Recorded
      <4>5. QED
        BY <4>4
    <3>7. Unlost(d)'
      <4>1. \A m \in lost' : m \in lost \/ m \in Items(rec.file)
        BY <3>1
      <4>2. \A m \in lost' : /\ Passes(m, d, "rx") => m.no <= Len(taken[d])
                             /\ Passes(m, d, "tx") => m.no <= said[d]
        BY <2>0, <3>5, <4>1 DEF Recorded, Carried, Unlost
      <4>3. \A i \in DOMAIN sending[d] : sending[d][i] \notin lost'
        BY <2>0, <3>6, <4>1 DEF Recorded, Carried, Unlost
      <4>4. handler[d] = "welcoming" => Hello(d) \notin lost' /\ Welcome(d) \notin lost'
        <5> SUFFICES ASSUME handler[d] = "welcoming"
                     PROVE  Hello(d) \notin lost' /\ Welcome(d) \notin lost'
          OBVIOUS
        <5>1. Pending(d) = {Hello(d), Welcome(d)}
          BY <2>0, PendingOf DEF Recorded, Carried
        <5>2. Passes(Hello(d), d, "rx") /\ Passes(Welcome(d), d, "tx")
          BY OpeningPasses
        <5>3. Hello(d) \notin Items(rec.file) /\ Welcome(d) \notin Items(rec.file)
          BY <3>5, <5>1, <5>2
        <5>4. QED
          BY <2>0, <4>1, <5>3 DEF Recorded, Carried, Unlost
      <4>5. QED
        BY <3>1, <4>2, <4>3, <4>4 DEF Unlost, Hello, Welcome
    <3>8. QED
      BY <3>2, <3>4, <3>7 DEF Recorded, Carried
  <2>2. CASE CloseRecorder
    <3>1. rec'.file = rec.file
      BY <2>2 DEF CloseRecorder, TypeOK, Recorder
    <3>2. QED
      BY <2>0, <2>2, <3>1, Frame DEF CloseRecorder
  <2>3. ASSUME NEW c \in Conn, Refuses(c) PROVE Recorded(d)'
    <3> DEFINE reject == Message(c, "reject", "tx", 1)
    <3>1. reject \in Item /\ \A dir \in {"rx", "tx"} : ~Passes(reject, d, dir)
      BY PassesNot, BoundAssumption DEF Message, Item, Passed
    <3>2. /\ Journals(reject)
          /\ said' = said /\ sending' = sending /\ taken' = taken /\ wire' = wire
          /\ \/ handler'[d] = handler[d]
             \/ handler[d] = "accepting" /\ handler'[d] = "gone"
      BY <2>3 DEF Refuses, HandlerGoes, TypeOK
    <3> HIDE DEF reject
    <3>3. QED
      BY <2>0, <3>1, <3>2, JournalsElsewhere
  <2>4. ASSUME NEW c \in Conn, Welcomes(c) PROVE Recorded(d)'
    <3>1. rec' = rec /\ lost' = lost /\ sending' = sending
      BY <2>4 DEF Welcomes
    <3>2. CASE d # c
      <4>1. /\ handler'[d] = handler[d] /\ said'[d] = said[d]
            /\ taken'[d] = taken[d] /\ wire'[d] = wire[d]
        BY <2>4, <3>2 DEF Welcomes, HandlerGoes, TypeOK
      <4>2. QED
        BY <2>0, <3>1, <4>1, Frame
    <3>3. CASE d = c
      <4>1. /\ handler[d] = "accepting" /\ handler'[d] = "welcoming" /\ said'[d] = 1
            /\ taken'[d] = <<Hello(d)>> /\ wire'[d] = <<Welcome(d)>>
        BY <2>4, <3>3 DEF Welcomes, HandlerGoes, TypeOK, Hello, Welcome
      <4>2. /\ sending[d] = <<>> /\ taken[d] = <<>> /\ wire[d] = <<>> /\ said[d] = 0
            /\ DOMAIN sending[d] = {} /\ Len(taken[d]) = 0
        BY <2>0, <4>1 DEF Recorded, Carried, Stage
      <4>3. /\ Passes(Hello(d), d, "rx") /\ Hello(d).no = 1
            /\ Passes(Welcome(d), d, "tx") /\ Welcome(d).no = 1
        BY OpeningPasses
      <4>4. \A x : DOMAIN <<x>> = {1} /\ <<x>>[1] = x /\ Len(<<x>>) = 1
        OBVIOUS
      <4>5. Stage(d)' /\ Counts(d)' /\ Queue(d)' /\ Numbered(d, sending[d])'
        BY <3>1, <4>1, <4>2, <4>3, <4>4
           DEF Stage, Counts, Queue, Numbered, Rising, Hello, Welcome
      <4>6. Numbered(d, wire[d])'
        BY <4>1, <4>3, <4>4 DEF Numbered, Rising
      <4>7. \A m \in lost : ~Passes(m, d, "rx") /\ ~Passes(m, d, "tx")
        <5> SUFFICES ASSUME NEW m \in lost, Passes(m, d, "rx") \/ Passes(m, d, "tx")
                     PROVE  FALSE
          OBVIOUS
        <5>1. m \in Passed
          BY PassesNumbered DEF TypeOK
        <5>2. m.no <= 0
          BY <2>0, <4>2 DEF Recorded, Carried, Unlost
        <5>3. QED
          BY <5>1, <5>2, BoundAssumption DEF Passed
      <4>8. Unlost(d)'
        BY <3>1, <4>2, <4>3, <4>7 DEF Unlost, Hello, Welcome
      <4>9. Pending(d)' = {Hello(d), Welcome(d)}
        BY <4>1, <4>4 DEF Pending
      <4>10. OnFile(rec.file, d, "rx") = {} /\ OnFile(rec.file, d, "tx") = {}
        BY <2>0, <4>2 DEF Recorded, Filed, Stream, Elements
      <4>11. Elements(taken'[d]) = {Hello(d)} /\ Elements(wire'[d]) = {Welcome(d)}
        BY <4>1, <4>4 DEF Elements
      <4>12. Filed(d, "rx")' /\ Filed(d, "tx")'
        BY <2>0, <3>1, <4>9, <4>10, <4>11 DEF Filed, Stream
      <4>13. QED
        BY <4>5, <4>6, <4>8, <4>12 DEF Recorded, Carried
    <3>4. QED
      BY <3>2, <3>3
  <2>5. ASSUME NEW c \in Conn, SessionOpens(c) PROVE Recorded(d)'
    <3>1. CASE d = c
      BY <2>0, <2>5, <3>1, OpensRecorded
    <3>2. CASE d # c
      <4> DEFINE hello == Message(c, "hello", "rx", 1)
                 welcome == Message(c, "welcome", "tx", 1)
      <4>1. /\ handler'[d] = handler[d] /\ said' = said /\ sending' = sending
            /\ taken' = taken /\ wire' = wire
            /\ lost' = lost \cup ({Meta(c), hello, welcome} \ Items(rec'.file))
        BY <2>5, <3>2 DEF SessionOpens, HandlerGoes, Loses, TypeOK
      <4>2. \A dir \in {"rx", "tx"}, m \in {Meta(c), hello, welcome} : ~Passes(m, d, dir)
        <5>1. hello = Hello(c) /\ welcome = Welcome(c)
          BY DEF Hello, Welcome
        <5> HIDE DEF hello, welcome
        <5>2. \A dir \in {"rx", "tx"} :
                ~Passes(Meta(c), d, dir) /\ ~Passes(hello, d, dir) /\ ~Passes(welcome, d, dir)
          BY <3>2, <5>1, OpeningPasses, PassesNot
        <5>3. QED
          BY <5>2
      <4>3. /\ Meta(c) \in Item /\ hello \in Item /\ welcome \in Item
            /\ rec \in Recorder
        BY <2>5, OpeningOutcome DEF Item, TypeOK
      <4>4. PICK r1 \in Write(rec, Meta(c)), r2 \in Recorder :
              r1 \in Recorder /\ r2 \in Write(r1, hello) /\ rec' \in Write(r2, welcome)
        BY <2>5, OpeningOutcome
      <4> HIDE DEF hello, welcome
      <4>5. ASSUME NEW dir \in {"rx", "tx"}
            PROVE  /\ OnFile(rec'.file, d, dir) = OnFile(rec.file, d, dir)
                   /\ InOrder(rec'.file, d, dir)
        <5>1. OnFile(r1.file, d, dir) = OnFile(rec.file, d, dir) /\ InOrder(r1.file, d, dir)
          BY <2>0, <4>2, <4>3, <4>4, WriteOnFile, WriteInOrder
        <5>2. OnFile(r2.file, d, dir) = OnFile(rec.file, d, dir) /\ InOrder(r2.file, d, dir)
          BY <4>2, <4>3, <4>4, <5>1, WriteOnFile, WriteInOrder
        <5>3. QED
          BY <4>2, <4>3, <4>4, <5>2, WriteOnFile, WriteInOrder
      <4>6. /\ lost \subseteq lost'
            /\ \A m \in lost' \ lost, dir \in {"rx", "tx"} : ~Passes(m, d, dir)
        BY <4>1, <4>2
      <4>7. QED
        BY <2>0, <4>1, <4>5, <4>6, Frame
    <3>3. QED
      BY <3>1, <3>2
  <2>6. ASSUME NEW c \in Conn, WelcomeFails(c) PROVE Recorded(d)'
    <3>1. /\ rec' = rec /\ said' = said /\ sending' = sending
          /\ taken' = taken /\ wire' = wire
          /\ lost' = lost \cup {Hello(c), Welcome(c)}
          /\ handler[c] = "welcoming" /\ handler'[c] = "gone"
      BY <2>6 DEF WelcomeFails, HandlerGoes, TypeOK, Hello, Welcome
    <3>2. CASE d # c
      <4>1. handler'[d] = handler[d]
        BY <2>6, <3>2 DEF WelcomeFails, HandlerGoes, TypeOK
      <4>2. \A dir \in {"rx", "tx"}, m \in {Hello(c), Welcome(c)} : ~Passes(m, d, dir)
        BY <3>2, OpeningPasses
      <4>3. /\ lost \subseteq lost'
            /\ \A m \in lost' \ lost, dir \in {"rx", "tx"} : ~Passes(m, d, dir)
        BY <3>1, <4>2
      <4>4. QED
        BY <2>0, <3>1, <4>1, <4>3, Frame
    <3>3. CASE d = c
      <4>1. /\ sending[d] = <<>> /\ taken[d] = <<Hello(d)>> /\ wire[d] = <<Welcome(d)>>
            /\ said[d] = 1
        BY <2>0, <3>1, <3>3 DEF Recorded, Carried, Stage
      <4>2. /\ \A x : DOMAIN <<x>> = {1} /\ <<x>>[1] = x
            /\ Len(taken[d]) = 1 /\ DOMAIN sending[d] = {}
        BY <4>1
      <4>3. Elements(taken[d]) = {Hello(d)} /\ Elements(wire[d]) = {Welcome(d)}
        BY <4>1, <4>2 DEF Elements
      <4>4. Pending(d) = {Hello(d), Welcome(d)} /\ Pending(d)' = {}
        BY <2>0, <3>1, <3>3, <4>1, PendingOf DEF Recorded, Carried, Pending
      <4>5. OnFile(rec.file, d, "rx") = {} /\ OnFile(rec.file, d, "tx") = {}
        BY <2>0, <4>3, <4>4 DEF Recorded, Filed, Stream
      <4>6. Filed(d, "rx")' /\ Filed(d, "tx")'
        BY <2>0, <3>1, <3>3, <4>3, <4>4, <4>5 DEF Filed, Stream
      <4>7. Hello(d).no = 1 /\ Welcome(d).no = 1
        BY DEF Hello, Welcome, Message
      <4>8. Unlost(d)'
        <5>1. \A m \in lost' : m \in lost \/ m = Hello(d) \/ m = Welcome(d)
          BY <3>1, <3>3
        <5>2. \A m \in lost' : /\ Passes(m, d, "rx") => m.no <= Len(taken[d])
                               /\ Passes(m, d, "tx") => m.no <= said[d]
          BY <2>0, <4>1, <4>2, <4>7, <5>1 DEF Recorded, Carried, Unlost
        <5>3. QED
          BY <3>1, <3>3, <4>1, <4>2, <5>2 DEF Unlost
      <4>9. /\ Stage(d)' /\ Counts(d)' /\ Queue(d)'
            /\ Numbered(d, wire[d])' /\ Numbered(d, sending[d])'
        BY <2>0, <3>1, <3>3 DEF Recorded, Carried, Stage, Counts, Queue, Numbered
      <4>10. QED
        BY <4>6, <4>8, <4>9 DEF Recorded, Carried
    <3>4. QED
      BY <3>2, <3>3
  <2>7. ASSUME NEW c \in Conn, NEW t \in Type, Receives(c, t) PROVE Recorded(d)'
    <3>1. CASE d = c
      BY <2>0, <2>7, <3>1, ReceivesRecorded
    <3>2. CASE d # c
      <4> DEFINE m == Message(c, t, "rx", Len(taken[c]) + 1)
      <4>1. m \in Item
        BY <2>7 DEF Receives, Message, Item, Passed, TypeOK
      <4>2. \A dir \in {"rx", "tx"} : ~Passes(m, d, dir)
        BY <3>2, PassesOne
      <4>3. /\ Journals(m) /\ taken'[d] = taken[d]
            /\ handler' = handler /\ said' = said /\ sending' = sending /\ wire' = wire
        BY <2>7, <3>2 DEF Receives, TypeOK
      <4> HIDE DEF m
      <4>4. QED
        BY <2>0, <4>1, <4>2, <4>3, JournalsElsewhere
    <3>3. QED
      BY <3>1, <3>2
  <2>8. ASSUME NEW c \in Conn, NEW t \in Type, Sends(c, t) PROVE Recorded(d)'
    <3>1. Recorded(c)
      BY DEF AllRecorded
    <3>2. CASE d = c
      BY <2>8, <3>1, <3>2, SendsRecorded
    <3>3. CASE d # c
      <4>1. sending'[d] = sending[d] /\ wire'[d] = wire[d] /\ said'[d] = said[d]
        BY <2>8, <3>1, <3>3, SendsRecorded
      <4>2. rec' = rec /\ lost' = lost /\ handler' = handler /\ taken' = taken
        BY <2>8 DEF Sends
      <4>3. QED
        BY <2>0, <4>1, <4>2, Frame
    <3>4. QED
      BY <3>2, <3>3
  <2>9. ASSUME NEW c \in Conn, SendReturns(c) PROVE Recorded(d)'
    <3>1. Recorded(c) /\ Carried(c)
      BY DEF AllRecorded, Recorded
    <3>2. /\ 1 \in DOMAIN sending[c] /\ Head(sending[c]) = sending[c][1]
          /\ Tail(sending[c]) = Without(sending[c], 1)
      BY <2>9, TailIsWithout DEF SendReturns, TypeOK
    <3>3. /\ Sending(c, Without(sending[c], 1)) /\ Journals(sending[c][1])
          /\ handler' = handler /\ said' = said /\ taken' = taken
      BY <2>9, <3>2 DEF SendReturns
    <3>4. CASE d = c
      BY <3>1, <3>2, <3>3, <3>4, LeavesRecorded
    <3>5. CASE d # c
      <4>1. sending'[d] = sending[d] /\ wire'[d] = wire[d]
        BY <3>3, <3>5 DEF Sending, TypeOK
      <4>2. /\ sending[c][1] \in Item
            /\ \A dir \in {"rx", "tx"} : ~Passes(sending[c][1], d, dir)
        BY <3>1, <3>2, <3>5, QueueAhead DEF Carried, Numbered, Passes, SessionTopic, Item
      <4>3. QED
        BY <2>0, <3>3, <4>1, <4>2, JournalsElsewhere
    <3>6. QED
      BY <3>4, <3>5
  <2>10. ASSUME NEW c \in Conn, NEW i \in 1 .. MaxNo, SendInterrupted(c, i)
         PROVE  Recorded(d)'
    <3>1. Recorded(c) /\ Carried(c)
      BY DEF AllRecorded, Recorded
    <3>2. /\ i \in DOMAIN sending[c] /\ Sending(c, Without(sending[c], i))
          /\ lost' = lost \cup {sending[c][i]} /\ rec' = rec
          /\ handler' = handler /\ said' = said /\ taken' = taken
      BY <2>10 DEF SendInterrupted, Loses
    <3>3. CASE d = c
      BY <3>1, <3>2, <3>3, LeavesRecorded
    <3>4. CASE d # c
      <4>1. sending'[d] = sending[d] /\ wire'[d] = wire[d]
        BY <3>2, <3>4 DEF Sending, TypeOK
      <4>2. \A dir \in {"rx", "tx"} : ~Passes(sending[c][i], d, dir)
        BY <3>1, <3>2, <3>4 DEF Carried, Numbered, Passes, SessionTopic
      <4>3. /\ lost \subseteq lost'
            /\ \A m \in lost' \ lost, dir \in {"rx", "tx"} : ~Passes(m, d, dir)
        BY <3>2, <4>2
      <4>4. QED
        BY <2>0, <3>2, <4>1, <4>3, Frame
    <3>5. QED
      BY <3>3, <3>4
  <2>11. ASSUME NEW c \in Conn, SessionEnds(c) PROVE Recorded(d)'
    <3>1. \/ handler'[d] = handler[d]
          \/ handler[d] = "serving" /\ handler'[d] = "gone"
      BY <2>11 DEF SessionEnds, HandlerGoes, TypeOK
    <3>2. QED
      BY <2>0, <2>11, <3>1, Frame DEF SessionEnds
  <2>12. ASSUME NEW k \in Call, CallStarts(k) PROVE Recorded(d)'
    BY <2>0, <2>12, Frame DEF CallStarts
  <2>13. ASSUME NEW k \in Call, NEW o \in Status \cup {"cancelled"}, CallEnds(k, o)
         PROVE  Recorded(d)'
    <3> DEFINE item == Exchange(k, IF o = "cancelled" THEN "error" ELSE o)
    <3>1. item \in Item /\ \A dir \in {"rx", "tx"} : ~Passes(item, d, dir)
      BY PassesNot DEF Exchange, Item, Status
    <3>2. /\ Journals(item) /\ handler' = handler /\ said' = said /\ sending' = sending
          /\ taken' = taken /\ wire' = wire
      BY <2>13 DEF CallEnds
    <3> HIDE DEF item
    <3>3. QED
      BY <2>0, <3>1, <3>2, JournalsElsewhere
  <2>14. CASE UNCHANGED vars
    BY <2>0, <2>14, Frame DEF vars
  <2>15. QED
    BY <2>1, <2>2, <2>3, <2>4, <2>5, <2>6, <2>7, <2>8, <2>9, <2>10, <2>11, <2>12, <2>13,
       <2>14 DEF Next, Session
<1>3. QED
  BY <1>1, <1>2, TypeCorrect, PTL DEF Spec

\* What is on file of a session is what passed over its connection, each way
\* and in its order: nothing that never went out, nothing twice, and nothing
\* missing but what failed to be written or whose sender was interrupted.
THEOREM RecordMatchesTheWire == Spec => []RecordIsTheWire
<1>1. TypeOK /\ AllRecorded => RecordIsTheWire
  <2> SUFFICES ASSUME TypeOK, AllRecorded, NEW c \in Conn, NEW dir \in {"rx", "tx"}
               PROVE  /\ OnFile(rec.file, c, dir)
                           = Elements(Stream(c, dir)) \ (lost \cup Pending(c))
                      /\ InOrder(rec.file, c, dir)
                      /\ Rising(Stream(c, dir))
    BY DEF RecordIsTheWire, Elements, Stream
  <2>1. Recorded(c)
    BY DEF AllRecorded
  <2>2. Filed(c, dir)
    BY <2>1 DEF Recorded
  <2>3. Rising(Stream(c, dir))
    BY <2>1, StreamNumbers DEF Recorded
  <2>4. QED
    BY <2>2, <2>3 DEF Filed
<1>2. QED
  BY <1>1, TypeCorrect, RecordedInvariant, PTL
=============================================================================
