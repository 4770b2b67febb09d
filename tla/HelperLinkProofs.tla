-------------------------- MODULE HelperLinkProofs --------------------------
(***************************************************************************)
(* Proofs about HelperLink, for any number of retries, sockets and faults  *)
(* and any capacity of the helper's event channel.                         *)
(*                                                                         *)
(* ReadyIsNew needs only that a daemon that runs is the one installed,     *)
(* unless the last script of the installer failed unnoticed.               *)
(* The two about the subscription rest on the shape of a socket's unread   *)
(* messages: its end is announced once, last, and by two messages, of      *)
(* which the first makes way for the next socket.  OneChannel follows from *)
(* how the sockets share one variable and one timer (Alone); ViewIsTrue    *)
(* says in addition where the truth about sing-box is: in the last event   *)
(* unread, else in the answer on its way, else in the status.              *)
(***************************************************************************)
EXTENDS HelperLink, TLAPS

Record == [pc : {"free", "connecting", "open"}, fed : BOOLEAN, inbox : Seq(Message)]

\* A socket's unread messages: close comes last, right after error or end
\* unless that one was read already; a socket that is fed has no end in sight.
Shaped(k) ==
  /\ k.pc = "free" => k = Free
  /\ k.pc = "connecting" =>
       ~k.fed /\ k.inbox \in {<<>>, <<"close">>, <<"error", "close">>}
  /\ \A i \in 1..Len(k.inbox) :
       /\ k.inbox[i] = "close" =>
            i = Len(k.inbox) /\ (i = 1 \/ k.inbox[i - 1] \in {"error", "end"})
       /\ k.inbox[i] \in {"error", "end"} =>
            Len(k.inbox) = i + 1 /\ k.inbox[i + 1] = "close"
  /\ k.fed => ~Closes(k)
  /\ ~Closes(k) => Len(k.inbox) <= EVENT_CHANNEL_CAPACITY
  /\ Len(k.inbox) <= EVENT_CHANNEL_CAPACITY + 3

\* What is left of a socket whose end was read.
Gone(k) == k = Free \/ (k.inbox = <<"close">> /\ ~k.fed)

Shapes ==
  /\ sock \in [Socket -> Record]
  /\ \A s \in Socket : Shaped(sock[s])

Alone ==
  /\ socket \in Socket \cup {0} /\ timers \in 0..1
  /\ subscription \in {"none", "open"} /\ over \in {"no", "asked", "signal"}
  /\ socket # 0 => /\ sock[socket].pc # "free"
                   /\ ~Gone(sock[socket])
                   /\ \A s \in Socket \ {socket} : sock[s] = Free
  /\ socket = 0 => \A s \in Socket : Gone(sock[s])
  /\ Alive /\ subscription = "open" => timers = IF socket = 0 THEN 1 ELSE 0
  /\ ~(Alive /\ subscription = "open") =>
       timers = 0 /\ socket = 0 /\ \A s \in Socket : sock[s] = Free

Machine ==
  /\ files \in {"none", "old", "new"} /\ helper \in {"down", "old", "new"}
  /\ loaded \in BOOLEAN /\ hidden \in BOOLEAN /\ muffled \in BOOLEAN
  /\ (Runs => loaded) /\ (hidden => Runs /\ muffled) /\ (Runs /\ ~muffled => helper = files)
  /\ box \in BOOLEAN /\ (box => Runs) /\ faults \in 0..MaxFaults

Ready == start.pc \in {"wait", "start"} /\ ~muffled => files # "old"

LastOf(q) == q[Len(q)]

\* What the last event unread says of sing-box is so.
EventsTell ==
  \A s \in Socket : sock[s].fed =>
    /\ Runs
    /\ \A i \in 1..Len(sock[s].inbox) : sock[s].inbox[i] \in {"ack", "started", "exited"}
    /\ sock[s].inbox # <<>> /\ LastOf(sock[s].inbox) # "ack" =>
         (LastOf(sock[s].inbox) = "started" <=> box)

\* With none unread, the answer on its way and the status are right, if the
\* daemon can be reached.
AnswersTell ==
  /\ reconcile.pc # "idle" /\ start.pc = "verified" => overlap
  /\ Alive /\ ~overlap /\ ~hidden =>
       \A s \in Socket : sock[s].fed /\ sock[s].inbox = <<>> =>
         /\ reconcile.pc = "idle" => (running <=> box)
         /\ reconcile.pc = "reply" => (reconcile.value <=> box)
         /\ start.pc = "verified" => (start.value <=> box)

-----------------------------------------------------------------------------
(* One socket.                                                             *)

LEMMA CapacityIsPositive ==
  /\ EVENT_CHANNEL_CAPACITY \in Nat \ {0} /\ Retries \in Nat \ {0}
  /\ HELPER_FAILURE_THRESHOLD \in Nat \ {0} /\ MaxSockets \in Nat \ {0} /\ MaxFaults \in Nat
  BY HelperLinkConstants

\* A close is some message of the inbox.
LEMMA ClosesAt ==
  ASSUME NEW k, k.inbox \in Seq(Message)
  PROVE  Closes(k) <=> \E i \in 1..Len(k.inbox) : k.inbox[i] = "close"
BY DEF Closes

\* A socket with another inbox, and perhaps no longer fed.
LEMMA RecordEdits ==
  ASSUME NEW k \in Record, NEW q \in Seq(Message)
  PROVE  /\ [k EXCEPT !.inbox = q] \in Record
         /\ [k EXCEPT !.inbox = q].pc = k.pc
         /\ [k EXCEPT !.inbox = q].fed = k.fed
         /\ [k EXCEPT !.inbox = q].inbox = q
         /\ [k EXCEPT !.fed = FALSE, !.inbox = q] \in Record
         /\ [k EXCEPT !.fed = FALSE, !.inbox = q].pc = k.pc
         /\ ~[k EXCEPT !.fed = FALSE, !.inbox = q].fed
         /\ [k EXCEPT !.fed = FALSE, !.inbox = q].inbox = q
BY DEF Record

LEMMA Tails ==
  /\ <<>> \in Seq(Message)
  /\ <<"ack">> \in Seq(Message)
  /\ <<"error", "close">> \in Seq(Message)
  /\ <<"end", "close">> \in Seq(Message)
  /\ <<"lagged", "end", "close">> \in Seq(Message)
BY DEF Message

LEMMA HungUpShape ==
  ASSUME NEW k \in Record, Shaped(k)
  PROVE  /\ HungUp(k) \in Record /\ Shaped(HungUp(k))
         /\ HungUp(k).pc = k.pc /\ ~HungUp(k).fed
         /\ Gone(k) => HungUp(k) = k
         /\ ~Gone(k) => ~Gone(HungUp(k))
<1> USE CapacityIsPositive
<1>0. k.inbox \in Seq(Message) /\ k.fed \in BOOLEAN /\ k.pc \in {"free", "connecting", "open"}
  BY DEF Record
<1>1. CASE k.pc = "free" \/ Closes(k)
  <2>1. HungUp(k) = k
    BY <1>1 DEF HungUp
  <2>2. ~k.fed
    BY <1>1 DEF Shaped, Free
  <2> QED
    BY <2>1, <2>2
<1>2. CASE ~Closes(k) /\ k.pc = "connecting"
  <2> DEFINE h == [k EXCEPT !.inbox = <<"error", "close">>]
  <2>1. HungUp(k) = h
    BY <1>2 DEF HungUp
  <2>2. /\ h \in Record /\ h.pc = "connecting" /\ h.fed = k.fed /\ ~k.fed
        /\ h.inbox = <<"error", "close">>
    <3>1. ~k.fed
      BY <1>2 DEF Shaped
    <3> QED
      BY <1>2, <3>1, RecordEdits, Tails
  <2>3. ~Gone(k) /\ ~Gone(h)
    <3>1. k # Free /\ h # Free
      BY <1>2, <2>2 DEF Free
    <3>2. k.inbox # <<"close">>
      BY <1>0, <1>2, ClosesAt
    <3> QED
      BY <2>2, <3>1, <3>2 DEF Gone
  <2>4. Closes(h)
    BY <2>2 DEF Closes
  <2>5. Shaped(h)
    <3> HIDE DEF h
    <3>1. Len(h.inbox) = 2 /\ h.inbox[1] = "error" /\ h.inbox[2] = "close"
      BY <2>2
    <3> QED
      BY <2>2, <2>4, <3>1 DEF Shaped
  <2> QED
    BY <2>1, <2>2, <2>3, <2>5
<1>3. CASE ~Closes(k) /\ k.pc = "open"
  <2> DEFINE h == [k EXCEPT !.fed = FALSE, !.inbox = @ \o <<"end", "close">>]
             n == Len(k.inbox)
  <2>1. HungUp(k) = h
    BY <1>3 DEF HungUp
  <2>2. /\ h \in Record /\ h.pc = "open" /\ ~h.fed
        /\ h.inbox = k.inbox \o <<"end", "close">>
    <3>1. k.inbox \o <<"end", "close">> \in Seq(Message)
      BY <1>0, Tails
    <3> QED
      BY <1>3, <3>1, RecordEdits
  <2>3. /\ n \in Nat /\ Len(h.inbox) = n + 2
        /\ h.inbox[n + 1] = "end" /\ h.inbox[n + 2] = "close"
        /\ \A i \in 1..n : h.inbox[i] = k.inbox[i]
    BY <1>0, <2>2
  <2>4. \A i \in 1..n : k.inbox[i] \notin {"close", "error", "end"}
    <3>1. \A i \in 1..n : k.inbox[i] # "close"
      BY <1>0, <1>3, ClosesAt
    <3> HIDE DEF h
    <3>2. \A i \in 1..n : k.inbox[i] \in {"error", "end"} => n = i + 1 /\ k.inbox[i + 1] = "close"
      BY DEF Shaped
    <3>3. \A i \in 1..n : n = i + 1 => i + 1 \in 1..n
      BY <2>3
    <3> QED
      BY <3>1, <3>2, <3>3
  <2>5. n <= EVENT_CHANNEL_CAPACITY
    BY <1>3 DEF Shaped
  <2>6. ~Gone(k) /\ ~Gone(h)
    <3> HIDE DEF h
    <3>1. k # Free /\ h # Free
      BY <1>3, <2>2 DEF Free
    <3>2. k.inbox # <<"close">>
      BY <2>4
    <3>3. h.inbox # <<"close">>
      BY <2>3
    <3> QED
      BY <3>1, <3>2, <3>3 DEF Gone
  <2>7. Closes(h)
    <3> HIDE DEF h, n
    <3>1. h.inbox \in Seq(Message) /\ n + 2 \in 1..Len(h.inbox)
      BY <2>2, <2>3 DEF Record
    <3> QED
      BY <2>3, <3>1, ClosesAt
  <2>8. Shaped(h)
    <3> HIDE DEF h, n
    <3>1. ASSUME NEW i \in 1..Len(h.inbox)
          PROVE  /\ h.inbox[i] = "close" =>
                      i = Len(h.inbox) /\ (i = 1 \/ h.inbox[i - 1] \in {"error", "end"})
                 /\ h.inbox[i] \in {"error", "end"} =>
                      Len(h.inbox) = i + 1 /\ h.inbox[i + 1] = "close"
      <4>1. i \in 1..n \/ i = n + 1 \/ i = n + 2
        BY <2>3
      <4> QED
        BY <4>1, <2>3, <2>4
    <3>2. Len(h.inbox) <= EVENT_CHANNEL_CAPACITY + 3
      BY <2>3, <2>5
    <3>3. h.pc # "free" /\ h.pc # "connecting" /\ ~h.fed
      BY <2>2
    <3> QED
      BY ONLY <2>7, <3>1, <3>2, <3>3 DEF Shaped
  <2> QED
    BY <2>1, <2>2, <2>6, <2>8
<1> QED
  BY <1>0, <1>1, <1>2, <1>3

LEMMA FedShape ==
  ASSUME NEW k \in Record, Shaped(k), NEW event \in {"started", "exited"}
  PROVE  /\ Fed(k, event) \in Record /\ Shaped(Fed(k, event))
         /\ Fed(k, event).pc = k.pc
         /\ Gone(k) => Fed(k, event) = k
         /\ ~Gone(k) => ~Gone(Fed(k, event))
         /\ Fed(k, event).fed => k.fed /\ Fed(k, event).inbox = Append(k.inbox, event)
<1> USE CapacityIsPositive
<1>0. k.inbox \in Seq(Message) /\ k.fed \in BOOLEAN /\ k.pc \in {"free", "connecting", "open"}
  BY DEF Record
<1>1. CASE ~k.fed
  <2>1. Fed(k, event) = k
    BY <1>1 DEF Fed
  <2> QED
    BY ONLY k \in Record, Shaped(k), <1>1, <2>1
<1> SUFFICES ASSUME k.fed
             PROVE  /\ Fed(k, event) \in Record /\ Shaped(Fed(k, event))
                    /\ Fed(k, event).pc = k.pc
                    /\ Gone(k) => Fed(k, event) = k
                    /\ ~Gone(k) => ~Gone(Fed(k, event))
                    /\ Fed(k, event).fed =>
                         k.fed /\ Fed(k, event).inbox = Append(k.inbox, event)
  BY <1>1
<1>2. k.pc = "open" /\ ~Closes(k) /\ ~Gone(k)
  <2>1. ~Closes(k) /\ k.pc # "connecting" /\ (k.pc = "free" => k = Free)
    BY ONLY Shaped(k), k.fed DEF Shaped
  <2>2. k # Free
    BY ONLY k.fed DEF Free
  <2>3. k.pc = "open"
    BY ONLY <1>0, <2>1, <2>2
  <2> QED
    BY ONLY k.fed, <2>1, <2>2, <2>3 DEF Gone
<1> DEFINE n == Len(k.inbox)
<1>3. \A i \in 1..n : k.inbox[i] \notin {"close", "error", "end"}
  <2>1. \A i \in 1..n : k.inbox[i] # "close"
    BY <1>0, <1>2, ClosesAt
  <2>2. \A i \in 1..n : k.inbox[i] \in {"error", "end"} => n = i + 1 /\ k.inbox[i + 1] = "close"
    BY ONLY Shaped(k) DEF Shaped
  <2>3. n \in Nat
    BY <1>0
  <2> HIDE DEF n
  <2>4. \A i \in 1..n : n = i + 1 => i + 1 \in 1..n
    BY ONLY <2>3
  <2> QED
    BY ONLY <2>1, <2>2, <2>4
<1>4. n \in Nat /\ n <= EVENT_CHANNEL_CAPACITY
  <2>1. n \in Nat
    BY <1>0
  <2>2. n <= EVENT_CHANNEL_CAPACITY
    BY ONLY Shaped(k), <1>2 DEF Shaped
  <2> QED
    BY <2>1, <2>2
<1>5. CASE n < EVENT_CHANNEL_CAPACITY
  <2> DEFINE h == [k EXCEPT !.inbox = Append(@, event)]
  <2>1. Fed(k, event) = h
    BY <1>5 DEF Fed
  <2>2. h \in Record /\ h.pc = "open" /\ h.fed /\ h.inbox = Append(k.inbox, event)
    <3>1. Append(k.inbox, event) \in Seq(Message)
      BY <1>0 DEF Message
    <3>2. /\ h \in Record /\ h.pc = k.pc /\ h.fed = k.fed
          /\ h.inbox = Append(k.inbox, event)
      BY ONLY k \in Record, <3>1, RecordEdits
    <3> QED
      BY <1>2, <3>2
  <2>3. /\ Len(h.inbox) = n + 1 /\ h.inbox[n + 1] = event
        /\ \A i \in 1..n : h.inbox[i] = k.inbox[i]
    BY <1>0, <2>2
  <2>4. \A i \in 1..Len(h.inbox) : h.inbox[i] \notin {"close", "error", "end"}
    <3> HIDE DEF h, n
    <3>1. \A i \in 1..(n + 1) : i \in 1..n \/ i = n + 1
      BY <1>4
    <3> QED
      BY <1>3, <2>3, <3>1
  <2>5. ~Closes(h)
    <3> HIDE DEF h
    <3>1. h.inbox \in Seq(Message)
      BY <2>2 DEF Record
    <3> QED
      BY <2>4, <3>1, ClosesAt
  <2>6. Shaped(h)
    <3> HIDE DEF h, n
    <3> QED
      BY <1>4, <1>5, <2>2, <2>3, <2>4, <2>5 DEF Shaped
  <2>7. ~Gone(h)
    <3> HIDE DEF h
    <3> QED
      BY <2>2 DEF Gone, Free
  <2> QED
    BY <1>2, <2>1, <2>2, <2>6, <2>7
<1>6. CASE ~(n < EVENT_CHANNEL_CAPACITY)
  <2> DEFINE h == [k EXCEPT !.fed = FALSE, !.inbox = @ \o <<"lagged", "end", "close">>]
  <2>1. Fed(k, event) = h
    BY <1>6 DEF Fed
  <2>2. /\ h \in Record /\ h.pc = "open" /\ ~h.fed
        /\ h.inbox = k.inbox \o <<"lagged", "end", "close">>
    <3>1. k.inbox \o <<"lagged", "end", "close">> \in Seq(Message)
      BY <1>0, Tails
    <3>2. /\ h \in Record /\ h.pc = k.pc /\ ~h.fed
          /\ h.inbox = k.inbox \o <<"lagged", "end", "close">>
      BY ONLY k \in Record, <3>1, RecordEdits
    <3> QED
      BY <1>2, <3>2
  <2>3. /\ Len(h.inbox) = n + 3 /\ h.inbox[n + 1] = "lagged"
        /\ h.inbox[n + 2] = "end" /\ h.inbox[n + 3] = "close"
        /\ \A i \in 1..n : h.inbox[i] = k.inbox[i]
    BY <1>0, <2>2
  <2>4. Closes(h)
    <3> HIDE DEF h, n
    <3>1. h.inbox \in Seq(Message) /\ n + 3 \in 1..Len(h.inbox)
      BY <1>4, <2>2, <2>3 DEF Record
    <3> QED
      BY <2>3, <3>1, ClosesAt
  <2>5. Shaped(h)
    <3> HIDE DEF h, n
    <3>1. ASSUME NEW i \in 1..Len(h.inbox)
          PROVE  /\ h.inbox[i] = "close" =>
                      i = Len(h.inbox) /\ (i = 1 \/ h.inbox[i - 1] \in {"error", "end"})
                 /\ h.inbox[i] \in {"error", "end"} =>
                      Len(h.inbox) = i + 1 /\ h.inbox[i + 1] = "close"
      <4>1. i \in 1..n \/ i = n + 1 \/ i = n + 2 \/ i = n + 3
        BY <1>4, <2>3
      <4> QED
        BY <4>1, <1>3, <1>4, <2>3
    <3>2. Len(h.inbox) <= EVENT_CHANNEL_CAPACITY + 3
      BY <1>4, <2>3
    <3>3. h.pc # "free" /\ h.pc # "connecting" /\ ~h.fed
      BY <2>2
    <3> QED
      BY ONLY <2>4, <3>1, <3>2, <3>3 DEF Shaped
  <2>6. ~Gone(h)
    <3> HIDE DEF h, n
    <3>1. h.inbox # <<"close">>
      BY <1>4, <2>3
    <3> QED
      BY <2>2, <3>1 DEF Gone, Free
  <2> QED
    BY <1>2, <2>1, <2>2, <2>5, <2>6
<1> QED
  BY <1>5, <1>6

\* The next message read, unless it is the close.
LEMMA ReadShape ==
  ASSUME NEW k \in Record, Shaped(k), k.inbox # <<>>, Head(k.inbox) # "close",
         NEW r, r = Rest(k)
  PROVE  /\ r \in Record /\ Shaped(r) /\ r.pc = k.pc /\ r.fed = k.fed /\ r.inbox = Tail(k.inbox)
         /\ Head(k.inbox) \in {"error", "end"} => Gone(r)
         /\ Head(k.inbox) \notin {"error", "end"} => ~Gone(r)
<1> USE CapacityIsPositive
<1>0. k.inbox \in Seq(Message) /\ k.fed \in BOOLEAN /\ k.pc \in {"free", "connecting", "open"}
  BY DEF Record
<1> DEFINE n == Len(k.inbox)
<1>1. n \in Nat \ {0} /\ Head(k.inbox) = k.inbox[1] /\ Tail(k.inbox) \in Seq(Message)
  BY <1>0
<1>2. r \in Record /\ r.pc = k.pc /\ r.fed = k.fed /\ r.inbox = Tail(k.inbox)
  BY ONLY k \in Record, r = Rest(k), <1>1, RecordEdits DEF Rest
<1>3. Len(r.inbox) = n - 1 /\ \A i \in 1..(n - 1) : r.inbox[i] = k.inbox[i + 1]
  BY <1>0, <1>1, <1>2
<1>4. Closes(k) <=> Closes(r)
  <2>1. Closes(k) <=> \E i \in 1..n : k.inbox[i] = "close"
    BY <1>0, ClosesAt
  <2>2. Closes(r) <=> \E i \in 1..(n - 1) : r.inbox[i] = "close"
    BY <1>1, <1>2, <1>3, ClosesAt
  <2>3. ASSUME NEW i \in 1..n, k.inbox[i] = "close" PROVE i - 1 \in 1..(n - 1) /\ r.inbox[i - 1] = "close"
    <3>1. i # 1
      BY <1>1, <2>3
    <3>2. i - 1 \in 1..(n - 1) /\ (i - 1) + 1 = i
      BY <1>1, <3>1
    <3> QED
      BY <1>3, <2>3, <3>2
  <2>4. \A i \in 1..(n - 1) : i + 1 \in 1..n
    BY <1>1
  <2> QED
    BY <1>3, <2>1, <2>2, <2>3, <2>4
<1>5. k.pc # "free"
  BY DEF Shaped, Free
<1>6. Shaped(r)
  <2>1. k.pc = "connecting" => ~k.fed /\ r.inbox = <<"close">>
    <3> SUFFICES ASSUME k.pc = "connecting" PROVE ~k.fed /\ r.inbox = <<"close">>
      OBVIOUS
    <3>1. ~k.fed /\ k.inbox \in {<<"close">>, <<"error", "close">>}
      BY DEF Shaped
    <3>2. k.inbox = <<"error", "close">>
      BY <3>1
    <3> QED
      BY <3>1, <3>2, <1>2
  <2>2. ASSUME NEW i \in 1..Len(r.inbox)
        PROVE  /\ r.inbox[i] = "close" =>
                    i = Len(r.inbox) /\ (i = 1 \/ r.inbox[i - 1] \in {"error", "end"})
               /\ r.inbox[i] \in {"error", "end"} =>
                    Len(r.inbox) = i + 1 /\ r.inbox[i + 1] = "close"
    <3>1. i \in 1..(n - 1) /\ i + 1 \in 1..n /\ (i + 1) - 1 = i /\ i + 1 # 1
      BY <1>1, <1>3
    <3>2. r.inbox[i] = k.inbox[i + 1]
      BY <1>3, <3>1
    <3>3. /\ k.inbox[i + 1] = "close" => i + 1 = n /\ k.inbox[i] \in {"error", "end"}
          /\ k.inbox[i + 1] \in {"error", "end"} => n = (i + 1) + 1 /\ k.inbox[(i + 1) + 1] = "close"
      BY <3>1 DEF Shaped
    <3> HIDE DEF n
    <3>4. ASSUME i # 1 PROVE r.inbox[i - 1] = k.inbox[i]
      <4>1. i - 1 \in 1..(n - 1) /\ (i - 1) + 1 = i
        BY ONLY <1>1, <3>1, <3>4
      <4> QED
        BY <1>3, <4>1
    <3>5. ASSUME n = (i + 1) + 1 PROVE r.inbox[i + 1] = k.inbox[(i + 1) + 1]
      <4>1. i + 1 \in 1..(n - 1)
        BY ONLY <1>1, <3>1, <3>5
      <4> QED
        BY <1>3, <4>1
    <3>6. r.inbox[i] = "close" => i = Len(r.inbox) /\ (i = 1 \/ r.inbox[i - 1] \in {"error", "end"})
      <4>1. i + 1 = n => i = n - 1
        BY ONLY <1>1, <3>1
      <4> QED
        BY ONLY <1>3, <3>2, <3>3, <3>4, <4>1
    <3>7. r.inbox[i] \in {"error", "end"} => Len(r.inbox) = i + 1 /\ r.inbox[i + 1] = "close"
      <4>1. n = (i + 1) + 1 => n - 1 = i + 1
        BY ONLY <1>1, <3>1
      <4> QED
        BY ONLY <1>3, <3>2, <3>3, <3>5, <4>1
    <3> QED
      BY <3>6, <3>7
  <2>3. k.fed => ~Closes(r)
    BY <1>4 DEF Shaped
  <2>4. Len(r.inbox) <= EVENT_CHANNEL_CAPACITY + 3 /\ (~Closes(r) => Len(r.inbox) <= EVENT_CHANNEL_CAPACITY)
    <3>1. n <= EVENT_CHANNEL_CAPACITY + 3 /\ (~Closes(k) => n <= EVENT_CHANNEL_CAPACITY)
      BY DEF Shaped
    <3> QED
      BY <1>1, <1>3, <1>4, <3>1
  <2> QED
    BY ONLY <1>2, <1>5, <2>1, <2>2, <2>3, <2>4 DEF Shaped
<1>7. ASSUME Head(k.inbox) \in {"error", "end"} PROVE Gone(r)
  <2>1. n = 2 /\ k.inbox[2] = "close"
    <3>1. 1 \in 1..n /\ k.inbox[1] \in {"error", "end"}
      BY <1>1, <1>7
    <3>2. n = 1 + 1 /\ k.inbox[1 + 1] = "close"
      BY ONLY <3>1, Shaped(k) DEF Shaped, n
    <3> QED
      BY <3>2
  <2>2. r.inbox = <<"close">>
    <3>1. r.inbox \in Seq(Message) /\ Len(r.inbox) = 1
      BY <1>1, <1>2, <1>3, <2>1
    <3>2. r.inbox[1] = "close"
      BY <1>3, <2>1
    <3> HIDE DEF n
    <3> QED
      BY ONLY <3>1, <3>2
  <2>3. ~k.fed
    <3>1. Closes(k)
      BY <1>0, <2>1, ClosesAt
    <3> QED
      BY <3>1 DEF Shaped
  <2> QED
    BY <1>2, <2>2, <2>3 DEF Gone
<1>8. ASSUME Head(k.inbox) \notin {"error", "end"} PROVE ~Gone(r)
  <2>1. r # Free
    BY <1>2, <1>5 DEF Free
  <2>2. ASSUME r.inbox = <<"close">> PROVE FALSE
    <3>1. n = 2 /\ r.inbox[1] = "close"
      <4>1. Len(r.inbox) = 1 /\ r.inbox[1] = "close"
        BY ONLY <2>2
      <4> HIDE DEF n
      <4>2. n \in Nat /\ n - 1 = 1
        BY <1>1, <1>3, <4>1
      <4>3. n = 2
        BY ONLY <4>2
      <4> QED
        BY <4>1, <4>3
    <3>2. k.inbox[2] = "close"
      BY <1>3, <3>1
    <3> QED
      BY <1>1, <1>8, <3>1, <3>2 DEF Shaped
  <2> QED
    BY <2>1, <2>2 DEF Gone
<1> QED
  BY <1>2, <1>6, <1>7, <1>8

LEMMA FreeShape == Free \in Record /\ Shaped(Free) /\ Gone(Free) /\ ~Free.fed /\ Free.inbox = <<>>
<1>1. Free \in Record /\ Free.pc = "free" /\ ~Free.fed /\ Free.inbox = <<>>
  BY Tails DEF Free, Record
<1>2. Len(Free.inbox) = 0 /\ ~Closes(Free)
  BY <1>1 DEF Closes
<1> QED
  BY <1>1, <1>2, CapacityIsPositive DEF Shaped, Gone

-----------------------------------------------------------------------------
(* All of them.                                                            *)

Channel == Shapes /\ Alone

LEMMA ChannelKept ==
  ASSUME Channel, UNCHANGED <<channel, over>>
  PROVE  Channel'
BY DEF Channel, Shapes, Alone, Shaped, Gone, Closes, Alive, channel

LEMMA HungUpKeeps ==
  ASSUME Channel, sock' = [s \in Socket |-> HungUp(sock[s])],
         UNCHANGED <<subscription, socket, timers, over>>
  PROVE  Channel' /\ \A s \in Socket : ~sock'[s].fed
<1>1. \A s \in Socket : sock'[s] = HungUp(sock[s]) /\ sock[s] \in Record /\ Shaped(sock[s])
  BY DEF Channel, Shapes
<1>2. \A s \in Socket : /\ sock'[s] \in Record /\ Shaped(sock'[s])
                        /\ sock'[s].pc = sock[s].pc /\ ~sock'[s].fed
                        /\ Gone(sock[s]) => sock'[s] = sock[s]
                        /\ ~Gone(sock[s]) => ~Gone(sock'[s])
  BY <1>1, HungUpShape
<1>3. Shapes'
  BY <1>2 DEF Shapes
<1>4. Alone'
  <2>1. \A s \in Socket : sock[s] = Free => sock'[s] = Free
    BY <1>2 DEF Gone
  <2> QED
    BY <1>2, <2>1 DEF Channel, Alone, Alive, Gone
<1> QED
  BY <1>2, <1>3, <1>4 DEF Channel

LEMMA PushKeeps ==
  ASSUME Channel, NEW event \in {"started", "exited"}, Push(event),
         UNCHANGED <<subscription, socket, timers, over>>
  PROVE  /\ Channel'
         /\ \A s \in Socket :
              sock'[s].fed => sock[s].fed /\ sock'[s].inbox = Append(sock[s].inbox, event)
<1>1. \A s \in Socket : sock'[s] = Fed(sock[s], event) /\ sock[s] \in Record /\ Shaped(sock[s])
  BY DEF Channel, Shapes, Push
<1>2. \A s \in Socket : /\ sock'[s] \in Record /\ Shaped(sock'[s]) /\ sock'[s].pc = sock[s].pc
                        /\ Gone(sock[s]) => sock'[s] = sock[s]
                        /\ ~Gone(sock[s]) => ~Gone(sock'[s])
                        /\ sock'[s].fed => sock[s].fed /\ sock'[s].inbox = Append(sock[s].inbox, event)
  <2> TAKE s \in Socket
  <2> DEFINE k == sock[s]
  <2>1. k \in Record /\ Shaped(k) /\ sock'[s] = Fed(k, event)
    BY <1>1
  <2> HIDE DEF k
  <2>2. /\ Fed(k, event) \in Record /\ Shaped(Fed(k, event))
        /\ Fed(k, event).pc = k.pc
        /\ Gone(k) => Fed(k, event) = k
        /\ ~Gone(k) => ~Gone(Fed(k, event))
        /\ Fed(k, event).fed => k.fed /\ Fed(k, event).inbox = Append(k.inbox, event)
    BY <2>1, FedShape
  <2>3. /\ sock'[s] \in Record /\ Shaped(sock'[s]) /\ sock'[s].pc = k.pc
        /\ Gone(k) => sock'[s] = k
        /\ ~Gone(k) => ~Gone(sock'[s])
        /\ sock'[s].fed => k.fed /\ sock'[s].inbox = Append(k.inbox, event)
    BY ONLY <2>1, <2>2
  <2> QED
    BY <2>3 DEF k
<1>3. Shapes'
  BY <1>2 DEF Shapes, Push
<1>4. Alone'
  <2>1. \A s \in Socket : sock[s] = Free => sock'[s] = Free
    BY <1>2 DEF Gone
  <2> QED
    BY <1>2, <2>1 DEF Channel, Alone, Alive, Gone
<1> QED
  BY <1>2, <1>3, <1>4 DEF Channel

\* With every socket free, connect() takes the first.
LEMMA ConnectTakesFirst ==
  ASSUME Shapes, \A s \in Socket : sock[s] = Free, Connect(sock)
  PROVE  /\ Shapes' /\ socket' = 1 /\ 1 \in Socket
         /\ sock'[1].pc = "connecting" /\ ~Gone(sock'[1]) /\ sock'[1].inbox = <<>>
         /\ \A s \in Socket : s # 1 => sock'[s] = Free
         /\ \A s \in Socket : ~sock'[s].fed
<1>1. 1 \in Socket /\ \A s \in Socket : 1 <= s
  BY CapacityIsPositive DEF Socket
<1>2. Free1(sock) = 1
  <2>1. \A s \in Socket : (\A r \in Socket : s <= r) => s = 1
    BY <1>1 DEF Socket
  <2>2. Free1(sock) \in Socket /\ \A r \in Socket : Free1(sock) <= r
    <3>1. \E s \in Socket : sock[s] = Free /\ \A r \in Socket : sock[r] = Free => s <= r
      BY <1>1
    <3>2. /\ Free1(sock) \in Socket
          /\ \A r \in Socket : sock[r] = Free => Free1(sock) <= r
      BY ONLY <3>1 DEF Free1
    <3> QED
      BY <3>2
  <2> QED
    BY <2>1, <2>2
<1>3. socket' = 1 /\ sock' = [sock EXCEPT ![1].pc = "connecting"]
  BY <1>2 DEF Connect
<1> DEFINE k == [Free EXCEPT !.pc = "connecting"]
<1>4. /\ k \in Record /\ k.pc = "connecting" /\ ~k.fed /\ k.inbox = <<>>
  BY Tails DEF Free, Record
<1>5. ~Gone(k) /\ Shaped(k)
  <2>1. Len(k.inbox) = 0 /\ ~Closes(k)
    BY <1>4 DEF Closes
  <2>2. k # Free /\ k.inbox # <<"close">>
    BY <1>4 DEF Free
  <2> QED
    BY <1>4, <2>1, <2>2, CapacityIsPositive DEF Shaped, Gone
<1>6. sock'[1] = k /\ \A s \in Socket : s # 1 => sock'[s] = Free
  BY <1>1, <1>3 DEF Shapes
<1>7. Shapes'
  <2> HIDE DEF k
  <2>1. sock' \in [Socket -> Record]
    <3>1. DOMAIN sock' = Socket /\ sock' = [s \in Socket |-> sock'[s]]
      BY <1>3 DEF Shapes
    <3> QED
      BY <3>1, <1>4, <1>6, FreeShape
  <2> QED
    BY <2>1, <1>4, <1>5, <1>6, FreeShape DEF Shapes
<1> QED
  BY <1>1, <1>3, <1>4, <1>5, <1>6, <1>7, FreeShape

LEMMA SubscriptionKeeps ==
  ASSUME Channel, Alive, ensureHelperSubscription, UNCHANGED over
  PROVE  Channel' /\ \A s \in Socket : sock'[s].fed => sock'[s] = sock[s]
<1>1. CASE subscription = "open"
  <2>1. UNCHANGED channel
    BY <1>1 DEF ensureHelperSubscription
  <2> QED
    BY <2>1, ChannelKept DEF channel
<1>2. CASE subscription = "none"
  <2>1. timers' = 0 /\ subscription' = "open" /\ Connect(sock) /\ (\A s \in Socket : sock[s] = Free)
    BY <1>2 DEF ensureHelperSubscription, Channel, Alone
  <2>2. /\ Shapes' /\ socket' = 1 /\ 1 \in Socket
        /\ sock'[1].pc = "connecting" /\ ~Gone(sock'[1]) /\ sock'[1].inbox = <<>>
        /\ \A s \in Socket : s # 1 => sock'[s] = Free
        /\ \A s \in Socket : ~sock'[s].fed
    BY <2>1, ConnectTakesFirst DEF Channel
  <2>3. Alone'
    BY <2>1, <2>2 DEF Channel, Alone, Alive, Gone
  <2> QED
    BY <2>2, <2>3 DEF Channel
<1> QED
  BY <1>1, <1>2 DEF Channel, Alone

\* The assumption: no reconnect before the old socket's close.  The timer
\* pends only while the variable is null, so no socket is left then.
LEMMA ReconnectKeeps ==
  ASSUME Stalls = FALSE, Channel, Reconnect
  PROVE  Channel' /\ \A s \in Socket : ~sock'[s].fed
<1>1. Alive /\ timers > 0 /\ Connect(sock) /\ timers' = timers - 1 /\ UNCHANGED <<subscription, over>>
  BY DEF Reconnect, quitting
<1>2. subscription = "open" /\ timers = 1 /\ socket = 0
  BY <1>1 DEF Channel, Alone
<1>3. \A s \in Socket : sock[s] = Free
  <2>1. \A s \in Socket : ~Closes(sock[s]) /\ sock[s] \in Record
    BY DEF Reconnect, Channel, Shapes
  <2>2. \A s \in Socket : sock[s].inbox # <<"close">>
    <3>1. ASSUME NEW s \in Socket, sock[s].inbox = <<"close">> PROVE Closes(sock[s])
      BY <3>1 DEF Closes
    <3> QED
      BY <2>1, <3>1
  <2> QED
    BY <1>2, <2>2 DEF Channel, Alone, Gone
<1>4. /\ Shapes' /\ socket' = 1 /\ 1 \in Socket
      /\ sock'[1].pc = "connecting" /\ ~Gone(sock'[1]) /\ sock'[1].inbox = <<>>
      /\ \A s \in Socket : s # 1 => sock'[s] = Free
      /\ \A s \in Socket : ~sock'[s].fed
  BY <1>1, <1>3, ConnectTakesFirst DEF Channel
<1>5. timers' = 0
  BY <1>1, <1>2
<1>6. Alone'
  BY <1>1, <1>2, <1>4, <1>5 DEF Channel, Alone, Alive, Gone
<1> QED
  BY <1>4, <1>6 DEF Channel

LEMMA FreedKeeps ==
  ASSUME Channel, sock' = [s \in Socket |-> Free], socket' = 0, timers' = 0,
         subscription' \in {"none", "open"}, over' \in {"no", "asked", "signal"},
         subscription' = "none" \/ over' # "no"
  PROVE  Channel' /\ \A s \in Socket : ~sock'[s].fed
BY FreeShape DEF Channel, Shapes, Alone, Alive

\* One socket changes, all else stays: what is needed of the new one.
LEMMA OneChanges ==
  ASSUME Channel, NEW s \in Socket, NEW k \in Record, Shaped(k),
         sock' = [sock EXCEPT ![s] = k], sock[s].pc # "free", k.pc # "free",
         ~Gone(sock[s]), ~Gone(k), UNCHANGED <<subscription, socket, timers, over>>
  PROVE  Channel'
<1>1. sock'[s] = k /\ \A r \in Socket : r # s => sock'[r] = sock[r]
  BY DEF Channel, Shapes
<1>2. Shapes'
  BY <1>1 DEF Channel, Shapes
<1>3. socket = s
  BY DEF Channel, Alone, Gone, Free
<1>4. Alone'
  BY <1>1, <1>3 DEF Channel, Alone, Alive, Gone
<1> QED
  BY <1>2, <1>4 DEF Channel

LEMMA ConnectsKeeps ==
  ASSUME Channel, NEW s \in Socket, SocketConnects(s)
  PROVE  Channel' /\ \A r \in Socket : sock'[r].fed => sock'[r] = sock[r]
<1> DEFINE k == sock[s]
           o == [k EXCEPT !.pc = "open"]
<1>1. /\ k.pc = "connecting" /\ k.inbox = <<>> /\ k \in Record /\ Shaped(k)
      /\ sock' = [sock EXCEPT ![s] = IF Up THEN o ELSE HungUp(k)]
      /\ UNCHANGED <<subscription, socket, timers, over>>
  BY DEF SocketConnects, Channel, Shapes, quitting
<1>2. \A r \in Socket : r # s => sock'[r] = sock[r]
  BY <1>1 DEF Channel, Shapes
<1> HIDE DEF k
<1>3. ~Gone(k) /\ ~k.fed
  BY <1>1 DEF Gone, Free, Shaped
<1>4. CASE Up
  <2>1. o \in Record /\ o.pc = "open" /\ o.inbox = <<>> /\ ~o.fed
    BY <1>1, <1>3 DEF Record
  <2>2. Len(o.inbox) = 0 /\ ~Closes(o)
    BY <2>1 DEF Closes
  <2>3. sock' = [sock EXCEPT ![s] = o]
    BY <1>1, <1>4
  <2> HIDE DEF o
  <2>4. Shaped(o) /\ ~Gone(o)
    BY <2>1, <2>2, CapacityIsPositive DEF Shaped, Gone, Free
  <2>5. Channel'
    <3>1. k.pc # "free" /\ o.pc # "free"
      BY <1>1, <2>1
    <3> QED
      BY <1>1, <1>3, <2>1, <2>3, <2>4, <3>1, OneChanges DEF k
  <2>6. sock'[s] = o
    BY <2>3 DEF Channel, Shapes
  <2> QED
    BY <1>2, <2>1, <2>5, <2>6
<1>5. CASE ~Up
  <2>1. /\ HungUp(k) \in Record /\ Shaped(HungUp(k)) /\ HungUp(k).pc = k.pc
        /\ ~HungUp(k).fed /\ ~Gone(HungUp(k))
    BY <1>1, <1>3, HungUpShape
  <2>2. sock' = [sock EXCEPT ![s] = HungUp(k)]
    BY <1>1, <1>5
  <2>3. Channel'
    <3>1. k.pc # "free" /\ HungUp(k).pc # "free"
      BY <1>1, <2>1
    <3> QED
      BY <1>1, <1>3, <2>1, <2>2, <3>1, OneChanges DEF k
  <2>4. sock'[s] = HungUp(k)
    BY <2>2 DEF Channel, Shapes
  <2> QED
    BY <1>2, <2>1, <2>3, <2>4
<1> QED
  BY <1>4, <1>5

LEMMA SubscribesKeeps ==
  ASSUME Channel, NEW s \in Socket, HelperSubscribes(s)
  PROVE  /\ Channel' /\ Runs /\ sock'[s].inbox = <<"ack">>
         /\ \A r \in Socket : r # s => sock'[r] = sock[r]
<1> DEFINE k == [[Free EXCEPT !.pc = "open"] EXCEPT !.fed = TRUE, !.inbox = <<"ack">>]
<1>1. /\ sock[s] = [Free EXCEPT !.pc = "open"] /\ Runs
      /\ UNCHANGED <<subscription, socket, timers, over>>
      /\ sock' = [sock EXCEPT ![s] = k]
  <2>1. sock' = [sock EXCEPT ![s].fed = TRUE, ![s].inbox = <<"ack">>]
    BY DEF HelperSubscribes
  <2>2. sock[s] = [Free EXCEPT !.pc = "open"] /\ Runs /\ UNCHANGED <<subscription, socket, timers, over>>
    BY DEF HelperSubscribes, quitting
  <2> QED
    BY <2>1, <2>2 DEF Channel, Shapes
<1>2. k \in Record /\ k.pc = "open" /\ k.fed /\ k.inbox = <<"ack">>
  BY Tails DEF Record, Free
<1>3. sock[s].pc = "open" /\ sock[s].inbox = <<>>
  BY <1>1 DEF Free
<1> HIDE DEF k
<1>4. Len(k.inbox) = 1 /\ k.inbox[1] = "ack" /\ ~Closes(k)
  BY <1>2 DEF Closes
<1>5. Shaped(k) /\ ~Gone(k)
  BY <1>2, <1>4, CapacityIsPositive DEF Shaped, Gone, Free
<1>6. ~Gone(sock[s])
  BY <1>3 DEF Gone, Free
<1>7. Channel'
  <2>1. sock[s].pc # "free" /\ k.pc # "free"
    BY <1>2, <1>3
  <2> QED
    BY <1>1, <1>2, <1>5, <1>6, <2>1, OneChanges
<1>8. sock'[s] = k /\ \A r \in Socket : r # s => sock'[r] = sock[r]
  BY <1>1 DEF Channel, Shapes
<1> QED
  BY <1>1, <1>2, <1>7, <1>8

LEMMA ReceiveKeeps ==
  ASSUME Channel, NEW s \in Socket, Receive(s)
  PROVE  /\ Channel'
         /\ \A r \in Socket : r # s => sock'[r] = sock[r]
         /\ sock'[s].fed => sock[s].fed /\ sock'[s].inbox = Tail(sock[s].inbox)
<1> DEFINE k == sock[s]
           m == Head(k.inbox)
           r == Rest(k)
<1>1. /\ Alive /\ k.inbox # <<>> /\ k \in Record /\ Shaped(k)
      /\ UNCHANGED <<subscription, over>>
      /\ IF m \in {"error", "end", "close"} THEN OnClosed ELSE UNCHANGED <<socket, timers>>
      /\ sock' = [sock EXCEPT ![s] = IF m = "close" THEN Free ELSE r]
  <2>1. k \in Record /\ Shaped(k)
    BY DEF Channel, Shapes
  <2>2. /\ Alive /\ k.inbox # <<>> /\ UNCHANGED <<subscription, over>>
        /\ IF m \in {"error", "end", "close"} THEN OnClosed ELSE UNCHANGED <<socket, timers>>
    BY DEF Receive, quitting
  <2>3. sock' = [sock EXCEPT ![s] = IF m = "close" THEN Free ELSE r]
    BY DEF Receive
  <2> QED
    BY ONLY <2>1, <2>2, <2>3
<1>2. \A q \in Socket : q # s => sock'[q] = sock[q]
  BY <1>1 DEF Channel, Shapes
<1>3. sock'[s] = IF m = "close" THEN Free ELSE r
  BY <1>1 DEF Channel, Shapes
<1>4. k # Free /\ subscription = "open" /\ k.inbox \in Seq(Message)
  BY <1>1 DEF Channel, Alone, Free, Record
<1>5. CASE m = "close"
  <2>1. Gone(k)
    <3> HIDE DEF k
    <3>1. Len(k.inbox) \in Nat \ {0} /\ k.inbox[1] = "close"
      BY <1>1, <1>4, <1>5
    <3>2. Len(k.inbox) = 1
      <4>1. 1 \in 1..Len(k.inbox)
        BY <3>1
      <4> QED
        BY <1>1, <3>1, <4>1 DEF Shaped
    <3>3. k.inbox = <<"close">>
      BY <1>4, <3>1, <3>2
    <3>4. Closes(k)
      BY <1>4, <3>1, <3>2, ClosesAt
    <3> QED
      BY <1>1, <3>3, <3>4 DEF Gone, Shaped
  <2>2. socket = 0 /\ timers = 1
    BY <1>1, <1>4, <2>1 DEF Channel, Alone
  <2>3. socket' = 0 /\ timers' = 1 /\ sock'[s] = Free
    BY <1>1, <1>3, <1>5, <2>2 DEF OnClosed, scheduleReconnect
  <2>4. Shapes'
    BY <1>1, <1>5, FreeShape DEF Channel, Shapes
  <2>5. Alone'
    BY <1>1, <1>2, <1>4, <2>2, <2>3, FreeShape DEF Channel, Alone, Alive, Gone
  <2> QED
    BY <1>2, <2>3, <2>4, <2>5, FreeShape DEF Channel
<1>6. CASE m # "close"
  <2>1. /\ r \in Record /\ Shaped(r) /\ r.pc = k.pc /\ r.fed = k.fed /\ r.inbox = Tail(k.inbox)
        /\ m \in {"error", "end"} => Gone(r)
        /\ m \notin {"error", "end"} => ~Gone(r)
    <3> HIDE DEF k
    <3> QED
      BY <1>1, <1>6, ReadShape
  <2>2. ~Gone(k)
    <3>1. k.inbox # <<"close">>
      <4> HIDE DEF k
      <4> QED
        BY <1>1, <1>4, <1>6
    <3> QED
      BY <1>4, <3>1 DEF Gone
  <2>3. socket = s /\ timers = 0 /\ \A q \in Socket : q # s => sock[q] = Free
    BY <1>1, <1>4, <2>2 DEF Channel, Alone
  <2>4. sock'[s] = r /\ sock' = [sock EXCEPT ![s] = r]
    BY <1>1, <1>3, <1>6
  <2> HIDE DEF r
  <2>5. Shapes'
    BY <2>1, <2>4 DEF Channel, Shapes
  <2>6. CASE m \in {"error", "end"}
    <3>1. socket' = 0 /\ timers' = 1
      BY <1>1, <2>3, <2>6 DEF OnClosed, scheduleReconnect
    <3>2. \A q \in Socket : Gone(sock'[q])
      BY <1>2, <2>1, <2>3, <2>4, <2>6, FreeShape
    <3>3. Alone'
      BY <1>1, <1>4, <3>1, <3>2 DEF Channel, Alone, Alive, Gone
    <3> QED
      BY <1>2, <2>1, <2>4, <2>5, <3>3 DEF Channel
  <2>7. CASE m \notin {"error", "end"}
    <3>1. UNCHANGED <<socket, timers>>
      BY <1>1, <1>6, <2>7
    <3>2. k.pc # "free"
      BY <1>1, <1>4 DEF Shaped
    <3>3. Channel'
      BY <1>1, <2>1, <2>2, <2>4, <2>7, <3>1, <3>2, OneChanges
    <3> QED
      BY <1>2, <2>1, <2>4, <3>3
  <2> QED
    BY <2>6, <2>7
<1> QED
  BY <1>5, <1>6

-----------------------------------------------------------------------------
(* The record of a start.                                                  *)

Pcs == {"idle", "avail", "version", "reload", "reloaded", "install", "wait", "start", "verify",
        "verified"}

StartRecord == [pc : Pcs, try : 1..Retries, reload : BOOLEAN, value : BOOLEAN]

LEMMA StartEdits ==
  ASSUME start \in StartRecord
  PROVE  /\ Idle \in StartRecord /\ Idle.pc = "idle"
         /\ \A p \in Pcs : To(p) => start' \in StartRecord /\ start'.pc = p
         /\ Fails => start' \in StartRecord /\ start'.pc \in {"idle", "install"}
         /\ Again => start' \in StartRecord /\ start'.pc \in {"idle", start.pc}
         /\ start.try < Retries /\ start' = [start EXCEPT !.try = @ + 1] =>
              start' \in StartRecord /\ start'.pc = start.pc
<1>1. Idle \in StartRecord /\ Idle.pc = "idle"
  BY CapacityIsPositive DEF Idle, StartRecord, Pcs
<1>2. ASSUME NEW p \in Pcs PROVE [Idle EXCEPT !.pc = p] \in StartRecord /\ [Idle EXCEPT !.pc = p].pc = p
  BY <1>1 DEF StartRecord
<1>3. ASSUME NEW p \in Pcs, To(p) PROVE start' \in StartRecord /\ start'.pc = p
  <2>1. start' = [[Idle EXCEPT !.pc = p] EXCEPT !.reload = start.reload]
    BY <1>1, <1>3 DEF To, StartRecord
  <2> QED
    BY <1>2, <2>1 DEF StartRecord
<1>4. start.try < Retries /\ start' = [start EXCEPT !.try = @ + 1] =>
        start' \in StartRecord /\ start'.pc = start.pc
  BY CapacityIsPositive DEF StartRecord
<1>5. Fails => start' \in StartRecord /\ start'.pc \in {"idle", "install"}
  BY <1>1, <1>2 DEF Fails, Pcs
<1>6. Again => start' \in StartRecord /\ start'.pc \in {"idle", start.pc}
  BY <1>1, <1>4 DEF Again
<1> QED
  BY <1>1, <1>3, <1>4, <1>5, <1>6

-----------------------------------------------------------------------------
(* The machine and the installer.                                          *)

Installer == Machine /\ Ready /\ start \in StartRecord

\* A script of the installer, whichever of its commands fail.
LEMMA ScriptKeeps ==
  ASSUME Machine, NEW gone \in BOOLEAN, NEW loads \in BOOLEAN, Bootout(gone),
         files' \in {"none", "old", "new"}, muffled' \in BOOLEAN, faults' \in 0..MaxFaults,
         ~gone => muffled' \/ (files' = files /\ muffled' = muffled), ~gone /\ muffled => muffled',
         Bootstrap(gone, loads)
  PROVE  Machine'
<1>0. /\ helper \in {"down", "old", "new"} /\ hidden \in BOOLEAN /\ box \in BOOLEAN
      /\ (hidden => Runs /\ muffled) /\ (Runs /\ ~muffled => helper = files) /\ (box => Runs)
  BY DEF Machine
<1>1. CASE gone
  <2>1. box' = FALSE /\ hidden' = FALSE
    BY <1>0, <1>1 DEF Bootout, Bootstrap
  <2>2. /\ loaded' = (loads /\ files' # "none")
        /\ helper' = IF loads /\ files' # "none" THEN files' ELSE "down"
    BY <1>1 DEF Bootstrap
  <2>3. helper' \in {"down", "old", "new"} /\ loaded' \in BOOLEAN
    BY <2>2
  <2>4. (helper' # "down" => loaded') /\ (helper' # "down" => helper' = files')
    BY <2>2
  <2> QED
    BY <2>1, <2>3, <2>4 DEF Machine, Runs
<1>2. CASE ~gone
  <2>1. box' = box /\ hidden' = hidden /\ loaded' = TRUE /\ helper' = helper
    BY <1>0, <1>2 DEF Bootout, Bootstrap
  <2>2. Runs' = Runs
    BY <2>1 DEF Runs
  <2> QED
    BY <1>0, <1>2, <2>1, <2>2 DEF Machine
<1> QED
  BY <1>1, <1>2

LEMMA InstalledKeeps ==
  ASSUME Machine, NEW copied \in BOOLEAN, NEW gone \in BOOLEAN, NEW loads \in BOOLEAN,
         Installed(copied, gone, loads), faults' \in 0..MaxFaults
  PROVE  Machine' /\ (~muffled' => files' = "new")
<1>1. /\ files' = (IF copied THEN "new" ELSE files) /\ muffled' = ~(copied /\ gone)
      /\ Bootout(gone) /\ Bootstrap(gone, loads)
  BY DEF Installed
<1>2. files' \in {"none", "old", "new"} /\ muffled' \in BOOLEAN
  BY <1>1 DEF Machine
<1> QED
  BY <1>1, <1>2, ScriptKeeps

LEMMA ReloadedKeeps ==
  ASSUME Machine, NEW gone \in BOOLEAN, NEW loads \in BOOLEAN, Reloaded(gone, loads),
         faults' \in 0..MaxFaults
  PROVE  Machine'
<1>1. files' = files /\ muffled' = muffled /\ Bootout(gone) /\ Bootstrap(gone, loads)
  BY DEF Reloaded
<1>2. files \in {"none", "old", "new"} /\ muffled \in BOOLEAN
  BY DEF Machine
<1> QED
  BY <1>1, <1>2, ScriptKeeps

LEMMA UninstalledKeeps ==
  ASSUME Machine, NEW gone \in BOOLEAN, Uninstalled(gone), faults' \in 0..MaxFaults
  PROVE  Machine' /\ files' = "none" /\ (hidden => hidden' \/ gone)
<1>1. files' = "none" /\ muffled' = ~gone /\ loaded' = ~gone /\ hidden' = (~gone /\ Runs)
  BY DEF Uninstalled
<1>2. CASE gone
  <2>1. box' = FALSE /\ helper' = "down"
    BY <1>2 DEF Uninstalled, Bootout
  <2> QED
    BY <1>1, <1>2, <2>1 DEF Machine, Runs
<1>3. CASE ~gone
  <2>1. box' = box /\ helper' = helper
    BY <1>3 DEF Uninstalled, Bootout
  <2>2. Runs' = Runs /\ Runs \in BOOLEAN
    BY <2>1 DEF Runs
  <2> QED
    BY <1>1, <1>3, <2>1, <2>2 DEF Machine
<1> QED
  BY <1>2, <1>3

\* sing-box under the daemon that runs.
LEMMA BoxKeeps ==
  ASSUME Machine, UNCHANGED launchd, faults' \in 0..MaxFaults,
         box' = FALSE \/ (Runs /\ box' = TRUE) \/ box' = box
  PROVE  Machine'
<1>0. Runs' = Runs /\ UNCHANGED <<files, loaded, helper, hidden, muffled>>
  BY DEF Runs, launchd
<1>1. box' \in BOOLEAN /\ (box' => Runs)
  <2>1. box \in BOOLEAN /\ (box => Runs)
    BY DEF Machine
  <2>2. CASE box' = FALSE
    BY <2>2
  <2>3. CASE Runs /\ box' = TRUE
    BY <2>3
  <2>4. CASE box' = box
    BY <2>1, <2>4
  <2> QED
    BY <2>2, <2>3, <2>4
<1> QED
  BY <1>0, <1>1 DEF Machine

LEMMA OneFault ==
  ASSUME Machine, faults < MaxFaults, faults' = faults + 1
  PROVE  faults' \in 0..MaxFaults
<1>1. faults \in 0..MaxFaults
  BY DEF Machine
<1> QED
  BY <1>1, CapacityIsPositive

LEMMA CountedKeeps ==
  ASSUME Machine, NEW done, Counted(done)
  PROVE  faults' \in 0..MaxFaults
<1>1. faults \in 0..MaxFaults
  BY DEF Machine
<1> QED
  BY <1>1, OneFault DEF Counted

\* Every step of a start.
LEMMA InstallerStartStep ==
  ASSUME Installer, StartStep
  PROVE  Installer'
<1>0. Machine /\ Ready /\ start \in StartRecord
  BY DEF Installer
<1>e. /\ Idle \in StartRecord /\ Idle.pc = "idle"
      /\ \A p \in Pcs : To(p) => start' \in StartRecord /\ start'.pc = p
      /\ Fails => start' \in StartRecord /\ start'.pc \in {"idle", "install"}
      /\ Again => start' \in StartRecord /\ start'.pc \in {"idle", start.pc}
      /\ start.try < Retries /\ start' = [start EXCEPT !.try = @ + 1] =>
           start' \in StartRecord /\ start'.pc = start.pc
  BY <1>0, StartEdits
<1>k. UNCHANGED machine => Machine'
  BY <1>0 DEF Machine, Runs, machine, launchd
<1>1. CASE EnsureReady
  <2>1. start' \in StartRecord /\ start'.pc \in {"version", "reload", "install"} /\ UNCHANGED machine
    BY <1>1, <1>e DEF EnsureReady, Pcs
  <2> QED
    BY <1>k, <2>1 DEF Installer, Ready
<1>2. CASE ensureUpToDate
  <2>1. /\ start' \in StartRecord /\ start'.pc \in {"version", "start", "install"}
        /\ start'.pc = "start" => files = "none" \/ (Up /\ helper = "new")
        /\ UNCHANGED machine
    BY <1>2, <1>e DEF ensureUpToDate, Pcs
  <2>2. start'.pc = "start" /\ ~muffled => files # "old"
    BY <1>0, <2>1 DEF Machine, Up
  <2>3. Ready'
    BY <2>1, <2>2 DEF Ready, machine, launchd
  <2> QED
    BY <1>k, <2>1, <2>3 DEF Installer
<1>3. CASE Reload
  <2>1. ASSUME NEW gone \in BOOLEAN, NEW loads \in BOOLEAN, NEW told \in BOOLEAN,
               Reloaded(gone, loads), Counted(gone /\ loads /\ told),
               start' = [Idle EXCEPT !.pc = IF told THEN "reloaded" ELSE "install",
                                     !.reload = told]
        PROVE  Installer'
    <3>1. start' \in StartRecord /\ start'.pc \in {"reloaded", "install"}
      BY <1>e, <2>1 DEF StartRecord, Pcs
    <3>2. Machine'
      BY <1>0, <2>1, CountedKeeps, ReloadedKeeps
    <3> QED
      BY <3>1, <3>2 DEF Installer, Ready
  <2>2. CASE To("install") /\ UNCHANGED <<machine, channel>>
    <3>1. start' \in StartRecord /\ start'.pc = "install"
      BY <1>e, <2>2 DEF Pcs
    <3> QED
      BY <1>k, <2>2, <3>1 DEF Installer, Ready
  <2> QED
    BY <1>3, <2>1, <2>2 DEF Reload
<1>9. CASE ReloadWait
  <2>1. /\ start' \in StartRecord /\ start'.pc \in {"version", "idle", "install"}
        /\ UNCHANGED machine
    BY <1>9, <1>e DEF ReloadWait, Pcs
  <2> QED
    BY <1>k, <2>1 DEF Installer, Ready
<1>4. CASE Install
  <2>1. ASSUME NEW copied \in BOOLEAN, NEW gone \in BOOLEAN, NEW loads \in BOOLEAN,
               NEW told \in BOOLEAN, Installed(copied, gone, loads),
               Counted(copied /\ gone /\ loads /\ told),
               IF told THEN To("wait") ELSE Fails
        PROVE  Installer'
    <3>1. start' \in StartRecord
      BY <1>e, <2>1 DEF Pcs
    <3>2. Machine' /\ (~muffled' => files' = "new")
      BY <1>0, <2>1, CountedKeeps, InstalledKeeps
    <3> QED
      BY <3>1, <3>2 DEF Installer, Ready
  <2>2. CASE Fails /\ UNCHANGED <<machine, channel>>
    <3>1. start' \in StartRecord /\ start'.pc \in {"idle", "install"}
      BY <1>e, <2>2
    <3> QED
      BY <1>k, <2>2, <3>1 DEF Installer, Ready
  <2> QED
    BY <1>4, <2>1, <2>2 DEF Install
<1>5. CASE Wait
  <2>1. /\ start' \in StartRecord /\ start'.pc \in {"start", "idle", "install"}
        /\ UNCHANGED machine
    BY <1>5, <1>e DEF Wait, Pcs
  <2>2. ~muffled' => files' # "old"
    BY <1>0, <1>5, <2>1 DEF Wait, Ready, machine, launchd
  <2> QED
    BY <1>k, <2>1, <2>2 DEF Installer, Ready
<1>6. CASE StartServed
  <2>1. UNCHANGED launchd /\ faults' = faults /\ start.pc = "start"
    BY <1>6 DEF StartServed
  <2>2. start' \in StartRecord /\ start'.pc \in {"verify", "idle", "start"}
    BY <1>6, <1>e DEF StartServed, Pcs
  <2>3. box' = box \/ (Runs /\ box' = TRUE)
    BY <1>6 DEF StartServed, Up
  <2>4. Machine'
    <3>1. faults' \in 0..MaxFaults
      BY <1>0, <2>1 DEF Machine
    <3> QED
      BY <1>0, <2>1, <2>3, <3>1, BoxKeeps
  <2> QED
    BY <1>0, <2>1, <2>2, <2>4 DEF Installer, Ready, launchd
<1>7. CASE StartAsked
  <2>1. /\ start' \in StartRecord /\ start'.pc \in {"verified", "idle", "verify"}
        /\ UNCHANGED machine
    <3>1. UNCHANGED machine /\ start.pc = "verify"
      BY <1>7 DEF StartAsked
    <3>2. [Idle EXCEPT !.pc = "verified", !.value = box] \in StartRecord
      BY <1>0, <1>e DEF StartRecord, Pcs, Machine
    <3>3. [Idle EXCEPT !.pc = "verified", !.value = box].pc = "verified"
      BY <1>e DEF StartRecord
    <3> QED
      BY <1>7, <1>e, <3>1, <3>2, <3>3 DEF StartAsked
  <2> QED
    BY <1>k, <2>1 DEF Installer, Ready
<1>8. CASE StartVerified
  <2>1. start' \in StartRecord /\ start'.pc = "idle" /\ UNCHANGED machine
    BY <1>8, <1>e DEF StartVerified
  <2> QED
    BY <1>k, <2>1 DEF Installer, Ready
<1> QED
  BY <1>1, <1>2, <1>3, <1>4, <1>5, <1>6, <1>7, <1>8, <1>9 DEF StartStep

LEMMA InstallerStep ==
  ASSUME Installer, [Next]_vars
  PROVE  Installer'
<1>0. Machine /\ Ready /\ start \in StartRecord
  BY DEF Installer
<1>k. ASSUME UNCHANGED <<machine, start>> PROVE Installer'
  BY <1>k DEF Installer, Machine, Ready, Runs, machine, launchd
<1>1. CASE \E s \in Socket : SocketConnects(s) \/ HelperSubscribes(s) \/ Receive(s)
  BY <1>1, <1>k DEF SocketConnects, HelperSubscribes, Receive
<1>2. CASE Reconnect \/ Poll \/ Reconcile
  BY <1>2, <1>k DEF Reconnect, Poll, Reconcile
<1>3. CASE Quit \/ KillTimer
  BY <1>3, <1>k DEF Quit, KillTimer
<1>4. CASE StartStep
  BY <1>4, InstallerStartStep
<1>5. CASE Start
  <2>1. start' \in StartRecord /\ start'.pc = "avail" /\ UNCHANGED machine
    BY <1>0, <1>5, StartEdits DEF Start, Pcs
  <2> QED
    BY <1>0, <2>1 DEF Installer, Machine, Ready, Runs, machine, launchd
<1>6. CASE SettingsInstall
  <2>1. PICK copied, gone, loads \in BOOLEAN : Installed(copied, gone, loads)
    BY <1>6 DEF SettingsInstall
  <2>2. faults' \in 0..MaxFaults /\ start' = start
    BY <1>0, <1>6, CountedKeeps DEF SettingsInstall
  <2>3. Machine' /\ (~muffled' => files' = "new")
    BY <1>0, <2>1, <2>2, InstalledKeeps
  <2> QED
    BY <1>0, <2>2, <2>3 DEF Installer, Ready
<1>7. CASE Uninstall
  <2>1. PICK gone \in BOOLEAN : Uninstalled(gone)
    BY <1>7 DEF Uninstall
  <2>2. faults' \in 0..MaxFaults /\ start' = start
    BY <1>0, <1>7, CountedKeeps DEF Uninstall
  <2>3. Machine' /\ files' = "none"
    BY <1>0, <2>1, <2>2, UninstalledKeeps
  <2> QED
    BY <1>0, <2>2, <2>3 DEF Installer, Ready
<1>8. CASE BoxDies \/ HelperDies
  <2>1. /\ UNCHANGED <<files, loaded, muffled>> /\ box' = FALSE /\ start' = start
        /\ faults' \in 0..MaxFaults
        /\ UNCHANGED <<helper, hidden>> \/ (helper' = "down" /\ hidden' = FALSE)
    BY <1>0, <1>8, OneFault DEF BoxDies, HelperDies, launchd
  <2>2. Machine'
    <3>1. CASE UNCHANGED <<helper, hidden>>
      <4>1. Runs' = Runs /\ helper' = helper /\ hidden' = hidden
        BY <3>1 DEF Runs
      <4> QED
        BY <1>0, <2>1, <4>1 DEF Machine
    <3>2. CASE helper' = "down" /\ hidden' = FALSE
      BY <1>0, <2>1, <3>2 DEF Machine, Runs
    <3> QED
      BY <2>1, <3>1, <3>2
  <2> QED
    BY <1>0, <2>1, <2>2 DEF Installer, Ready
<1>9. CASE HelperRestarts
  <2>1. /\ UNCHANGED <<files, loaded, hidden, muffled, box, faults, start>>
        /\ helper' = files /\ files # "none" /\ loaded /\ ~Runs
    BY <1>9 DEF HelperRestarts
  <2>2. Machine'
    BY <1>0, <2>1 DEF Machine, Runs
  <2> QED
    BY <1>0, <2>1, <2>2 DEF Installer, Ready
<1>10. CASE QuitWork \/ Signal \/ WatchdogStops
  <2>1. /\ UNCHANGED launchd /\ box' \in {box, FALSE}
        /\ faults' = faults /\ start' = start
    <3>1. CASE QuitWork
      BY <3>1 DEF QuitWork, QuitUploaded, QuitStops, QuitDone, QuitTimeout, machine
    <3>2. CASE Signal \/ WatchdogStops
      BY <3>2 DEF Signal, WatchdogStops
    <3> QED
      BY <1>10, <3>1, <3>2
  <2>2. Machine'
    <3>1. faults' \in 0..MaxFaults
      BY <1>0, <2>1 DEF Machine
    <3> QED
      BY <1>0, <2>1, <3>1, BoxKeeps
  <2> QED
    BY <1>0, <2>1, <2>2 DEF Installer, Ready, launchd
<1>11. CASE UNCHANGED vars
  BY <1>11, <1>k DEF vars
<1> QED
  BY <1>1, <1>2, <1>3, <1>4, <1>5, <1>6, <1>7, <1>8, <1>9, <1>10, <1>11 DEF Next

LEMMA InstallerInit == Init => Installer
<1> SUFFICES ASSUME Init PROVE Installer
  OBVIOUS
<1>1. start \in StartRecord /\ start.pc = "idle"
  BY CapacityIsPositive DEF Init, Idle, StartRecord, Pcs
<1>2. Machine
  <2>1. faults \in 0..MaxFaults
    BY CapacityIsPositive DEF Init
  <2>2. /\ files \in {"none", "old", "new"} /\ box = FALSE /\ hidden = FALSE /\ muffled = FALSE
        /\ loaded \in BOOLEAN /\ (loaded => files # "none")
        /\ helper = "down" \/ (loaded /\ helper = files)
    BY DEF Init
  <2> QED
    BY <2>1, <2>2 DEF Machine, Runs
<1> QED
  BY <1>1, <1>2 DEF Installer, Ready

\* Whatever was installed before, whichever step of ensureReady failed and
\* whatever the Settings page did meanwhile, the start request goes to the
\* helper that came with this app (helper-installer.ts, ensureReady and
\* ensureUpToDate), unless a command of the last script failed unnoticed.
THEOREM StartsOnNew == Spec => []ReadyIsNew
<1>1. Installer => ReadyIsNew
  BY DEF Installer, Machine, Ready, ReadyIsNew, Up
<1> QED
  BY <1>1, InstallerInit, InstallerStep, PTL DEF Spec

-----------------------------------------------------------------------------
(* The subscription.                                                       *)

LEMMA ChannelInit == Init => Channel
<1> SUFFICES ASSUME Init PROVE Channel
  OBVIOUS
<1>1. \A s \in Socket : sock[s] = Free
  BY DEF Init
<1>2. Shapes
  BY FreeShape DEF Init, Shapes
<1>3. Alone
  BY <1>1, FreeShape DEF Init, Alone, Alive
<1> QED
  BY <1>2, <1>3 DEF Channel

LEMMA ChannelReconcile ==
  ASSUME Channel, Reconcile
  PROVE  Channel' /\ \A s \in Socket : sock'[s].fed => sock'[s] = sock[s]
<1>1. Alive /\ UNCHANGED over
  BY DEF Reconcile, quitting
<1>2. CASE UNCHANGED channel
  <2>1. Channel'
    BY <1>1, <1>2, ChannelKept
  <2> QED
    BY <1>2, <2>1 DEF channel
<1>3. CASE ensureHelperSubscription
  BY <1>1, <1>3, SubscriptionKeeps
<1> QED
  BY <1>2, <1>3 DEF Reconcile, ReconcileAvail, ReconcileServed, ReconcileReply, ReconcileFails

\* A bootout, which takes the daemon down or does not.
LEMMA BootoutKeeps ==
  ASSUME Channel, NEW gone \in BOOLEAN, Bootout(gone), UNCHANGED over
  PROVE  /\ Channel'
         /\ gone => \A s \in Socket : ~sock'[s].fed
         /\ ~gone => UNCHANGED <<box, channel>>
<1>1. CASE gone
  <2>1. sock' = [s \in Socket |-> HungUp(sock[s])] /\ UNCHANGED <<subscription, socket, timers>>
    BY <1>1 DEF Bootout
  <2> QED
    BY <1>1, <2>1, HungUpKeeps
<1>2. CASE ~gone
  <2>1. UNCHANGED <<box, channel>>
    BY <1>2 DEF Bootout, channel
  <2> QED
    BY <1>2, <2>1, ChannelKept
<1> QED
  BY <1>1, <1>2

LEMMA ChannelStartStep ==
  ASSUME Channel, StartStep
  PROVE  Channel'
<1>1. Alive /\ UNCHANGED over
  BY DEF StartStep, quitting
<1>2. CASE UNCHANGED channel
  BY <1>1, <1>2, ChannelKept
<1>3. ASSUME NEW gone \in BOOLEAN, Bootout(gone) PROVE Channel'
  BY <1>1, <1>3, BootoutKeeps
<1>4. CASE StartServed
  <2>1. CASE Push("started")
    BY <1>1, <1>4, <2>1, PushKeeps DEF StartServed
  <2>2. CASE UNCHANGED sock
    BY <1>1, <1>4, <2>2, ChannelKept DEF StartServed, channel
  <2> QED
    BY <1>4, <2>1, <2>2 DEF StartServed
<1>5. CASE ensureHelperSubscription
  BY <1>1, <1>5, SubscriptionKeeps
<1> QED
  BY <1>2, <1>3, <1>4, <1>5
     DEF StartStep, EnsureReady, ensureUpToDate, Reload, ReloadWait, Install, Wait, StartAsked,
         StartVerified, Reloaded, Installed

LEMMA ChannelStep ==
  ASSUME Stalls = FALSE, Channel, [Next]_vars
  PROVE  Channel'
<1>k. ASSUME UNCHANGED <<channel, over>> PROVE Channel'
  BY <1>k, ChannelKept
<1>h. ASSUME sock' = [s \in Socket |-> HungUp(sock[s])], UNCHANGED <<subscription, socket, timers, over>>
      PROVE Channel'
  BY <1>h, HungUpKeeps
<1>1. ASSUME NEW s \in Socket, SocketConnects(s) \/ HelperSubscribes(s) \/ Receive(s)
      PROVE Channel'
  BY <1>1, ConnectsKeeps, SubscribesKeeps, ReceiveKeeps
<1>2. CASE Reconnect
  BY <1>2, ReconnectKeeps
<1>3. CASE Reconcile
  BY <1>3, ChannelReconcile
<1>4. CASE StartStep
  BY <1>4, ChannelStartStep
<1>5. CASE Poll \/ Start \/ HelperRestarts \/ KillTimer \/ WatchdogStops
  BY <1>5, <1>k DEF Poll, Start, HelperRestarts, KillTimer, WatchdogStops, quitting
<1>6. CASE SettingsInstall \/ Uninstall \/ HelperDies
  <2>1. ASSUME NEW gone \in BOOLEAN, Bootout(gone), UNCHANGED over PROVE Channel'
    BY <2>1, BootoutKeeps
  <2> QED
    BY <1>6, <1>h, <2>1 DEF SettingsInstall, Uninstall, HelperDies, Installed, Uninstalled, quitting
<1>7. CASE BoxDies
  BY <1>7, PushKeeps DEF BoxDies, quitting
<1>8. CASE Quit
  <2>1. CASE UNCHANGED <<channel, over>>
    BY <2>1, <1>k
  <2>2. CASE Exit("asked")
    <3>1. subscription' \in {"none", "open"}
      BY <2>2 DEF Exit, Channel, Alone
    <3> QED
      BY <2>2, <3>1, FreedKeeps DEF Exit
  <2> QED
    BY <1>8, <2>1, <2>2 DEF Quit, beforeQuit
<1>9. CASE Signal
  <2>1. Exit("signal")
    BY <1>9 DEF Signal
  <2>2. subscription' \in {"none", "open"}
    BY <2>1 DEF Exit, Channel, Alone
  <2> QED
    BY <2>1, <2>2, FreedKeeps DEF Exit
<1>10. CASE QuitWork
  <2>0. UNCHANGED over
    BY <1>10 DEF QuitWork
  <2>1. CASE QuitUploaded
    <3>1. over' \in {"no", "asked", "signal"}
      BY <2>0 DEF Channel, Alone
    <3> QED
      BY <2>1, <3>1, FreedKeeps DEF QuitUploaded, Close
  <2>2. CASE QuitStops
    <3>1. CASE Push("exited")
      BY <2>0, <2>2, <3>1, PushKeeps DEF QuitStops
    <3>2. CASE UNCHANGED sock
      BY <2>0, <2>2, <3>2, <1>k DEF QuitStops, channel
    <3> QED
      BY <2>2, <3>1, <3>2 DEF QuitStops
  <2>3. CASE QuitDone \/ QuitTimeout
    BY <2>0, <2>3, <1>k DEF QuitDone, QuitTimeout
  <2> QED
    BY <1>10, <2>1, <2>2, <2>3 DEF QuitWork
<1>11. CASE UNCHANGED vars
  BY <1>11, <1>k DEF vars, quitting
<1> QED
  BY <1>1, <1>2, <1>3, <1>4, <1>5, <1>6, <1>7, <1>8, <1>9, <1>10, <1>11 DEF Next

LEMMA ChannelIsOne == Channel => OneChannel
<1> SUFFICES ASSUME Channel PROVE OneChannel
  OBVIOUS
<1>1. ASSUME NEW s \in Socket, Ended(s)
      PROVE  ~sock[s].fed /\ Head(sock[s].inbox) \in {"end", "close"}
  <2>1. Gone(sock[s]) /\ sock[s] # Free
    BY <1>1 DEF Channel, Alone, Ended, Free
  <2>2. sock[s].inbox = <<"close">> /\ ~sock[s].fed
    BY <2>1 DEF Gone
  <2>3. Head(sock[s].inbox) = "close"
    BY <2>2
  <2> QED
    BY <2>2, <2>3
<1> QED
  BY <1>1 DEF OneChannel, Channel, Alone

\* However the socket of a subscription goes, an open subscription keeps one
\* way to the events of the helper, a socket or a timer that makes one, and a
\* closed one keeps none (helper-client.ts, subscribe) - if no reconnect
\* overtakes the close of the socket before it.
THEOREM OneWayToEvents ==
  ASSUME Stalls = FALSE
  PROVE  Spec => []OneChannel
<1>1. Channel /\ [Next]_vars => Channel'
  BY ChannelStep
<1> QED
  BY <1>1, ChannelInit, ChannelIsOne, PTL DEF Spec

-----------------------------------------------------------------------------
(* The manager.                                                            *)

Answer == [pc : {"idle", "avail", "status", "reply"}, try : 1..Retries, value : BOOLEAN]

Kept ==
  /\ running \in BOOLEAN /\ authoritative \in BOOLEAN /\ overlap \in BOOLEAN
  /\ failures \in 0..(HELPER_FAILURE_THRESHOLD - 1)
  /\ reconcile \in Answer

LEMMA NoReconcileType == NoReconcile \in Answer /\ NoReconcile.pc = "idle"
  BY CapacityIsPositive DEF NoReconcile, Answer

LEMMA ReconcileFromKeeps ==
  ASSUME reconcile \in Answer, NEW pc \in {"avail", "status"}, ReconcileFrom(pc)
  PROVE  /\ reconcile' \in Answer /\ overlap' \in BOOLEAN
         /\ \/ reconcile.pc # "idle" /\ reconcile' = reconcile /\ overlap'
            \/ reconcile.pc = "idle" /\ reconcile'.pc = pc /\ (overlap' <=> start.pc = "verified")
<1>1. CASE reconcile.pc # "idle"
  BY <1>1 DEF ReconcileFrom
<1>2. CASE reconcile.pc = "idle"
  <2>1. reconcile' = [NoReconcile EXCEPT !.pc = pc] /\ overlap' = (start.pc = "verified")
    <3>1. Asking = (start.pc = "verified")
      BY <1>2 DEF Asking
    <3> QED
      BY <1>2, <3>1 DEF ReconcileFrom
  <2>2. reconcile' \in Answer /\ reconcile'.pc = pc
    BY <2>1, NoReconcileType DEF Answer
  <2> QED
    BY <1>2, <2>1, <2>2
<1> QED
  BY <1>1, <1>2

LEMMA EntryIsOne == Entry \in {"avail", "status"}
  BY DEF Entry

LEMMA KeptInit == Init => Kept
<1> SUFFICES ASSUME Init PROVE Kept
  OBVIOUS
<1>1. reconcile \in Answer
  BY NoReconcileType DEF Init, Answer
<1>2. 0 \in 0..(HELPER_FAILURE_THRESHOLD - 1)
  BY CapacityIsPositive
<1> QED
  BY <1>1, <1>2 DEF Init, Kept

\* The four steps of a reconcile.
LEMMA KeptReconcile ==
  ASSUME Kept, box \in BOOLEAN, Reconcile
  PROVE  /\ Kept' /\ overlap' = overlap
         /\ reconcile'.pc = "reply" =>
              running' = running /\ (reconcile'.value <=> box)
<1>0. overlap' = overlap
  BY DEF Reconcile
<1>1. CASE ReconcileAvail
  <2>1. reconcile' \in Answer /\ reconcile'.pc # "reply"
    <3>1. reconcile' \in {NoReconcile, [reconcile EXCEPT !.pc = "status"]}
      BY <1>1 DEF ReconcileAvail
    <3>2. [reconcile EXCEPT !.pc = "status"] \in Answer /\ [reconcile EXCEPT !.pc = "status"].pc = "status"
      BY DEF Kept, Answer
    <3> QED
      BY <3>1, <3>2, NoReconcileType
  <2>2. /\ running' \in {running, FALSE} /\ authoritative' \in {authoritative, TRUE}
        /\ failures' = failures
    BY <1>1 DEF ReconcileAvail
  <2> QED
    BY <1>0, <2>1, <2>2 DEF Kept
<1>2. CASE ReconcileServed
  <2>1. /\ reconcile' = [reconcile EXCEPT !.pc = "reply", !.value = box]
        /\ UNCHANGED <<running, authoritative, failures>>
    BY <1>2 DEF ReconcileServed, health
  <2>2. reconcile' \in Answer /\ reconcile'.value = box
    BY <2>1 DEF Kept, Answer
  <2> QED
    BY <1>0, <2>1, <2>2 DEF Kept
<1>3. CASE ReconcileReply
  <2>1. /\ reconcile' = NoReconcile /\ running' = reconcile.value /\ failures' = 0
        /\ authoritative' = authoritative
    BY <1>3 DEF ReconcileReply
  <2>2. running' \in BOOLEAN /\ 0 \in 0..(HELPER_FAILURE_THRESHOLD - 1)
    BY <2>1, CapacityIsPositive DEF Kept, Answer
  <2> QED
    BY <1>0, <2>1, <2>2, NoReconcileType DEF Kept
<1>4. CASE ReconcileFails
  <2>1. CASE reconcile.try < Retries
    <3>1. reconcile' = [reconcile EXCEPT !.try = @ + 1] /\ UNCHANGED <<running, authoritative, failures>>
      BY <1>4, <2>1 DEF ReconcileFails, health
    <3>2. reconcile.pc = "status"
      BY <1>4 DEF ReconcileFails
    <3>3. reconcile' \in Answer /\ reconcile'.pc = "status"
      BY <2>1, <3>1, <3>2, CapacityIsPositive DEF Kept, Answer
    <3> QED
      BY <1>0, <3>1, <3>3 DEF Kept
  <2>2. CASE ~(reconcile.try < Retries)
    <3>1. reconcile' = NoReconcile
      BY <1>4, <2>2 DEF ReconcileFails
    <3>2. \/ /\ failures + 1 < HELPER_FAILURE_THRESHOLD /\ failures' = failures + 1
             /\ UNCHANGED <<running, authoritative>>
          \/ failures' = 0 /\ running' = FALSE /\ authoritative' = FALSE
      BY <1>4, <2>2 DEF ReconcileFails
    <3>3. failures' \in 0..(HELPER_FAILURE_THRESHOLD - 1)
      BY <3>2, CapacityIsPositive DEF Kept
    <3>4. running' \in BOOLEAN /\ authoritative' \in BOOLEAN
      BY <3>2 DEF Kept
    <3> QED
      BY <1>0, <3>1, <3>3, <3>4, NoReconcileType DEF Kept
  <2> QED
    BY <2>1, <2>2
<1> QED
  BY <1>1, <1>2, <1>3, <1>4 DEF Reconcile

LEMMA KeptStep ==
  ASSUME Kept, box \in BOOLEAN, [Next]_vars
  PROVE  Kept'
<1>k. ASSUME UNCHANGED manager PROVE Kept'
  BY <1>k DEF Kept, manager, health
<1>f. ASSUME NEW pc \in {"avail", "status"}, ReconcileFrom(pc), UNCHANGED <<running, health>>
      PROVE Kept'
  BY <1>f, ReconcileFromKeeps DEF Kept, health
<1>1. ASSUME NEW s \in Socket, Receive(s) PROVE Kept'
  <2> DEFINE m == Head(sock[s].inbox)
  <2>1. UNCHANGED health
    BY <1>1 DEF Receive
  <2>2. CASE OnConnect
    BY <2>1, <2>2, <1>f, EntryIsOne DEF OnConnect
  <2>3. CASE OnEvent(m)
    <3>1. /\ running' = (m = "started") /\ overlap' = (overlap \/ Asking)
          /\ reconcile' = reconcile /\ authoritative' = authoritative /\ failures' = failures
      BY <2>1, <2>3 DEF OnEvent, health
    <3>2. running' \in BOOLEAN /\ overlap' \in BOOLEAN
      BY <3>1
    <3> QED
      BY <3>1, <3>2 DEF Kept
  <2>4. CASE UNCHANGED <<running, reconcile, overlap>>
    BY <2>1, <2>4, <1>k DEF manager
  <2> QED
    BY <1>1, <2>2, <2>3, <2>4 DEF Receive
<1>2. ASSUME NEW s \in Socket, SocketConnects(s) \/ HelperSubscribes(s) PROVE Kept'
  BY <1>2, <1>k DEF SocketConnects, HelperSubscribes
<1>3. CASE Reconcile
  BY <1>3, KeptReconcile
<1>4. CASE StartStep
  <2>1. CASE UNCHANGED manager
    BY <2>1, <1>k
  <2>2. CASE StartServed \/ StartAsked
    <3>1. UNCHANGED <<running, health, reconcile>>
      BY <1>4, <2>1, <2>2 DEF StartStep, StartVerified, manager, StartServed, StartAsked
    <3>2. overlap' \in BOOLEAN
      BY <2>2 DEF StartServed, StartAsked, Kept
    <3> QED
      BY <3>1, <3>2 DEF Kept, health
  <2>3. CASE StartVerified
    <3>1. /\ running' \in {running, TRUE} /\ authoritative' \in {authoritative, TRUE}
          /\ UNCHANGED <<failures, reconcile, overlap>>
      BY <2>3 DEF StartVerified
    <3> QED
      BY <3>1 DEF Kept
  <2> QED
    BY <1>4, <2>1, <2>2, <2>3 DEF StartStep
<1>5. CASE Poll
  BY <1>5, <1>f, EntryIsOne DEF Poll
<1>6. CASE QuitWork
  <2>1. /\ overlap' = (overlap \/ Asking) /\ UNCHANGED <<health, reconcile>>
        /\ running' \in {running, FALSE}
    BY <1>6 DEF QuitWork, QuitUploaded, QuitStops, QuitDone, QuitTimeout
  <2>2. overlap' \in BOOLEAN
    BY <2>1
  <2> QED
    BY <2>1, <2>2 DEF Kept, health
<1>7. CASE \/ Reconnect \/ Start \/ SettingsInstall \/ Uninstall \/ BoxDies \/ HelperDies
           \/ HelperRestarts \/ Quit \/ Signal \/ KillTimer \/ WatchdogStops
  BY <1>7, <1>k DEF Reconnect, Start, SettingsInstall, Uninstall, BoxDies, HelperDies, HelperRestarts,
       Quit, Signal, KillTimer, WatchdogStops
<1>8. CASE UNCHANGED vars
  BY <1>8, <1>k DEF vars
<1> QED
  BY <1>1, <1>2, <1>3, <1>4, <1>5, <1>6, <1>7, <1>8 DEF Next

-----------------------------------------------------------------------------
(* Where the truth is.                                                     *)

Told == EventsTell /\ AnswersTell

\* One socket has something of a connection in it.
LEMMA OneIsNotGone ==
  ASSUME Channel, NEW s \in Socket, NEW r \in Socket, r # s, ~Gone(sock[s])
  PROVE  sock[r] = Free /\ ~sock[r].fed
<1>1. socket = s
  BY DEF Channel, Alone, Gone
<1>2. sock[r] = Free
  BY <1>1 DEF Channel, Alone
<1> QED
  BY <1>2 DEF Free

\* A question and a check of a start under way at once are an overlap.
Overlaps == reconcile.pc # "idle" /\ start.pc = "verified" => overlap

LEMMA OverlapsStay ==
  ASSUME Overlaps, UNCHANGED reconcile, overlap => overlap',
         start'.pc = "verified" => start' = start
  PROVE  Overlaps'
BY DEF Overlaps

\* No socket is fed: there is nothing to be told.
LEMMA TellNothing ==
  ASSUME \A s \in Socket : ~sock'[s].fed, Overlaps'
  PROVE  Told'
BY DEF Told, EventsTell, AnswersTell, Overlaps

\* The events stay as they are, and so does what they are about.
LEMMA TellSameEvents ==
  ASSUME EventsTell, box' = box, Runs => Runs', \A s \in Socket : sock'[s].fed => sock'[s] = sock[s]
  PROVE  EventsTell'
<1> SUFFICES ASSUME NEW s \in Socket, sock'[s].fed
             PROVE  /\ Runs'
                    /\ \A i \in 1..Len(sock'[s].inbox) : sock'[s].inbox[i] \in {"ack", "started", "exited"}
                    /\ sock'[s].inbox # <<>> /\ LastOf(sock'[s].inbox) # "ack" =>
                         (LastOf(sock'[s].inbox) = "started" <=> box')
  BY DEF EventsTell
<1>1. sock'[s] = sock[s] /\ sock[s].fed
  OBVIOUS
<1> QED
  BY <1>1 DEF EventsTell

LEMMA TellSame ==
  ASSUME Told, box' = box, Runs => Runs', hidden => hidden',
         \A s \in Socket : sock'[s].fed => sock'[s] = sock[s],
         UNCHANGED <<running, reconcile>>, overlap => overlap',
         start'.pc = "verified" => start' = start, Alive' => Alive
  PROVE  Told'
<1>1. EventsTell'
  BY TellSameEvents DEF Told
<1>2. Overlaps'
  BY OverlapsStay DEF Told, AnswersTell, Overlaps
<1>3. AnswersTell'
  <2> SUFFICES ASSUME Alive', ~overlap', ~hidden', NEW s \in Socket, sock'[s].fed,
                      sock'[s].inbox = <<>>
               PROVE  /\ reconcile'.pc = "idle" => (running' <=> box')
                      /\ reconcile'.pc = "reply" => (reconcile'.value <=> box')
                      /\ start'.pc = "verified" => (start'.value <=> box')
    BY <1>2 DEF AnswersTell, Overlaps
  <2>1. Alive /\ ~overlap /\ ~hidden /\ sock[s].fed /\ sock[s].inbox = <<>>
    OBVIOUS
  <2>2. /\ reconcile.pc = "idle" => (running <=> box)
        /\ reconcile.pc = "reply" => (reconcile.value <=> box)
        /\ start.pc = "verified" => (start.value <=> box)
    BY <2>1 DEF Told, AnswersTell
  <2> QED
    BY <2>2
<1> QED
  BY <1>1, <1>3 DEF Told

\* An event for every socket that is fed, true of sing-box as it is now.
LEMMA TellPushed ==
  ASSUME Told, Channel, NEW event \in {"started", "exited"}, Push(event),
         UNCHANGED <<subscription, socket, timers, over>>,
         box' = (event = "started"), Runs => Runs', Overlaps'
  PROVE  Told'
<1>1. ASSUME NEW s \in Socket, sock'[s].fed
      PROVE  /\ Runs'
             /\ \A i \in 1..Len(sock'[s].inbox) : sock'[s].inbox[i] \in {"ack", "started", "exited"}
             /\ sock'[s].inbox # <<>> /\ LastOf(sock'[s].inbox) = event
  <2>1. sock[s].fed /\ sock'[s].inbox = Append(sock[s].inbox, event)
    BY <1>1, PushKeeps
  <2> DEFINE q == sock[s].inbox
  <2>2. q \in Seq(Message)
    BY DEF Channel, Shapes, Record
  <2>3. Runs /\ \A i \in 1..Len(q) : q[i] \in {"ack", "started", "exited"}
    BY <2>1 DEF Told, EventsTell
  <2> HIDE DEF q
  <2>4. /\ Len(q) \in Nat /\ Len(Append(q, event)) = Len(q) + 1
        /\ Append(q, event)[Len(q) + 1] = event
        /\ \A i \in 1..Len(q) : Append(q, event)[i] = q[i]
    BY <2>2 DEF Message
  <2>5. ASSUME NEW i \in 1..(Len(q) + 1)
        PROVE  Append(q, event)[i] \in {"ack", "started", "exited"}
    <3>1. i \in 1..Len(q) \/ i = Len(q) + 1
      BY <2>4
    <3> QED
      BY <2>3, <2>4, <3>1
  <2>6. Append(q, event) # <<>> /\ LastOf(Append(q, event)) = event
    BY <2>2, <2>4 DEF LastOf
  <2>7. sock'[s].inbox = Append(q, event)
    BY <2>1 DEF q
  <2> QED
    BY <2>3, <2>4, <2>5, <2>6, <2>7
<1>2. EventsTell'
  BY <1>1 DEF EventsTell
<1>3. AnswersTell'
  BY <1>1 DEF AnswersTell, Overlaps
<1> QED
  BY <1>2, <1>3 DEF Told

LEMMA HeadAndTail ==
  ASSUME NEW q \in Seq(Message), q # <<>>
  PROVE  /\ Len(q) \in Nat \ {0} /\ Head(q) = q[1]
         /\ Len(Tail(q)) = Len(q) - 1 /\ \A i \in 1..(Len(q) - 1) : Tail(q)[i] = q[i + 1]
         /\ Tail(q) # <<>> => Len(q) > 1
         /\ Tail(q) = <<>> => Len(q) = 1
<1>1. Len(q) \in Nat \ {0} /\ Head(q) = q[1] /\ Tail(q) \in Seq(Message) /\ Len(Tail(q)) = Len(q) - 1
  OBVIOUS
<1>2. \A i \in 1..(Len(q) - 1) : Tail(q)[i] = q[i + 1]
  OBVIOUS
<1>3. Tail(q) = <<>> => Len(q) = 1
  <2>1. Len(<<>>) = 0
    OBVIOUS
  <2>2. Tail(q) = <<>> => Len(Tail(q)) = Len(<<>>)
    OBVIOUS
  <2> QED
    BY <1>1, <2>1, <2>2
<1>4. Tail(q) # <<>> => Len(q) > 1
  <2>1. Tail(q) # <<>> => Len(Tail(q)) # 0
    BY <1>1
  <2> QED
    BY <1>1, <2>1
<1> QED
  BY <1>1, <1>2, <1>3, <1>4

\* The next message of the subscription.
LEMMA TellReceived ==
  ASSUME Told, Channel, Kept, NEW s \in Socket, Receive(s)
  PROVE  Told'
<1> DEFINE q == sock[s].inbox
           m == Head(q)
<1>1. /\ \A r \in Socket : r # s => sock'[r] = sock[r]
      /\ sock'[s].fed => sock[s].fed /\ sock'[s].inbox = Tail(q)
  BY ReceiveKeeps
<1>2. /\ UNCHANGED <<box, helper, hidden, start, over>>
      /\ Alive /\ q # <<>>
      /\ IF m = "ack" THEN OnConnect
         ELSE IF m \in {"started", "exited"} THEN OnEvent(m)
         ELSE UNCHANGED <<running, reconcile, overlap>>
  BY DEF Receive, machine, launchd, quitting
<1>3. /\ q \in Seq(Message)
      /\ Len(q) \in Nat \ {0} /\ m = q[1]
      /\ Len(Tail(q)) = Len(q) - 1 /\ \A i \in 1..(Len(q) - 1) : Tail(q)[i] = q[i + 1]
      /\ Tail(q) # <<>> => Len(q) > 1
      /\ Tail(q) = <<>> => Len(q) = 1
  <2>1. q \in Seq(Message)
    BY DEF Channel, Shapes, Record
  <2>2. q # <<>>
    BY <1>2
  <2> HIDE DEF q
  <2> QED
    BY <2>1, <2>2, HeadAndTail
<1>4. sock[s].fed => /\ Runs /\ \A i \in 1..Len(q) : q[i] \in {"ack", "started", "exited"}
                     /\ LastOf(q) # "ack" => (LastOf(q) = "started" <=> box)
  BY <1>2 DEF Told, EventsTell
<1>5. EventsTell'
  <2> SUFFICES ASSUME NEW r \in Socket, sock'[r].fed
               PROVE  /\ Runs'
                      /\ \A i \in 1..Len(sock'[r].inbox) : sock'[r].inbox[i] \in {"ack", "started", "exited"}
                      /\ sock'[r].inbox # <<>> /\ LastOf(sock'[r].inbox) # "ack" =>
                           (LastOf(sock'[r].inbox) = "started" <=> box')
    BY DEF EventsTell
  <2>1. CASE r # s
    BY <1>1, <1>2, <2>1 DEF Told, EventsTell, Runs
  <2>2. CASE r = s
    <3>1. sock[s].fed /\ sock'[r].inbox = Tail(q)
      BY <1>1, <2>2
    <3> HIDE DEF q
    <3>2. Runs'
      BY <1>2, <1>4, <3>1 DEF Runs
    <3>3. ASSUME NEW i \in 1..Len(Tail(q)) PROVE Tail(q)[i] \in {"ack", "started", "exited"}
      <4>1. i \in 1..(Len(q) - 1) /\ i + 1 \in 1..Len(q)
        BY <1>3
      <4> QED
        BY <1>3, <1>4, <3>1, <4>1
    <3>4. ASSUME Tail(q) # <<>> PROVE LastOf(Tail(q)) = LastOf(q)
      <4>1. Len(q) - 1 \in 1..(Len(q) - 1) /\ (Len(q) - 1) + 1 = Len(q)
        BY <1>3, <3>4
      <4>2. Tail(q)[Len(q) - 1] = q[Len(q)]
        BY <1>3, <4>1
      <4> QED
        BY <1>3, <4>2 DEF LastOf
    <3> QED
      BY <1>2, <1>4, <3>1, <3>2, <3>3, <3>4
  <2> QED
    BY <2>1, <2>2
<1>6. ASSUME m # "close" PROVE ~Gone(sock[s])
  <2>1. sock[s] # Free
    BY <1>2 DEF Free
  <2>2. q # <<"close">>
    BY <1>3, <1>6
  <2> QED
    BY <2>1, <2>2 DEF Gone
<1>7. CASE m = "ack"
  <2>1. OnConnect
    BY <1>2, <1>7
  <2>2. /\ \/ reconcile.pc # "idle" /\ reconcile' = reconcile /\ overlap'
           \/ /\ reconcile.pc = "idle" /\ reconcile'.pc \in {"avail", "status"}
              /\ (overlap' <=> start.pc = "verified")
    BY <2>1, ReconcileFromKeeps, EntryIsOne DEF OnConnect, Kept
  <2>3. AnswersTell'
    BY <1>2, <2>2 DEF AnswersTell
  <2> QED
    BY <1>5, <2>3 DEF Told
<1>8. CASE m \in {"started", "exited"}
  <2>1. running' = (m = "started") /\ overlap' = (overlap \/ Asking) /\ reconcile' = reconcile
    BY <1>2, <1>8 DEF OnEvent
  <2>2. Overlaps'
    BY <1>2, <2>1, OverlapsStay DEF Told, AnswersTell, Overlaps
  <2>3. ASSUME ~overlap', NEW r \in Socket, sock'[r].fed, sock'[r].inbox = <<>>
        PROVE  reconcile.pc = "idle" /\ start.pc # "verified" /\ (m = "started" <=> box)
    <3>1. reconcile.pc = "idle" /\ start.pc # "verified"
      BY <2>1, <2>3 DEF Asking
    <3>2. r = s
      <4>1. ASSUME r # s PROVE FALSE
        <5>1. ~sock[r].fed
          BY <1>6, <1>8, <4>1, OneIsNotGone
        <5> QED
          BY <1>1, <2>3, <4>1, <5>1
      <4> QED
        BY <4>1
    <3>3. sock[s].fed /\ Tail(q) = <<>>
      BY <1>1, <2>3, <3>2
    <3>4. LastOf(q) = m
      BY <1>3, <3>3 DEF LastOf
    <3> QED
      BY <1>4, <1>8, <3>1, <3>3, <3>4
  <2>4. AnswersTell'
    BY <1>2, <2>1, <2>2, <2>3 DEF AnswersTell, Overlaps
  <2> QED
    BY <1>5, <2>4 DEF Told
<1>9. CASE m \notin {"ack", "started", "exited"}
  <2>1. UNCHANGED <<running, reconcile, overlap>>
    BY <1>2, <1>9
  <2>2. ~sock[s].fed
    BY <1>3, <1>4, <1>9
  <2>3. \A r \in Socket : sock'[r].fed => sock'[r] = sock[r]
    BY <1>1, <2>2
  <2> HIDE DEF m, q
  <2> QED
    BY <1>2, <2>1, <2>3, TellSame DEF Runs, Alive
<1> QED
  BY <1>7, <1>8, <1>9

\* The helper's acknowledgement.
LEMMA TellAcknowledged ==
  ASSUME Told, Channel, NEW s \in Socket, HelperSubscribes(s)
  PROVE  Told'
<1>1. /\ Runs /\ sock'[s].inbox = <<"ack">> /\ \A r \in Socket : r # s => sock'[r] = sock[r]
      /\ UNCHANGED <<box, helper, hidden, running, reconcile, overlap, start, over>>
  BY SubscribesKeeps DEF HelperSubscribes, machine, launchd, manager, quitting
<1>2. EventsTell'
  <2> SUFFICES ASSUME NEW r \in Socket, sock'[r].fed
               PROVE  /\ Runs'
                      /\ \A i \in 1..Len(sock'[r].inbox) : sock'[r].inbox[i] \in {"ack", "started", "exited"}
                      /\ sock'[r].inbox # <<>> /\ LastOf(sock'[r].inbox) # "ack" =>
                           (LastOf(sock'[r].inbox) = "started" <=> box')
    BY DEF EventsTell
  <2>1. CASE r # s
    BY <1>1, <2>1 DEF Told, EventsTell, Runs
  <2>2. CASE r = s
    <3>1. Len(sock'[r].inbox) = 1 /\ sock'[r].inbox[1] = "ack"
      BY <1>1, <2>2
    <3> QED
      BY <1>1, <3>1 DEF LastOf, Runs
  <2> QED
    BY <2>1, <2>2
<1>3. AnswersTell'
  <2>1. sock'[s].inbox # <<>>
    BY <1>1
  <2> QED
    BY <1>1, <2>1 DEF Told, AnswersTell, Alive
<1> QED
  BY <1>2, <1>3 DEF Told

\* A script of the installer: without the bootout the daemon runs on.
LEMMA TellScript ==
  ASSUME Told, Channel, NEW gone \in BOOLEAN, NEW loads \in BOOLEAN, Bootout(gone),
         Bootstrap(gone, loads), UNCHANGED <<manager, over>>, Overlaps',
         start'.pc = "verified" => start' = start
  PROVE  Told'
<1>1. CASE gone
  <2>1. \A s \in Socket : ~sock'[s].fed
    BY <1>1, BootoutKeeps
  <2> QED
    BY <2>1, TellNothing
<1>2. CASE ~gone
  <2>1. UNCHANGED <<box, channel>>
    BY <1>2, BootoutKeeps
  <2>2. helper' = helper /\ (hidden => hidden')
    BY <1>2 DEF Bootstrap
  <2> QED
    BY <2>1, <2>2, TellSame DEF channel, manager, Runs, Alive
<1> QED
  BY <1>1, <1>2

LEMMA TellPoll ==
  ASSUME Told, Channel, Kept, Poll
  PROVE  Told'
<1>1. /\ UNCHANGED <<machine, channel, start, over>>
      /\ reconcile'.pc \in {"avail", "status"} /\ (overlap' <=> start.pc = "verified")
  BY ReconcileFromKeeps, EntryIsOne DEF Poll, Kept, quitting
<1>2. EventsTell'
  BY <1>1, TellSameEvents DEF Told, machine, launchd, channel, Runs
<1>3. AnswersTell'
  BY <1>1 DEF AnswersTell
<1> QED
  BY <1>2, <1>3 DEF Told

\* The answer of the helper is the truth when given, and an event that comes
\* before it is read is an overlap.
LEMMA TellReconciled ==
  ASSUME Told, Channel, Kept, box \in BOOLEAN, Reconcile
  PROVE  Told'
<1>1. /\ UNCHANGED <<machine, overlap, start, over>> /\ Alive
      /\ reconcile.pc # "idle"
  BY DEF Reconcile, quitting, ReconcileAvail, ReconcileServed, ReconcileReply, ReconcileFails
<1>2. \A s \in Socket : sock'[s].fed => sock'[s] = sock[s]
  BY ChannelReconcile
<1>3. EventsTell'
  BY <1>1, <1>2, TellSameEvents DEF Told, machine, launchd, Runs
<1>4. start.pc = "verified" => overlap
  BY <1>1 DEF Told, AnswersTell
<1>5. AnswersTell'
  <2> SUFFICES ASSUME Alive', ~overlap', ~hidden', NEW s \in Socket, sock'[s].fed,
                      sock'[s].inbox = <<>>
               PROVE  /\ reconcile'.pc = "idle" => (running' <=> box')
                      /\ reconcile'.pc = "reply" => (reconcile'.value <=> box')
    BY <1>1, <1>4 DEF AnswersTell
  <2>1. sock[s].fed /\ sock[s].inbox = <<>> /\ ~overlap /\ ~hidden /\ Up /\ box' = box
    BY <1>1, <1>2 DEF Told, EventsTell, machine, launchd, Up
  <2>2. reconcile.pc = "reply" => (reconcile.value <=> box)
    BY <1>1, <2>1 DEF Told, AnswersTell
  <2>3. reconcile'.pc = "reply" => (reconcile'.value <=> box)
    BY KeptReconcile
  <2>4. reconcile'.pc = "idle" => (running' <=> box)
    <3>1. CASE ReconcileAvail
      <4>1. reconcile' = [reconcile EXCEPT !.pc = "status"]
        BY <2>1, <3>1 DEF ReconcileAvail
      <4>2. reconcile'.pc = "status"
        BY <4>1 DEF Kept, Answer
      <4> QED
        BY <4>2
    <3>2. CASE ReconcileServed
      <4>1. reconcile' = [reconcile EXCEPT !.pc = "reply", !.value = box]
        BY <3>2 DEF ReconcileServed
      <4>2. reconcile'.pc = "reply"
        BY <4>1 DEF Kept, Answer
      <4> QED
        BY <4>2
    <3>3. CASE ReconcileReply
      <4>1. reconcile.pc = "reply" /\ running' = reconcile.value
        BY <3>3 DEF ReconcileReply
      <4> QED
        BY <2>2, <4>1
    <3>4. CASE ReconcileFails
      BY <2>1, <3>4 DEF ReconcileFails
    <3> QED
      BY <3>1, <3>2, <3>3, <3>4 DEF Reconcile
  <2> QED
    BY <2>1, <2>3, <2>4
<1> QED
  BY <1>3, <1>5 DEF Told

\* A start: what it checks is so at that moment.
LEMMA TellStartStep ==
  ASSUME Told, Channel, Installer, Kept, StartStep
  PROVE  Told'
<1>0. start \in StartRecord /\ Alive /\ UNCHANGED over
  BY DEF Installer, StartStep, quitting
<1>e. /\ Idle.pc = "idle"
      /\ \A p \in Pcs : To(p) => start'.pc = p
      /\ Fails => start'.pc \in {"idle", "install"}
      /\ Again => start'.pc \in {"idle", start.pc}
      /\ start.try < Retries /\ start' = [start EXCEPT !.try = @ + 1] => start'.pc = start.pc
  BY <1>0, StartEdits
<1>s. ASSUME UNCHANGED <<box, helper, hidden, channel, running, reconcile>>, overlap => overlap',
             start'.pc # "verified"
      PROVE  Told'
  BY <1>0, <1>s, TellSame DEF channel, Runs, Alive
<1>h. ASSUME NEW gone \in BOOLEAN, NEW loads \in BOOLEAN, Bootout(gone), Bootstrap(gone, loads),
             start'.pc # "verified", UNCHANGED manager
      PROVE  Told'
  <2>1. Overlaps'
    BY <1>h DEF Overlaps
  <2> QED
    BY <1>0, <1>h, <2>1, TellScript
<1>1. ASSUME EnsureReady \/ ensureUpToDate \/ Wait \/ ReloadWait, UNCHANGED manager
      PROVE  Told'
  <2>1. UNCHANGED <<machine, channel>>
    BY <1>1 DEF EnsureReady, ensureUpToDate, Wait, ReloadWait
  <2>2. start'.pc # "verified"
    BY <1>1, <1>e DEF EnsureReady, ensureUpToDate, Wait, ReloadWait, Pcs
  <2> QED
    BY <1>1, <2>1, <2>2, <1>s DEF machine, launchd, manager
<1>2. ASSUME Reload \/ Install, UNCHANGED manager
      PROVE  Told'
  <2>1. start'.pc # "verified"
    <3>1. \A told \in BOOLEAN :
            [Idle EXCEPT !.pc = IF told THEN "reloaded" ELSE "install", !.reload = told].pc # "verified"
      BY StartEdits, <1>0 DEF StartRecord
    <3> QED
      BY <1>2, <1>e, <3>1 DEF Reload, Install, Pcs
  <2>2. CASE UNCHANGED <<machine, channel>>
    BY <1>2, <2>1, <2>2, <1>s DEF machine, launchd, manager
  <2>3. ASSUME NEW gone \in BOOLEAN, NEW loads \in BOOLEAN, Bootout(gone), Bootstrap(gone, loads)
        PROVE  Told'
    BY <1>2, <2>1, <2>3, <1>h
  <2> QED
    BY <1>2, <2>2, <2>3 DEF Reload, Install, Reloaded, Installed
<1>3. ASSUME StartServed, UNCHANGED <<running, health, reconcile>>
      PROVE  Told'
  <2>1. /\ UNCHANGED <<helper, hidden, overlap, subscription, socket, timers>>
        /\ start.pc = "start"
    BY <1>3 DEF StartServed, launchd
  <2>2. start'.pc # "verified"
    BY <1>3, <1>e, <2>1 DEF StartServed, Pcs
  <2>3. CASE Up
    <3>1. box' = TRUE /\ Push("started")
      BY <1>3, <2>3 DEF StartServed
    <3>2. Overlaps'
      BY <2>2 DEF Overlaps
    <3> QED
      BY <1>0, <2>1, <3>1, <3>2, TellPushed DEF Runs
  <2>4. CASE ~Up
    BY <1>3, <2>1, <2>2, <2>4, <1>s DEF StartServed, channel
  <2> QED
    BY <2>3, <2>4
<1>4. ASSUME StartAsked, UNCHANGED <<running, health, reconcile>>
      PROVE  Told'
  <2>1. /\ UNCHANGED <<machine, channel>> /\ start.pc = "verify"
        /\ overlap' = (overlap \/ reconcile.pc # "idle")
    BY <1>4 DEF StartAsked
  <2>2. CASE ~Up
    <3>1. start'.pc # "verified"
      BY <1>4, <1>e, <2>1, <2>2 DEF StartAsked
    <3> QED
      BY <1>4, <2>1, <3>1, <1>s DEF machine, launchd
  <2>3. CASE Up
    <3>1. start' = [Idle EXCEPT !.pc = "verified", !.value = box]
      BY <1>4, <2>3 DEF StartAsked
    <3>2. start'.value = box
      BY <1>0, <3>1, StartEdits DEF StartRecord
    <3>3. EventsTell'
      BY <2>1, TellSameEvents DEF Told, machine, launchd, channel, Runs
    <3>4. Overlaps'
      BY <1>4, <2>1 DEF Overlaps
    <3>5. AnswersTell'
      <4> SUFFICES ASSUME ~overlap', ~hidden', NEW s \in Socket, sock'[s].fed,
                          sock'[s].inbox = <<>>
                   PROVE  /\ reconcile'.pc = "idle" /\ (running' <=> box')
                          /\ (start'.value <=> box')
        BY <3>4 DEF AnswersTell, Overlaps
      <4>1. /\ reconcile.pc = "idle" /\ ~overlap /\ ~hidden /\ sock[s].fed
            /\ sock[s].inbox = <<>> /\ box' = box
        BY <2>1 DEF machine, launchd, channel
      <4>2. running <=> box
        BY <1>0, <4>1 DEF Told, AnswersTell
      <4> QED
        BY <1>4, <3>2, <4>1, <4>2
    <3> QED
      BY <3>3, <3>5 DEF Told
  <2> QED
    BY <2>2, <2>3
<1>5. CASE StartVerified
  <2>1. /\ start.pc = "verified" /\ start' = Idle /\ UNCHANGED <<machine, reconcile, overlap>>
        /\ (start.value /\ running' = TRUE) \/ (~start.value /\ running' = running)
        /\ ensureHelperSubscription \/ UNCHANGED channel
    BY <1>5 DEF StartVerified
  <2>2. \A s \in Socket : sock'[s].fed => sock'[s] = sock[s]
    <3>1. CASE ensureHelperSubscription
      BY <1>0, <3>1, SubscriptionKeeps
    <3>2. CASE UNCHANGED channel
      BY <3>2 DEF channel
    <3> QED
      BY <2>1, <3>1, <3>2
  <2>3. EventsTell'
    BY <2>1, <2>2, TellSameEvents DEF Told, machine, launchd, Runs
  <2>4. AnswersTell'
    <3>1. start'.pc # "verified"
      BY <1>e, <2>1
    <3> SUFFICES ASSUME ~overlap', ~hidden', NEW s \in Socket, sock'[s].fed,
                        sock'[s].inbox = <<>>
                 PROVE  reconcile'.pc = "idle" /\ (running' <=> box')
      BY <3>1 DEF AnswersTell
    <3>2. ~overlap /\ ~hidden /\ sock[s].fed /\ sock[s].inbox = <<>> /\ box' = box
      BY <2>1, <2>2 DEF machine, launchd
    <3>3. reconcile.pc = "idle"
      BY <2>1, <3>2 DEF Told, AnswersTell
    <3>4. (running <=> box) /\ (start.value <=> box)
      BY <1>0, <2>1, <3>2, <3>3 DEF Told, AnswersTell
    <3> QED
      BY <2>1, <3>2, <3>3, <3>4
  <2> QED
    BY <2>3, <2>4 DEF Told
<1> QED
  BY <1>1, <1>2, <1>3, <1>4, <1>5 DEF StartStep

LEMMA TellQuitWork ==
  ASSUME Told, Channel, QuitWork
  PROVE  Told'
<1>1. UNCHANGED <<reconcile, start, over>> /\ (overlap => overlap')
  BY DEF QuitWork
<1>2. Overlaps'
  BY <1>1, OverlapsStay DEF Told, AnswersTell, Overlaps
<1>3. CASE QuitUploaded
  <2>1. \A s \in Socket : ~sock'[s].fed
    BY <1>3 DEF QuitUploaded, Close, Free
  <2> QED
    BY <1>2, <2>1, TellNothing
<1>4. CASE QuitStops
  <2>0. UNCHANGED <<helper, hidden, subscription, socket, timers>>
    BY <1>4 DEF QuitStops, launchd
  <2>1. CASE Up
    <3>1. box' = FALSE /\ Push("exited")
      BY <1>4, <2>1 DEF QuitStops
    <3> QED
      BY <1>1, <1>2, <2>0, <3>1, TellPushed DEF Runs
  <2>2. CASE ~Up
    <3>1. UNCHANGED <<box, sock>>
      BY <1>4, <2>2 DEF QuitStops
    <3>2. CASE ~Runs
      <4>1. \A s \in Socket : ~sock[s].fed
        BY <3>2 DEF Told, EventsTell
      <4> QED
        BY <1>2, <3>1, <4>1, TellNothing
    <3>3. CASE hidden
      <4>1. EventsTell'
        BY <2>0, <3>1, TellSameEvents DEF Told, Runs
      <4> QED
        BY <1>2, <2>0, <3>3, <4>1 DEF Told, AnswersTell, Overlaps
    <3> QED
      BY <2>2, <3>2, <3>3 DEF Up
  <2> QED
    BY <2>1, <2>2
<1>5. CASE QuitDone \/ QuitTimeout
  <2>1. UNCHANGED <<machine, channel, running>>
    BY <1>5 DEF QuitDone, QuitTimeout
  <2> QED
    BY <1>1, <2>1, TellSame DEF machine, launchd, channel, Runs, Alive
<1> QED
  BY <1>3, <1>4, <1>5 DEF QuitWork

LEMMA TellStep ==
  ASSUME Stalls = FALSE, Told, Channel, Installer, Kept, [Next]_vars
  PROVE  Told'
<1>0. Overlaps
  BY DEF Told, AnswersTell, Overlaps
<1>n. ASSUME \A s \in Socket : ~sock'[s].fed, UNCHANGED <<reconcile, start, overlap>> PROVE Told'
  BY <1>0, <1>n, OverlapsStay, TellNothing
<1>s. ASSUME UNCHANGED <<machine, channel, manager, start>>, Alive' => Alive PROVE Told'
  BY <1>s, TellSame DEF machine, launchd, channel, manager, Runs
<1>1. ASSUME NEW s \in Socket, SocketConnects(s) PROVE Told'
  <2>1. \A r \in Socket : sock'[r].fed => sock'[r] = sock[r]
    BY <1>1, ConnectsKeeps
  <2>2. UNCHANGED <<machine, manager, start, over>>
    BY <1>1 DEF SocketConnects, quitting
  <2> QED
    BY <2>1, <2>2, TellSame DEF machine, launchd, manager, Runs, Alive
<1>2. ASSUME NEW s \in Socket, HelperSubscribes(s) \/ Receive(s) PROVE Told'
  BY <1>2, TellAcknowledged, TellReceived
<1>3. CASE Reconnect
  <2>1. \A s \in Socket : ~sock'[s].fed
    BY <1>3, ReconnectKeeps
  <2> QED
    BY <1>3, <1>n, <2>1 DEF Reconnect, manager
<1>4. CASE Poll \/ Reconcile
  BY <1>4, TellPoll, TellReconciled DEF Installer, Machine
<1>5. CASE StartStep
  BY <1>5, TellStartStep
<1>6. CASE QuitWork
  BY <1>6, TellQuitWork
<1>7. CASE Start
  <2>1. start'.pc = "avail" /\ UNCHANGED <<machine, channel, manager, over>>
    BY <1>7, StartEdits DEF Start, Installer, Pcs, quitting
  <2> QED
    BY <2>1, TellSame DEF machine, launchd, channel, manager, Runs, Alive
<1>8. CASE HelperDies
  <2>1. /\ sock' = [s \in Socket |-> HungUp(sock[s])]
        /\ UNCHANGED <<subscription, socket, timers, over, manager, start>>
    BY <1>8 DEF HelperDies, quitting
  <2>2. \A s \in Socket : ~sock'[s].fed
    BY <2>1, HungUpKeeps
  <2> QED
    BY <2>1, <2>2, <1>n DEF manager
<1>16. CASE SettingsInstall
  <2>1. PICK copied, gone, loads \in BOOLEAN : Installed(copied, gone, loads)
    BY <1>16 DEF SettingsInstall
  <2>2. UNCHANGED <<over, manager, start>>
    BY <1>16 DEF SettingsInstall, quitting
  <2>3. Bootout(gone) /\ Bootstrap(gone, loads)
    BY <2>1 DEF Installed
  <2>4. Overlaps'
    BY <1>0, <2>2, OverlapsStay DEF manager
  <2> QED
    BY <2>2, <2>3, <2>4, TellScript
<1>17. CASE Uninstall
  <2>1. PICK gone \in BOOLEAN : Uninstalled(gone)
    BY <1>17 DEF Uninstall
  <2>2. UNCHANGED <<over, manager, start>>
    BY <1>17 DEF Uninstall, quitting
  <2>3. Bootout(gone)
    BY <2>1 DEF Uninstalled
  <2>4. CASE gone
    <3>1. \A s \in Socket : ~sock'[s].fed
      BY <2>2, <2>3, <2>4, BootoutKeeps
    <3> QED
      BY <2>2, <3>1, <1>n DEF manager
  <2>5. CASE ~gone
    <3>1. UNCHANGED <<box, channel>>
      BY <2>2, <2>3, <2>5, BootoutKeeps
    <3>2. helper' = helper /\ (hidden => hidden')
      BY <2>1, <2>5 DEF Uninstalled, Installer, Machine
    <3> QED
      BY <2>2, <3>1, <3>2, TellSame DEF channel, manager, Runs, Alive
  <2> QED
    BY <2>4, <2>5
<1>9. CASE BoxDies
  <2>1. /\ box' = FALSE /\ Push("exited")
        /\ UNCHANGED <<helper, subscription, socket, timers, over, manager, start>>
    BY <1>9 DEF BoxDies, launchd, quitting
  <2>2. Overlaps'
    BY <1>0, <2>1, OverlapsStay DEF manager
  <2> QED
    BY <2>1, <2>2, TellPushed DEF Runs
<1>10. CASE HelperRestarts
  <2>1. UNCHANGED <<box, hidden, channel, manager, start, over>> /\ Runs'
    BY <1>10 DEF HelperRestarts, quitting, Runs, Installer, Machine
  <2> QED
    BY <2>1, TellSame DEF channel, manager, Alive
<1>11. CASE Quit
  <2>1. UNCHANGED <<machine, manager, start>>
    BY <1>11 DEF Quit
  <2>2. CASE UNCHANGED <<channel, over>>
    BY <2>1, <2>2, <1>s DEF Alive
  <2>3. CASE Exit("asked")
    <3>1. \A s \in Socket : ~sock'[s].fed
      BY <2>3 DEF Exit, Free
    <3> QED
      BY <2>1, <3>1, <1>n DEF manager
  <2> QED
    BY <1>11, <2>2, <2>3 DEF Quit, beforeQuit
<1>12. CASE KillTimer
  BY <1>12, <1>s DEF KillTimer, Alive
<1>13. CASE Signal
  <2>1. \A s \in Socket : ~sock'[s].fed
    BY <1>13 DEF Signal, Exit, Free
  <2> QED
    BY <1>13, <2>1, <1>n DEF Signal, manager
<1>14. CASE WatchdogStops
  <2>1. UNCHANGED <<channel, manager, start>> /\ ~Alive
    BY <1>14 DEF WatchdogStops
  <2>2. \A s \in Socket : ~sock'[s].fed
    BY <2>1 DEF Channel, Alone, Free, channel
  <2> QED
    BY <2>1, <2>2, <1>n DEF manager
<1>15. CASE UNCHANGED vars
  BY <1>15, <1>s DEF vars, quitting, Alive
<1> QED
  BY <1>1, <1>2, <1>3, <1>4, <1>5, <1>6, <1>7, <1>8, <1>9, <1>10, <1>11, <1>12, <1>13, <1>14, <1>15,
     <1>16, <1>17 DEF Next

LEMMA ToldInit == Init => Told
<1> SUFFICES ASSUME Init PROVE Told
  OBVIOUS
<1>1. \A s \in Socket : ~sock[s].fed
  BY DEF Init, Free
<1>2. start.pc # "verified"
  BY StartEdits, InstallerInit DEF Init, Installer
<1> QED
  BY <1>1, <1>2 DEF Told, EventsTell, AnswersTell

-----------------------------------------------------------------------------

IInv == Installer /\ Channel /\ Kept /\ Told

LEMMA Inductive ==
  ASSUME Stalls = FALSE
  PROVE  Spec => []IInv
<1>1. Init => IInv
  BY InstallerInit, ChannelInit, KeptInit, ToldInit DEF IInv
<1>2. IInv /\ [Next]_vars => IInv'
  <2> SUFFICES ASSUME IInv, [Next]_vars PROVE IInv'
    OBVIOUS
  <2>1. box \in BOOLEAN
    BY DEF IInv, Installer, Machine
  <2> QED
    BY <2>1, InstallerStep, ChannelStep, KeptStep, TellStep DEF IInv
<1> QED
  BY <1>1, <1>2, PTL DEF Spec

\* No event is lost for good: when nothing is unread and no question is under
\* way, the manager's status is what the helper has, unless the last answer
\* crossed an event (handleHelperEvent, reconcileStatus), or the helper was
\* uninstalled and runs on.
THEOREM StatusIsTrue ==
  ASSUME Stalls = FALSE
  PROVE  Spec => []ViewIsTrue
<1>1. IInv => ViewIsTrue
  <2> SUFFICES ASSUME IInv, Alive, ~overlap, ~Asking, ~hidden,
                      NEW s \in Socket, sock[s].fed, sock[s].inbox = <<>>
               PROVE  running <=> box
    BY DEF ViewIsTrue
  <2>1. reconcile.pc = "idle"
    BY DEF Asking
  <2> QED
    BY <2>1 DEF IInv, Told, AnswersTell
<1> QED
  BY <1>1, Inductive, PTL

-----------------------------------------------------------------------------
(* The quit flow, and the types of all variables.                          *)

Quitting ==
  /\ quitState \in {"idle", "running", "done"}
  /\ work \in {"none", "upload", "stop", "stopped"}
  /\ engine \in {"off", "runs", "stubborn"}

LEMMA QuittingStep ==
  ASSUME Quitting, [Next]_vars
  PROVE  Quitting'
<1>k. ASSUME UNCHANGED <<quitState, work, engine>> PROVE Quitting'
  BY <1>k DEF Quitting
<1>1. ASSUME NEW s \in Socket, SocketConnects(s) \/ HelperSubscribes(s) \/ Receive(s)
      PROVE  Quitting'
  BY <1>1, <1>k DEF SocketConnects, HelperSubscribes, Receive, quitting
<1>2. CASE \/ Reconnect \/ Poll \/ Reconcile \/ StartStep \/ Start \/ SettingsInstall \/ Uninstall
           \/ BoxDies \/ HelperDies \/ HelperRestarts \/ Signal \/ WatchdogStops
  BY <1>2, <1>k DEF Reconnect, Poll, Reconcile, StartStep, Start, SettingsInstall, Uninstall,
       BoxDies, HelperDies, HelperRestarts, Signal, WatchdogStops, quitting
<1>3. CASE Quit
  BY <1>3 DEF Quitting, Quit, beforeQuit
<1>4. CASE QuitWork
  BY <1>4 DEF Quitting, QuitWork, QuitUploaded, QuitStops, QuitDone, QuitTimeout
<1>5. CASE KillTimer
  BY <1>5 DEF Quitting, KillTimer
<1>6. CASE UNCHANGED vars
  BY <1>6, <1>k DEF vars, quitting
<1> QED
  BY <1>1, <1>2, <1>3, <1>4, <1>5, <1>6 DEF Next

\* Every variable keeps its type, and no more waits in a socket than the
\* helper's event channel and the end of the connection can hold.
THEOREM TypeCorrect ==
  ASSUME Stalls = FALSE
  PROVE  Spec => []TypeOK
<1>1. Init => Quitting
  BY DEF Init, Quitting
<1>2. Quitting /\ [Next]_vars => Quitting'
  BY QuittingStep
<1>3. IInv /\ Quitting => TypeOK
  <2> SUFFICES ASSUME IInv, Quitting PROVE TypeOK
    OBVIOUS
  <2>1. \A s \in Socket :
          /\ sock[s].pc \in {"free", "connecting", "open"} /\ sock[s].fed \in BOOLEAN
          /\ sock[s].inbox \in Seq(Message)
          /\ Len(sock[s].inbox) <= EVENT_CHANNEL_CAPACITY + 3
    BY DEF IInv, Channel, Shapes, Shaped, Record
  <2>2. /\ subscription \in {"none", "open"} /\ socket \in Socket \cup {0} /\ timers \in 0..1
        /\ over \in {"no", "asked", "signal"}
    BY DEF IInv, Channel, Alone
  <2>3. /\ reconcile.pc \in {"idle", "avail", "status", "reply"} /\ reconcile.try \in 1..Retries
        /\ start.pc \in Pcs /\ start.try \in 1..Retries
    BY DEF IInv, Kept, Installer, Answer, StartRecord
  <2>4. /\ running \in BOOLEAN /\ authoritative \in BOOLEAN /\ overlap \in BOOLEAN
        /\ failures \in 0..HELPER_FAILURE_THRESHOLD - 1
    BY DEF IInv, Kept
  <2>5. Machine
    BY DEF IInv, Installer
  <2> QED
    BY <2>1, <2>2, <2>3, <2>4, <2>5 DEF TypeOK, Machine, Pcs, Quitting
<1> QED
  BY <1>1, <1>2, <1>3, Inductive, PTL DEF Spec
=============================================================================
