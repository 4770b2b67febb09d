---------------------------- MODULE WindowProofs ----------------------------
(***************************************************************************)
(* Proofs about ChatWindow, for any number of chats, messages, reloads and *)
(* calls under way, whether or not the user is patient; and about          *)
(* Connection, for any number of watches, gates and checks.                *)
(*                                                                         *)
(* InflightIsTrue and ListFollows speak of the window, but what keeps them *)
(* is on its way between window and main process.  WInv therefore relates  *)
(* the two queues to both sides.  Of turns: a request names one message,   *)
(* in the queue to the main process, as a turn, or as an end in the queue  *)
(* to the window, never in two of them (OneRequest); what blocks the input *)
(* runs or its end is coming (Blocked); every acceptance still on its way  *)
(* is of a turn that runs or comes before that turn's end (Followed); and  *)
(* of a turn that runs the window knows, or its acceptance is the last     *)
(* that comes for the chat (Told).  Of the list: a request for it is on    *)
(* its way, or word of a change, or an up-to-date list that no other list  *)
(* follows, or it is on display and no list is coming (Follows).  A list   *)
(* that looks like the one on display is not set, so what is on display,   *)
(* what is coming and the index must also agree wherever their time stamps *)
(* do (Dated).                                                             *)
(*                                                                         *)
(* The parts of WInv are relations of sequences, not of the variables.  A  *)
(* step adds to the end of a queue (Joined) or takes its head (Rest); each *)
(* part has a lemma for either, and the steps are put together from those. *)
(*                                                                         *)
(* OneReconnect concerns two variables, but counting is nothing a step     *)
(* preserves by itself: the invariant is that any two reconnects are the   *)
(* same one, and that the flag is up while there is one.                   *)
(***************************************************************************)
EXTENDS ChatWindow, Connection, NaturalsInduction, WellFoundedInduction, SequenceTheorems,
        FiniteSetTheorems, TLAPS

-----------------------------------------------------------------------------
(***************************************************************************)
(* Sequences, of whatever.  The queues hold records of several shapes, so  *)
(* the set of their elements is left open.                                 *)
(***************************************************************************)

\* A sequence has elements of some set; its positions.
IsSeq(s) == \E T : s \in Seq(T)
Positions(s) == 1 .. Len(s)

\* The length of a sequence, its domain, and when it is empty.
LEMMA SeqLen ==
  ASSUME NEW s, IsSeq(s)
  PROVE  Len(s) \in Nat /\ DOMAIN s = Positions(s) /\ (Len(s) = 0 <=> s = <<>>)
<1> PICK T : s \in Seq(T)
  BY DEF IsSeq
<1>1. Len(s) \in Nat /\ DOMAIN s = 1 .. Len(s)
  BY LenProperties
<1>2. s # <<>> => Len(s) \in Nat \ {0}
  BY EmptySeq
<1>3. Len(<<>>) = 0
  BY EmptySeq
<1> QED BY <1>1, <1>2, <1>3 DEF Positions

\* What is left of a sequence without its head.
LEMMA TailSeq ==
  ASSUME NEW s, IsSeq(s), s # <<>>
  PROVE  /\ IsSeq(Tail(s)) /\ Len(Tail(s)) = Len(s) - 1
         /\ \A i \in Positions(Tail(s)) : Tail(s)[i] = s[i + 1]
         /\ Head(s) = s[1]
         /\ Len(s) \in Nat \ {0}
<1> PICK S : s \in Seq(S)
  BY DEF IsSeq
<1>1. /\ Tail(s) \in Seq(S) /\ Len(Tail(s)) = Len(s) - 1
      /\ \A i \in 1 .. Len(Tail(s)) : Tail(s)[i] = s[i + 1]
  BY HeadTailProperties
<1>2. Len(s) \in Nat \ {0}
  BY EmptySeq
<1>3. Head(s) = s[1]
  OBVIOUS
<1> QED BY <1>1, <1>2, <1>3 DEF IsSeq, Positions

\* Sequences of none, one and two elements.
LEMMA ShortSeq ==
  ASSUME NEW x, NEW y
  PROVE  /\ IsSeq(<<>>) /\ IsSeq(<<x>>) /\ IsSeq(<<x, y>>)
         /\ Positions(<<>>) = {} /\ Positions(<<x>>) = {1} /\ Positions(<<x, y>>) = {1, 2}
<1>1. <<>> \in Seq({}) /\ <<x>> \in Seq({x}) /\ <<x, y>> \in Seq({x, y})
  OBVIOUS
<1>2. Len(<<>>) = 0 /\ Len(<<x>>) = 1 /\ Len(<<x, y>>) = 2
  OBVIOUS
<1>3. 1 .. 0 = {} /\ 1 .. 1 = {1} /\ 1 .. 2 = {1, 2}
  OBVIOUS
<1>4. IsSeq(<<>>) /\ IsSeq(<<x>>) /\ IsSeq(<<x, y>>)
  BY <1>1, Zenon DEF IsSeq
<1>5. Positions(<<>>) = 1 .. 0 /\ Positions(<<x>>) = 1 .. 1 /\ Positions(<<x, y>>) = 1 .. 2
  BY <1>2, Zenon DEF Positions
<1> QED BY <1>3, <1>4, <1>5, Zenon

\* w is s with t after it; w is s without its first element.
Joined(w, s, t) ==
  /\ IsSeq(w) /\ Len(s) \in Nat
  /\ \A i \in Positions(w) : \/ i \in Positions(s) /\ w[i] = s[i]
                             \/ \E j \in Positions(t) : i = Len(s) + j /\ w[i] = t[j]
  /\ \A i \in Positions(s) : i \in Positions(w) /\ w[i] = s[i]
  /\ \A j \in Positions(t) : Len(s) + j \in Positions(w) /\ w[Len(s) + j] = t[j]

Rest(w, s) ==
  /\ IsSeq(w) /\ 1 \in Positions(s)
  /\ \A i \in Positions(w) : i + 1 \in Positions(s) /\ w[i] = s[i + 1]
  /\ \A i \in Positions(s) : i # 1 => i - 1 \in Positions(w) /\ w[i - 1] = s[i]

\* Putting a sequence behind another one, as ToWindow does with messages.
LEMMA ConcatJoins ==
  ASSUME NEW s, IsSeq(s), NEW t, IsSeq(t)
  PROVE  Joined(s \o t, s, t)
<1> PICK S : s \in Seq(S)
  BY DEF IsSeq
<1> PICK T : t \in Seq(T)
  BY DEF IsSeq
<1> DEFINE U == S \cup T
<1>1. s \in Seq(U) /\ t \in Seq(U)
  <2>1. S \subseteq U /\ T \subseteq U
    OBVIOUS
  <2> HIDE DEF U
  <2> QED BY <2>1, SeqMonotonic
<1> HIDE DEF U
<1>2. /\ s \o t \in Seq(U) /\ Len(s \o t) = Len(s) + Len(t)
      /\ \A i \in 1 .. Len(s) + Len(t) : (s \o t)[i] = IF i <= Len(s) THEN s[i] ELSE t[i - Len(s)]
  BY <1>1, ConcatProperties
<1>3. Len(s) \in Nat /\ Len(t) \in Nat
  BY <1>1, LenProperties
<1>4. ASSUME NEW i \in Positions(s) PROVE (s \o t)[i] = s[i]
  <2>1. i \in 1 .. Len(s) + Len(t) /\ i <= Len(s)
    BY <1>3 DEF Positions
  <2> QED BY <1>2, <2>1
<1>5. ASSUME NEW i \in Positions(t) PROVE (s \o t)[Len(s) + i] = t[i]
  <2>1. /\ Len(s) + i \in 1 .. Len(s) + Len(t)
        /\ ~(Len(s) + i <= Len(s)) /\ (Len(s) + i) - Len(s) = i
    BY <1>3 DEF Positions
  <2> QED BY <1>2, <2>1
<1>6. ASSUME NEW i \in Positions(s \o t), i \notin Positions(s)
      PROVE  \E j \in Positions(t) : i = Len(s) + j /\ (s \o t)[i] = t[j]
  <2> DEFINE j == i - Len(s)
  <2>1. j \in Positions(t) /\ i = Len(s) + j
    BY <1>2, <1>3, <1>6 DEF Positions
  <2> HIDE DEF j
  <2>2. (s \o t)[Len(s) + j] = t[j]
    BY <1>5, <2>1
  <2> QED BY <2>1, <2>2
<1>7. \A i \in Positions(s) : i \in Positions(s \o t)
  BY <1>2, <1>3 DEF Positions
<1>8. \A j \in Positions(t) : Len(s) + j \in Positions(s \o t)
  BY <1>2, <1>3 DEF Positions
<1>9. IsSeq(s \o t)
  BY <1>2 DEF IsSeq
<1> QED BY <1>3, <1>4, <1>5, <1>6, <1>7, <1>8, <1>9, Zenon DEF Joined

\* Putting one element behind a sequence, as Call does with a call.
LEMMA AppendJoins ==
  ASSUME NEW s, IsSeq(s), NEW x
  PROVE  Joined(Append(s, x), s, <<x>>)
<1> PICK S : s \in Seq(S)
  BY DEF IsSeq
<1> DEFINE U == S \cup {x}
<1>1. s \in Seq(U) /\ x \in U
  <2>1. S \subseteq U /\ x \in U
    OBVIOUS
  <2> HIDE DEF U
  <2> QED BY <2>1, SeqMonotonic
<1> HIDE DEF U
<1>2. /\ Append(s, x) \in Seq(U) /\ Len(Append(s, x)) = Len(s) + 1
      /\ \A i \in 1 .. Len(s) : Append(s, x)[i] = s[i]
      /\ Append(s, x)[Len(s) + 1] = x
  BY <1>1, AppendProperties
<1>3. Len(s) \in Nat /\ Positions(<<x>>) = {1} /\ <<x>>[1] = x
  BY <1>1, LenProperties, ShortSeq
<1>4. Positions(Append(s, x)) = Positions(s) \cup {Len(s) + 1}
  BY <1>2, <1>3 DEF Positions
<1>5. IsSeq(Append(s, x))
  BY <1>2 DEF IsSeq
<1>6. \A i \in Positions(s) : Append(s, x)[i] = s[i]
  BY <1>2 DEF Positions
<1> QED BY <1>2, <1>3, <1>4, <1>5, <1>6, Zenon DEF Joined

\* Taking the head of a sequence, as Handle and Receive do.
LEMMA TailRests ==
  ASSUME NEW s, IsSeq(s), s # <<>>
  PROVE  Rest(Tail(s), s) /\ Head(s) = s[1]
<1>1. Len(Tail(s)) = Len(s) - 1 /\ Len(s) \in Nat \ {0}
  BY TailSeq
<1>2. \A i \in Positions(Tail(s)) : i + 1 \in Positions(s) /\ Tail(s)[i] = s[i + 1]
  BY <1>1, TailSeq DEF Positions
<1>3. ASSUME NEW i \in Positions(s), i # 1
      PROVE  i - 1 \in Positions(Tail(s)) /\ Tail(s)[i - 1] = s[i]
  <2>1. i - 1 \in Positions(Tail(s)) /\ (i - 1) + 1 = i
    BY <1>1, <1>3 DEF Positions
  <2> QED BY <1>2, <2>1
<1>4. IsSeq(Tail(s)) /\ Head(s) = s[1]
  BY TailSeq
<1>5. 1 \in Positions(s)
  BY <1>1 DEF Positions
<1> QED BY <1>2, <1>3, <1>4, <1>5, Zenon DEF Rest

-----------------------------------------------------------------------------
(***************************************************************************)
(* What is on its way to the window.                                       *)
(***************************************************************************)

\* The end of a turn.
HasEnd(w, r) == \E i \in Positions(w) : w[i].type = "end" /\ w[i].req = r

\* A message for chat c was accepted, on page p.
Accepts(m, c, p) == /\ m.type = "reply" /\ m.call.op = "send" /\ m.ok
                    /\ m.call.chat = c /\ m.call.page = p
NoAccept(w, c, p) == \A i \in Positions(w) : ~Accepts(w[i], c, p)

\* The last of them is message r.
LastAccept(w, c, r, p) ==
  \E i \in Positions(w) : /\ Accepts(w[i], c, p) /\ w[i].call.req = r
                          /\ \A j \in Positions(w) : j > i => ~Accepts(w[j], c, p)

\* An accepted message has a turn that runs, or one whose end comes later.
Followed(w, t) ==
  \A i \in Positions(w) : w[i].type = "reply" /\ w[i].call.op = "send" /\ w[i].ok =>
    \/ t[w[i].call.chat].req = w[i].call.req
    \/ \E j \in Positions(w) : j > i /\ w[j].type = "end" /\ w[j].req = w[i].call.req

\* A list for page p, the last of them an up-to-date one.
ListOps == {"list", "listThen"}
Lists(m, p) == m.type = "reply" /\ m.call.op \in ListOps /\ m.call.page = p
NoList(w, p) == \A i \in Positions(w) : ~Lists(w[i], p)
Agree(x, y) == DOMAIN x = DOMAIN y /\ \A c \in DOMAIN y : x[c].title = y[c].title
LastList(w, p, x) ==
  \E i \in Positions(w) : /\ Lists(w[i], p) /\ Agree(w[i].value, x)
                          /\ \A j \in Positions(w) : j > i => ~Lists(w[j], p)

\* A later part of a queue has later positions.
LEMMA JoinedLater ==
  ASSUME NEW w, NEW s, NEW t, Joined(w, s, t), NEW i \in Positions(s), NEW j \in Positions(t)
  PROVE  Len(s) + j > i
  BY DEF Joined, Positions

\* Of a queue to which something was added: the ends in it are those of either part.
LEMMA JoinedEnd ==
  ASSUME NEW w, NEW s, NEW t, Joined(w, s, t), NEW r
  PROVE  HasEnd(w, r) <=> HasEnd(s, r) \/ HasEnd(t, r)
  BY DEF Joined, HasEnd

\* It has no acceptance of a chat if neither part has one.
LEMMA JoinedNoAccept ==
  ASSUME NEW w, NEW s, NEW t, Joined(w, s, t), NEW c, NEW p
  PROVE  NoAccept(w, c, p) <=> NoAccept(s, c, p) /\ NoAccept(t, c, p)
  BY DEF Joined, NoAccept

\* Its last acceptance is that of the added part, or if that has none, the old one.
LEMMA JoinedLastAccept ==
  ASSUME NEW w, NEW s, NEW t, Joined(w, s, t), NEW c, NEW r, NEW p
  PROVE  /\ LastAccept(s, c, r, p) /\ NoAccept(t, c, p) => LastAccept(w, c, r, p)
         /\ LastAccept(t, c, r, p) => LastAccept(w, c, r, p)
<1>1. ASSUME LastAccept(s, c, r, p), NoAccept(t, c, p) PROVE LastAccept(w, c, r, p)
  BY <1>1 DEF Joined, LastAccept, NoAccept
<1>2. ASSUME LastAccept(t, c, r, p) PROVE LastAccept(w, c, r, p)
  <2>1. PICK k \in Positions(t) : /\ Accepts(t[k], c, p) /\ t[k].call.req = r
                                 /\ \A j \in Positions(t) : j > k => ~Accepts(t[j], c, p)
    BY <1>2 DEF LastAccept
  <2>2. Len(s) + k \in Positions(w) /\ w[Len(s) + k] = t[k]
    BY DEF Joined
  <2>3. ASSUME NEW j \in Positions(w), j > Len(s) + k PROVE ~Accepts(w[j], c, p)
    <3>1. j \notin Positions(s)
      BY <2>3, JoinedLater DEF Positions
    <3>2. PICK l \in Positions(t) : j = Len(s) + l /\ w[j] = t[l]
      BY <3>1 DEF Joined
    <3>3. l > k
      BY <2>3, <3>2 DEF Joined, Positions
    <3> QED BY <2>1, <3>2, <3>3
  <2> QED BY <2>1, <2>2, <2>3 DEF LastAccept
<1> QED BY <1>1, <1>2

\* Acceptances are followed if those of either part are; those whose turn ended find
\* its end in the added part.
LEMMA JoinedFollowed ==
  ASSUME NEW w, NEW s, NEW t, Joined(w, s, t), NEW q, NEW r, Followed(s, q), Followed(t, r),
         \A i \in Positions(s) : /\ s[i].type = "reply" /\ s[i].call.op = "send" /\ s[i].ok
                                /\ q[s[i].call.chat].req = s[i].call.req =>
           r[s[i].call.chat].req = s[i].call.req \/ HasEnd(t, s[i].call.req)
  PROVE  Followed(w, r)
<1> SUFFICES ASSUME NEW i \in Positions(w),
                    w[i].type = "reply" /\ w[i].call.op = "send" /\ w[i].ok
             PROVE  \/ r[w[i].call.chat].req = w[i].call.req
                    \/ \E j \in Positions(w) :
                         j > i /\ w[j].type = "end" /\ w[j].req = w[i].call.req
  BY DEF Followed
<1>1. CASE i \in Positions(s) /\ w[i] = s[i]
  <2>1. CASE \E j \in Positions(s) : j > i /\ s[j].type = "end" /\ s[j].req = s[i].call.req
    BY <1>1, <2>1 DEF Joined
  <2>2. CASE HasEnd(t, s[i].call.req)
    <3>1. PICK j \in Positions(t) : t[j].type = "end" /\ t[j].req = s[i].call.req
      BY <2>2 DEF HasEnd
    <3>2. Len(s) + j \in Positions(w) /\ w[Len(s) + j] = t[j] /\ Len(s) + j > i
      BY <1>1, JoinedLater DEF Joined
    <3> QED BY <1>1, <3>1, <3>2
  <2> QED BY <1>1, <2>1, <2>2 DEF Followed
<1>2. CASE \E k \in Positions(t) : i = Len(s) + k /\ w[i] = t[k]
  <2> PICK k \in Positions(t) : i = Len(s) + k /\ w[i] = t[k]
    BY <1>2
  <2>1. CASE r[t[k].call.chat].req = t[k].call.req
    BY <2>1
  <2>2. CASE \E j \in Positions(t) : j > k /\ t[j].type = "end" /\ t[j].req = t[k].call.req
    <3>1. PICK j \in Positions(t) : j > k /\ t[j].type = "end" /\ t[j].req = t[k].call.req
      BY <2>2
    <3>2. Len(s) + j \in Positions(w) /\ w[Len(s) + j] = t[j] /\ Len(s) + j > i
      BY <3>1 DEF Joined, Positions
    <3> QED BY <3>1, <3>2
  <2> QED BY <2>1, <2>2 DEF Followed
<1> QED BY <1>1, <1>2 DEF Joined

\* It has no list if neither part has one.
LEMMA JoinedNoList ==
  ASSUME NEW w, NEW s, NEW t, Joined(w, s, t), NEW p
  PROVE  NoList(w, p) <=> NoList(s, p) /\ NoList(t, p)
  BY DEF Joined, NoList

\* Its last list is that of the added part, or if that has none, the old one.
LEMMA JoinedLastList ==
  ASSUME NEW w, NEW s, NEW t, Joined(w, s, t), NEW p, NEW x
  PROVE  /\ LastList(s, p, x) /\ NoList(t, p) => LastList(w, p, x)
         /\ LastList(t, p, x) => LastList(w, p, x)
<1>1. ASSUME LastList(s, p, x), NoList(t, p) PROVE LastList(w, p, x)
  BY <1>1 DEF Joined, LastList, NoList
<1>2. ASSUME LastList(t, p, x) PROVE LastList(w, p, x)
  <2>1. PICK k \in Positions(t) : /\ Lists(t[k], p) /\ Agree(t[k].value, x)
                                 /\ \A j \in Positions(t) : j > k => ~Lists(t[j], p)
    BY <1>2 DEF LastList
  <2>2. Len(s) + k \in Positions(w) /\ w[Len(s) + k] = t[k]
    BY DEF Joined
  <2>3. ASSUME NEW j \in Positions(w), j > Len(s) + k PROVE ~Lists(w[j], p)
    <3>1. j \notin Positions(s)
      BY <2>3, JoinedLater DEF Positions
    <3>2. PICK l \in Positions(t) : j = Len(s) + l /\ w[j] = t[l]
      BY <3>1 DEF Joined
    <3>3. l > k
      BY <2>3, <3>2 DEF Joined, Positions
    <3> QED BY <2>1, <3>2, <3>3
  <2> QED BY <2>1, <2>2, <2>3 DEF LastList
<1> QED BY <1>1, <1>2

\* The same for a queue whose head has been taken.
LEMMA RestEnd ==
  ASSUME NEW w, NEW s, Rest(w, s), NEW r
  PROVE  HasEnd(s, r) <=> (s[1].type = "end" /\ s[1].req = r) \/ HasEnd(w, r)
  BY DEF Rest, HasEnd

\* A queue has no acceptance if neither its head nor the rest has one.
LEMMA RestNoAccept ==
  ASSUME NEW w, NEW s, Rest(w, s), NEW c, NEW p
  PROVE  NoAccept(s, c, p) <=> ~Accepts(s[1], c, p) /\ NoAccept(w, c, p)
  BY DEF Rest, NoAccept

\* The last acceptance is left, or was the head and no other is left.
LEMMA RestLastAccept ==
  ASSUME NEW w, NEW s, Rest(w, s), NEW c, NEW r, NEW p, LastAccept(s, c, r, p)
  PROVE  \/ LastAccept(w, c, r, p)
         \/ Accepts(s[1], c, p) /\ s[1].call.req = r /\ NoAccept(w, c, p)
<1> PICK i \in Positions(s) : /\ Accepts(s[i], c, p) /\ s[i].call.req = r
                             /\ \A j \in Positions(s) : j > i => ~Accepts(s[j], c, p)
  BY DEF LastAccept
<1>1. \A j \in Positions(w) : j + 1 \in Positions(s) /\ w[j] = s[j + 1]
  BY DEF Rest
<1>2. CASE i = 1
  <2>1. \A j \in Positions(w) : j + 1 > 1
    BY DEF Positions
  <2> QED BY <1>1, <1>2, <2>1 DEF NoAccept
<1>3. CASE i # 1
  <2>1. i - 1 \in Positions(w) /\ w[i - 1] = s[i]
    BY <1>3 DEF Rest
  <2>2. ASSUME NEW j \in Positions(w), j > i - 1 PROVE ~Accepts(w[j], c, p)
    <3>1. j + 1 > i
      BY <2>2 DEF Positions
    <3> QED BY <1>1, <3>1
  <2> QED BY <2>1, <2>2 DEF LastAccept
<1> QED BY <1>2, <1>3

\* The acceptances that are left are followed; that at the head had a turn or an end.
LEMMA RestFollowed ==
  ASSUME NEW w, NEW s, Rest(w, s), NEW q, Followed(s, q)
  PROVE  /\ Followed(w, q)
         /\ s[1].type = "reply" /\ s[1].call.op = "send" /\ s[1].ok =>
              q[s[1].call.chat].req = s[1].call.req \/ HasEnd(w, s[1].call.req)
<1>1. ASSUME NEW i \in Positions(s), NEW j \in Positions(s), j > i
      PROVE  /\ j - 1 \in Positions(w) /\ w[j - 1] = s[j]
             /\ i # 1 => j - 1 > i - 1
  <2>1. j # 1
    BY <1>1 DEF Positions
  <2> QED BY <1>1, <2>1 DEF Rest, Positions
<1>2. ASSUME NEW i \in Positions(w), w[i].type = "reply" /\ w[i].call.op = "send" /\ w[i].ok
      PROVE  \/ q[w[i].call.chat].req = w[i].call.req
             \/ \E j \in Positions(w) : j > i /\ w[j].type = "end" /\ w[j].req = w[i].call.req
  <2>1. i + 1 \in Positions(s) /\ w[i] = s[i + 1]
    BY DEF Rest
  <2>2. CASE \E j \in Positions(s) : j > i + 1 /\ s[j].type = "end" /\ s[j].req = w[i].call.req
    <3>1. PICK j \in Positions(s) : j > i + 1 /\ s[j].type = "end" /\ s[j].req = w[i].call.req
      BY <2>2
    <3>2. j - 1 \in Positions(w) /\ w[j - 1] = s[j]
      BY <1>1, <2>1, <3>1
    <3>3. j - 1 > i
      BY <3>1 DEF Positions
    <3> QED BY <3>1, <3>2, <3>3
  <2> QED BY <1>2, <2>1, <2>2 DEF Followed
<1>3. ASSUME s[1].type = "reply" /\ s[1].call.op = "send" /\ s[1].ok,
             \E j \in Positions(s) : j > 1 /\ s[j].type = "end" /\ s[j].req = s[1].call.req
      PROVE  HasEnd(w, s[1].call.req)
  BY <1>1, <1>3 DEF HasEnd, Rest
<1>4. 1 \in Positions(s)
  BY DEF Rest
<1> QED BY <1>2, <1>3, <1>4 DEF Followed

\* A queue has no list if neither its head nor the rest has one.
LEMMA RestNoList ==
  ASSUME NEW w, NEW s, Rest(w, s), NEW p
  PROVE  NoList(s, p) <=> ~Lists(s[1], p) /\ NoList(w, p)
  BY DEF Rest, NoList

\* The last list is left, or was the head and no other is left.
LEMMA RestLastList ==
  ASSUME NEW w, NEW s, Rest(w, s), NEW p, NEW x, LastList(s, p, x)
  PROVE  \/ LastList(w, p, x)
         \/ Lists(s[1], p) /\ Agree(s[1].value, x) /\ NoList(w, p)
<1> PICK i \in Positions(s) : /\ Lists(s[i], p) /\ Agree(s[i].value, x)
                             /\ \A j \in Positions(s) : j > i => ~Lists(s[j], p)
  BY DEF LastList
<1>1. \A j \in Positions(w) : j + 1 \in Positions(s) /\ w[j] = s[j + 1]
  BY DEF Rest
<1>2. CASE i = 1
  <2>1. \A j \in Positions(w) : j + 1 > 1
    BY DEF Positions
  <2> QED BY <1>1, <1>2, <2>1 DEF NoList
<1>3. CASE i # 1
  <2>1. i - 1 \in Positions(w) /\ w[i - 1] = s[i]
    BY <1>3 DEF Rest
  <2>2. ASSUME NEW j \in Positions(w), j > i - 1 PROVE ~Lists(w[j], p)
    <3>1. j + 1 > i
      BY <2>2 DEF Positions
    <3> QED BY <1>1, <3>1
  <2> QED BY <2>1, <2>2 DEF LastList
<1> QED BY <1>2, <1>3

\* A set of numbers that is not empty has a least element.
LEMMA Least ==
  ASSUME NEW T \in SUBSET Nat, T # {}
  PROVE  \E x \in T : \A y \in T : x <= y
<1> DEFINE R == {ss \in Nat \X Nat : ss[1] < ss[2]}
<1>1. IsWellFoundedOn(R, Nat)
  BY NatLessThanWellFounded DEF OpToRel
<1>2. \E x \in T : \A y \in T : ~(<<y, x>> \in R)
  <2> HIDE DEF R
  <2> QED
    BY <1>1, WFMin
<1>3. ASSUME NEW x \in T, NEW y \in T, ~(<<y, x>> \in R)
      PROVE  x <= y
  <2>1. x \in Nat /\ y \in Nat /\ ~(y < x)
    BY <1>3
  <2> QED
    BY <2>1
<1> QED
  BY <1>2, <1>3

\* So a set of numbers that is bounded has a greatest one.
LEMMA MaxOfNumbers ==
  ASSUME NEW n \in Nat, NEW S \in SUBSET (0 .. n), S # {}
  PROVE  Max(S) \in S
<1> DEFINE T == {k \in Nat : n - k \in S}
<1>1. T \in SUBSET Nat /\ T # {}
  <2>1. PICK x \in S : TRUE
    OBVIOUS
  <2>2. x \in 0 .. n
    OBVIOUS
  <2>3. n - x \in Nat /\ n - (n - x) = x
    BY <2>2
  <2>4. n - x \in T
    BY <2>1, <2>3
  <2> QED BY <2>4
<1>2. PICK k \in T : \A y \in T : k <= y
  <2> HIDE DEF T
  <2> QED BY <1>1, Least
<1>3. k \in Nat /\ n - k \in S
  OBVIOUS
<1>4. ASSUME NEW y \in S PROVE n - k >= y
  <2>1. y \in 0 .. n
    OBVIOUS
  <2>2. n - y \in Nat /\ n - (n - y) = y
    BY <2>1
  <2>3. n - y \in T
    BY <1>4, <2>2
  <2>4. k <= n - y
    BY <1>2, <2>3
  <2> QED BY <1>3, <2>1, <2>4
<1>5. \E x \in S : \A y \in S : x >= y
  BY <1>3, <1>4
<1> QED BY <1>5, Zenon DEF Max

\* FlattenSeq of sequences over T is one over T: the recursive function it is made
\* with has the values its definition says, up to any length (least counterexample).
LEMMA FlattenIsSeq ==
  ASSUME NEW T, NEW n \in Nat, NEW L \in [1 .. n -> Seq(T)]
  PROVE  FlattenSeq(L) \in Seq(T)
<1>1. Len(L) = n
  OBVIOUS
<1>2. CASE n = 0
  <2>1. FlattenSeq(L) = L
    BY <1>1, <1>2 DEF FlattenSeq
  <2>2. L = <<>>
    BY <1>2
  <2> QED BY <2>1, <2>2
<1>3. CASE n # 0
  <2> DEFINE Upto(f, m) == f = [i \in 1 .. m |-> IF i = 1 THEN L[i] ELSE f[i - 1] \o L[i]]
             flatten == CHOOSE f : Upto(f, n)
  <2>1. FlattenSeq(L) = flatten[n]
    BY <1>1, <1>3 DEF FlattenSeq
  <2>2. \A m \in Nat : \E f : Upto(f, m)
    <3> DEFINE S == {m \in Nat : ~ \E f : Upto(f, m)}
    <3> SUFFICES ASSUME S # {} PROVE FALSE
      OBVIOUS
    <3>1. PICK x \in S : \A y \in S : x <= y
      <4> HIDE DEF Upto
      <4> QED BY Least
    <3>2. x \in Nat /\ ~ \E f : Upto(f, x)
      OBVIOUS
    <3>3. CASE x = 0
      <4>1. Upto([i \in 1 .. 0 |-> T], 0)
        OBVIOUS
      <4> QED BY <3>2, <3>3, <4>1
    <3>4. CASE x # 0
      <4>1. x - 1 \in Nat /\ ~(x <= x - 1)
        BY <3>2, <3>4
      <4>2. PICK g : Upto(g, x - 1)
        <5> HIDE DEF Upto
        <5> QED BY <3>1, <4>1
      <4> DEFINE f == [i \in 1 .. x |-> IF i = x THEN (IF i = 1 THEN L[i] ELSE g[i - 1] \o L[i])
                                   ELSE g[i]]
      <4>3. ASSUME NEW i \in 1 .. x PROVE f[i] = IF i = 1 THEN L[i] ELSE f[i - 1] \o L[i]
        <5>1. CASE i = 1 /\ i = x
          BY <5>1
        <5>2. CASE i = 1 /\ i # x
          <6>1. 1 \in 1 .. x - 1
            BY <3>2, <5>2
          <6>2. g[1] = L[1]
            BY <4>2, <6>1
          <6> QED BY <5>2, <6>2
        <5>3. CASE i # 1 /\ i = x
          <6>1. i - 1 \in 1 .. x /\ i - 1 # x
            BY <3>2, <5>3
          <6>2. f[i - 1] = g[i - 1]
            BY <6>1
          <6>3. f[i] = g[i - 1] \o L[i]
            BY <5>3
          <6> HIDE DEF f
          <6> QED BY <5>3, <6>2, <6>3
        <5>4. CASE i # 1 /\ i # x
          <6>1. /\ i - 1 \in 1 .. x /\ i - 1 # x /\ i \in 1 .. x - 1
            BY <3>2, <5>4
          <6>2. f[i - 1] = g[i - 1] /\ f[i] = g[i]
            BY <5>4, <6>1
          <6>3. g[i] = g[i - 1] \o L[i]
            BY <4>2, <5>4, <6>1
          <6> HIDE DEF f
          <6> QED BY <5>4, <6>2, <6>3
        <5> QED BY <5>1, <5>2, <5>3, <5>4
      <4>4. f = [i \in 1 .. x |-> f[i]]
        OBVIOUS
      <4>5. Upto(f, x)
        <5> HIDE DEF f
        <5> QED BY <4>3, <4>4
      <4> HIDE DEF f, Upto
      <4> QED BY <3>2, <4>5
    <3> QED BY <3>3, <3>4
  <2>3. Upto(flatten, n)
    <3>1. \E f : Upto(f, n)
      <4> HIDE DEF Upto
      <4> QED BY <2>2
    <3> HIDE DEF Upto
    <3> QED BY <3>1, Zenon
  <2>4. \A i \in 1 .. n : flatten[i] = IF i = 1 THEN L[i] ELSE flatten[i - 1] \o L[i]
    <3> HIDE DEF flatten
    <3> QED BY <2>3
  <2> HIDE DEF flatten, Upto
  <2>5. \A i \in 1 .. n : flatten[i] \in Seq(T)
    <3> DEFINE S == {i \in 1 .. n : flatten[i] \notin Seq(T)}
    <3> SUFFICES ASSUME S # {} PROVE FALSE
      OBVIOUS
    <3>1. PICK x \in S : \A y \in S : x <= y
      <4>1. S \in SUBSET Nat
        OBVIOUS
      <4> HIDE DEF S
      <4> QED BY <4>1, Least
    <3>2. x \in 1 .. n /\ flatten[x] \notin Seq(T)
      OBVIOUS
    <3>3. CASE x = 1
      BY <2>4, <3>2, <3>3
    <3>4. CASE x # 1
      <4>1. x - 1 \in 1 .. n /\ ~(x <= x - 1)
        BY <3>2, <3>4
      <4>2. flatten[x - 1] \in Seq(T)
        BY <3>1, <4>1
      <4>3. L[x] \in Seq(T)
        BY <3>2
      <4>4. flatten[x - 1] \o L[x] \in Seq(T)
        BY <4>2, <4>3, ConcatProperties
      <4> QED BY <2>4, <3>2, <3>4, <4>4
    <3> QED BY <3>3, <3>4
  <2>6. n \in 1 .. n
    BY <1>3
  <2> QED BY <2>1, <2>5, <2>6
<1> QED BY <1>2, <1>3

\* What engines print: lines, and halves of lines.
LineTypes == {"init", "assistant", "user", "delta", "toolCall/started", "toolCall/completed"}
Lines == [type : LineTypes, req : Nat, own : BOOLEAN]
Halves == Lines \X {1, 2}
-----------------------------------------------------------------------------
(***************************************************************************)
(* The invariants, as relations of the queues, the turns and the lists.    *)
(***************************************************************************)

\* Calls and messages: of pages, requests and chats that there are.
Ops == {"list", "listThen", "create", "send", "cancel", "load", "rename", "delete"}
CallOK(x, n, p, u) ==
  /\ x.op \in Ops /\ x.page \in 0 .. p
  /\ x.op \in {"send", "delete"} => x.chat \in u
  /\ x.op = "send" => x.req \in 1 .. n
Calls(m, n, p, u) == IsSeq(m) /\ \A i \in Positions(m) : CallOK(m[i], n, p, u)

Metas == [title : Nat, updatedAt : Nat]
IsIndex(x, u) == x \in [DOMAIN x -> Metas] /\ DOMAIN x \subseteq u

MessageOK(m, n, p, u) ==
  /\ m.type \in {"reply", "listChanged", "stream", "end"}
  /\ m.type = "reply" => /\ CallOK(m.call, n, p, u) /\ m.ok \in BOOLEAN
                         /\ m.call.op \in ListOps => IsIndex(m.value, u)
  /\ m.type = "end" => m.req \in 1 .. n
Messages(w, n, p, u) == IsSeq(w) /\ \A i \in Positions(w) : MessageOK(w[i], n, p, u)

\* Turns: of a message that was sent from a page that there was.
Turns == [req : Nat, page : Nat, todo : Seq(Lines), pipe : Seq(Halves), buf : Seq(Halves),
          init : BOOLEAN, stop : BOOLEAN]
TurnsOK(t, n, p, u) ==
  /\ t \in [Chats -> Turns]
  /\ \A c \in Chats : t[c].req <= n /\ t[c].page <= p /\ (t[c].req # NoReq => c \in u)

\* What was deleted stays deleted.
Deleted(w, s) ==
  \A i \in Positions(w) : w[i].type = "reply" /\ w[i].call.op = "delete" =>
    w[i].call.chat \notin DOMAIN s

\* A request names one message: on its way to the main process, while its turn
\* runs, and when it has ended.
OneRequest(m, w, t) ==
  /\ \A i, j \in Positions(m) : m[i].op = "send" /\ m[j].op = "send" /\ m[i].req = m[j].req => i = j
  /\ \A i \in Positions(m) : m[i].op = "send" =>
       /\ \A c \in Chats : t[c].req # m[i].req
       /\ ~HasEnd(w, m[i].req)
  /\ \A c, d \in Chats : t[c].req = t[d].req /\ t[c].req # NoReq => c = d
  /\ \A c \in Chats : t[c].req # NoReq => ~HasEnd(w, t[c].req)

\* What blocks the input is a turn that runs, or one whose end is on its way.
Blocked(f, t, w) ==
  \A c \in Chats : f[c] # NoReq => t[c].req = f[c] \/ HasEnd(w, f[c])

\* A turn of this page blocks the input, or its start is the next thing that
\* the window hears of the chat.
Hears(f, r, w, c, p) == LastAccept(w, c, r, p) \/ (f[c] = r /\ NoAccept(w, c, p))
Told(s, t, p, f, w) ==
  \A c \in DOMAIN s : t[c].req # NoReq /\ t[c].page = p => Hears(f, t[c].req, w, c, p)

\* The list is asked for, or changed, or on its way, or on display.
Follows(m, w, p, x, s) ==
  \/ \E i \in Positions(m) : m[i].op \in ListOps /\ m[i].page = p
  \/ \E i \in Positions(w) : w[i].type = "listChanged"
  \/ LastList(w, p, s)
  \/ Agree(x, s) /\ NoList(w, p)

\* States of the index: what has the same time has the same title, and the
\* index itself is the newest.
Consistent(x, y) ==
  \A c \in DOMAIN x \cap DOMAIN y : x[c].updatedAt = y[c].updatedAt => x[c].title = y[c].title
Older(x, s) == \A c \in DOMAIN x \cap DOMAIN s : x[c].updatedAt <= s[c].updatedAt
IsList(m) == m.type = "reply" /\ m.call.op \in ListOps
Dated(w, x, s) ==
  /\ Consistent(x, s) /\ Older(x, s)
  /\ \A i \in Positions(w) : IsList(w[i]) =>
       /\ Consistent(w[i].value, s) /\ Older(w[i].value, s)
       /\ Consistent(w[i].value, x)
       /\ \A j \in Positions(w) : IsList(w[j]) => Consistent(w[i].value, w[j].value)

-----------------------------------------------------------------------------
(***************************************************************************)
(* How they survive a change of the queues.                                *)
(***************************************************************************)

\* A call stays one when more requests, pages and chats come into being.
LEMMA CallGrows ==
  ASSUME NEW x, NEW n \in Nat, NEW p \in Nat, NEW u, NEW k \in Nat, NEW q \in Nat, NEW v,
         CallOK(x, n, p, u), n <= k, p <= q, u \subseteq v
  PROVE  CallOK(x, k, q, v)
<1>1. x.page \in 0 .. q
  BY DEF CallOK
<1>2. x.op = "send" => x.req \in 1 .. k
  BY DEF CallOK
<1> QED BY <1>1, <1>2 DEF CallOK

\* So does a message.
LEMMA MessageGrows ==
  ASSUME NEW m, NEW n \in Nat, NEW p \in Nat, NEW u, NEW k \in Nat, NEW q \in Nat, NEW v,
         MessageOK(m, n, p, u), n <= k, p <= q, u \subseteq v
  PROVE  MessageOK(m, k, q, v)
<1>1. m.type = "end" => m.req \in 1 .. k
  BY DEF MessageOK
<1>2. m.type = "reply" => CallOK(m.call, k, q, v)
  BY CallGrows DEF MessageOK
<1> QED BY <1>1, <1>2 DEF MessageOK, IsIndex

\* The calls on their way, with more of them.
LEMMA CallsJoin ==
  ASSUME NEW n \in Nat, NEW p \in Nat, NEW u, NEW k \in Nat, NEW q \in Nat, NEW v,
         n <= k, p <= q, u \subseteq v, NEW m, Calls(m, n, p, u), NEW w, NEW t,
         Joined(w, m, t), \A j \in Positions(t) : CallOK(t[j], k, q, v)
  PROVE  Calls(w, k, q, v)
<1>1. \A i \in Positions(m) : CallOK(m[i], k, q, v)
  BY CallGrows DEF Calls
<1> QED BY <1>1 DEF Calls, Joined

\* The same when the first call is taken.
LEMMA CallsRest ==
  ASSUME NEW n \in Nat, NEW p \in Nat, NEW u, NEW k \in Nat, NEW q \in Nat, NEW v,
         n <= k, p <= q, u \subseteq v, NEW m, Calls(m, n, p, u), NEW w, Rest(w, m)
  PROVE  Calls(w, k, q, v)
<1>1. \A i \in Positions(m) : CallOK(m[i], k, q, v)
  BY CallGrows DEF Calls
<1> QED BY <1>1 DEF Calls, Rest

\* The messages on their way, with more of them.
LEMMA MessagesJoin ==
  ASSUME NEW n \in Nat, NEW p \in Nat, NEW u, NEW k \in Nat, NEW q \in Nat, NEW v,
         n <= k, p <= q, u \subseteq v, NEW m, Messages(m, n, p, u), NEW w, NEW t,
         Joined(w, m, t), \A j \in Positions(t) : MessageOK(t[j], k, q, v)
  PROVE  Messages(w, k, q, v)
<1>1. \A i \in Positions(m) : MessageOK(m[i], k, q, v)
  BY MessageGrows DEF Messages
<1> QED BY <1>1 DEF Messages, Joined

\* The same when the first message is taken.
LEMMA MessagesRest ==
  ASSUME NEW n, NEW p, NEW u, NEW m, Messages(m, n, p, u), NEW w, Rest(w, m)
  PROVE  Messages(w, n, p, u)
  BY DEF Messages, Rest

\* Replies to deletions, with more messages and another index.
LEMMA DeletedJoin ==
  ASSUME NEW m, NEW s, Deleted(m, s), NEW w, NEW t, Joined(w, m, t), NEW r,
         Deleted(t, r), \A i \in Positions(m) :
           m[i].type = "reply" /\ m[i].call.op = "delete" => m[i].call.chat \notin DOMAIN r \ DOMAIN s
  PROVE  Deleted(w, r)
  BY DEF Deleted, Joined

\* The same when the first message is taken.
LEMMA DeletedRest ==
  ASSUME NEW m, NEW s, Deleted(m, s), NEW w, Rest(w, m)
  PROVE  Deleted(w, s)
  BY DEF Deleted, Rest

\* Requests: nothing new on the way, and no turn changes.
LEMMA RequestsQuiet ==
  ASSUME NEW m, NEW w, NEW t, OneRequest(m, w, t), NEW n, NEW v, NEW r,
         \/ \E xs : Joined(n, m, xs) /\ \A j \in Positions(xs) : xs[j].op # "send"
         \/ Rest(n, m),
         \A q : HasEnd(v, q) => HasEnd(w, q),
         \A c \in Chats : r[c].req = t[c].req
  PROVE  OneRequest(n, v, r)
<1>1. CASE \E xs : Joined(n, m, xs) /\ \A j \in Positions(xs) : xs[j].op # "send"
  <2>1. \A i \in Positions(n) : n[i].op = "send" => i \in Positions(m) /\ m[i] = n[i]
    BY <1>1 DEF Joined
  <2> QED BY <2>1 DEF OneRequest
<1>2. CASE Rest(n, m)
  <2>1. \A i \in Positions(n) : i + 1 \in Positions(m) /\ m[i + 1] = n[i]
    BY <1>2 DEF Rest
  <2>2. ASSUME NEW i \in Positions(n), NEW j \in Positions(n), i + 1 = j + 1 PROVE i = j
    BY <2>2 DEF Positions
  <2>3. \A i, j \in Positions(n) : n[i].op = "send" /\ n[j].op = "send" /\ n[i].req = n[j].req => i = j
    BY <2>1, <2>2 DEF OneRequest
  <2> QED BY <2>1, <2>3 DEF OneRequest
<1> QED BY <1>1, <1>2

\* A new message.
LEMMA RequestSent ==
  ASSUME NEW m, NEW w, NEW t, OneRequest(m, w, t), NEW n, NEW x, Joined(n, m, <<x>>),
         \A i \in Positions(m) : m[i].op = "send" => m[i].req # x.req,
         \A c \in Chats : t[c].req # x.req, ~HasEnd(w, x.req)
  PROVE  OneRequest(n, w, t)
<1>1. \A i \in Positions(n) : (i \in Positions(m) /\ n[i] = m[i]) \/ (i = Len(m) + 1 /\ n[i] = x)
  <2>1. Positions(<<x>>) = {1} /\ <<x>>[1] = x
    BY ShortSeq
  <2> QED BY <2>1 DEF Joined
<1>2. \A i \in Positions(m) : i # Len(m) + 1
  BY DEF Positions, Joined
<1>3. \A i, j \in Positions(n) : n[i].op = "send" /\ n[j].op = "send" /\ n[i].req = n[j].req => i = j
  BY <1>1, <1>2 DEF OneRequest
<1> QED BY <1>1, <1>3 DEF OneRequest

\* It is accepted: its turn begins.
LEMMA RequestAccepted ==
  ASSUME NEW m, NEW w, NEW t, OneRequest(m, w, t), NEW n, Rest(n, m), m[1].op = "send",
         NEW v, \A q : HasEnd(v, q) => HasEnd(w, q), NEW r, NEW d \in Chats,
         r[d].req = m[1].req, \A c \in Chats : c # d => r[c].req = t[c].req
  PROVE  OneRequest(n, v, r)
<1>1. \A i \in Positions(n) : i + 1 \in Positions(m) /\ m[i + 1] = n[i]
  BY DEF Rest
<1>2. ASSUME NEW i \in Positions(n), NEW j \in Positions(n), i + 1 = j + 1 PROVE i = j
  BY <1>2 DEF Positions
<1>3. \A i \in Positions(n) : i + 1 # 1
  BY DEF Positions
<1>4. 1 \in Positions(m)
  BY DEF Rest
<1>5. \A i, j \in Positions(n) : n[i].op = "send" /\ n[j].op = "send" /\ n[i].req = n[j].req => i = j
  BY <1>1, <1>2 DEF OneRequest
<1>6. \A i \in Positions(n) : n[i].op = "send" =>
        /\ \A c \in Chats : r[c].req # n[i].req
        /\ ~HasEnd(v, n[i].req)
  BY <1>1, <1>3, <1>4 DEF OneRequest
<1>7. \A c, e \in Chats : r[c].req = r[e].req /\ r[c].req # NoReq => c = e
  BY <1>4 DEF OneRequest
<1>8. \A c \in Chats : r[c].req # NoReq => ~HasEnd(v, r[c].req)
  BY <1>4 DEF OneRequest
<1> QED BY <1>5, <1>6, <1>7, <1>8 DEF OneRequest

\* Its turn ends.
LEMMA RequestEnds ==
  ASSUME NEW m, NEW w, NEW t, OneRequest(m, w, t), NEW d \in Chats, t[d].req # NoReq,
         NEW v, \A q : HasEnd(v, q) => HasEnd(w, q) \/ q = t[d].req, NEW r,
         r[d].req = NoReq, \A c \in Chats : c # d => r[c].req = t[c].req,
         \A i \in Positions(m) : m[i].op = "send" => m[i].req # NoReq
  PROVE  OneRequest(m, v, r)
  BY DEF OneRequest

\* Adding nothing.
LEMMA JoinedSame ==
  ASSUME NEW s, IsSeq(s)
  PROVE  Joined(s, s, <<>>)
<1>1. Positions(<<>>) = {}
  BY ShortSeq
<1>2. Len(s) \in Nat
  BY SeqLen
<1> QED BY <1>1, <1>2 DEF Joined

\* A turn the window knows of or will hear of, with more messages that accept nothing.
LEMMA HearsJoined ==
  ASSUME NEW f, NEW r, NEW w, NEW c, NEW p, Hears(f, r, w, c, p), NEW v, NEW ms, Joined(v, w, ms),
         NoAccept(ms, c, p)
  PROVE  Hears(f, r, v, c, p)
  BY JoinedLastAccept, JoinedNoAccept DEF Hears

\* The same when a message that accepts nothing is taken.
LEMMA HearsRest ==
  ASSUME NEW f, NEW r, NEW w, NEW c, NEW p, Hears(f, r, w, c, p), NEW v, Rest(v, w),
         ~Accepts(w[1], c, p)
  PROVE  Hears(f, r, v, c, p)
  BY RestLastAccept, RestNoAccept DEF Hears

\* The list: requests stay, the titles of the index stay.
LEMMA FollowsJoin ==
  ASSUME NEW m, NEW w, NEW p, NEW x, NEW s, Follows(m, w, p, x, s), NEW n, NEW v, NEW r, NEW ms,
         \A i \in Positions(m) : m[i].op \in ListOps /\ m[i].page = p =>
           \E j \in Positions(n) : n[j].op \in ListOps /\ n[j].page = p,
         Joined(v, w, ms), NoList(ms, p),
         DOMAIN r = DOMAIN s, \A c \in DOMAIN s : r[c].title = s[c].title
  PROVE  Follows(n, v, p, x, r)
<1>1. \A y : Agree(y, s) => Agree(y, r)
  BY DEF Agree
<1>2. LastList(w, p, s) => LastList(v, p, r)
  <2>1. LastList(w, p, s) => LastList(v, p, s)
    BY JoinedLastList
  <2>2. LastList(v, p, s) => LastList(v, p, r)
    BY <1>1 DEF LastList
  <2> QED BY <2>1, <2>2
<1>3. NoList(w, p) => NoList(v, p)
  BY JoinedNoList
<1>4. (\E i \in Positions(w) : w[i].type = "listChanged") =>
        \E i \in Positions(v) : v[i].type = "listChanged"
  BY DEF Joined
<1> QED BY <1>1, <1>2, <1>3, <1>4 DEF Follows

\* The head that is taken is no list and says nothing of one.
LEMMA FollowsRest ==
  ASSUME NEW m, NEW w, NEW p, NEW x, NEW s, Follows(m, w, p, x, s), NEW n, NEW v,
         \A i \in Positions(m) : m[i].op \in ListOps /\ m[i].page = p =>
           \E j \in Positions(n) : n[j].op \in ListOps /\ n[j].page = p,
         Rest(v, w), ~Lists(w[1], p), w[1].type # "listChanged"
  PROVE  Follows(n, v, p, x, s)
<1>1. LastList(w, p, s) => LastList(v, p, s)
  BY RestLastList
<1>2. NoList(w, p) => NoList(v, p)
  BY RestNoList
<1>3. (\E i \in Positions(w) : w[i].type = "listChanged") =>
        \E i \in Positions(v) : v[i].type = "listChanged"
  BY DEF Rest
<1> QED BY <1>1, <1>2, <1>3 DEF Follows

\* A later state of the index: what changed has a later time.
Newer(r, s) == \A c \in DOMAIN r \cap DOMAIN s : r[c] = s[c] \/ r[c].updatedAt > s[c].updatedAt

\* An old state of the index agrees with a newer one: titles change with their time
\* stamps, and a deleted chat does not come back.
LEMMA NewerIsConsistent ==
  ASSUME NEW u, NEW s, NEW r, NEW x, IsIndex(x, u), IsIndex(s, u), r \in [DOMAIN r -> Metas],
         Consistent(x, s), Older(x, s), Newer(r, s), DOMAIN r \cap u \subseteq DOMAIN s
  PROVE  Consistent(x, r) /\ Older(x, r)
<1> SUFFICES ASSUME NEW c \in DOMAIN x \cap DOMAIN r
             PROVE  /\ x[c].updatedAt = r[c].updatedAt => x[c].title = r[c].title
                    /\ x[c].updatedAt <= r[c].updatedAt
  BY DEF Consistent, Older
<1>1. c \in DOMAIN s /\ c \in DOMAIN x /\ c \in DOMAIN r
  BY DEF IsIndex
<1>2. x[c] \in Metas /\ s[c] \in Metas /\ r[c] \in Metas
  BY <1>1 DEF IsIndex
<1>3. x[c].updatedAt \in Nat /\ s[c].updatedAt \in Nat /\ r[c].updatedAt \in Nat
  BY <1>2 DEF Metas
<1>4. /\ x[c].updatedAt = s[c].updatedAt => x[c].title = s[c].title
      /\ x[c].updatedAt <= s[c].updatedAt
  BY <1>1 DEF Consistent, Older
<1>5. r[c] = s[c] \/ r[c].updatedAt > s[c].updatedAt
  BY <1>1 DEF Newer
<1> QED BY <1>3, <1>4, <1>5

\* All lists agree with a newer index.
LEMMA DatedNewer ==
  ASSUME NEW u, NEW w, NEW x, NEW s, NEW r, Dated(w, x, s),
         IsIndex(x, u), IsIndex(s, u), r \in [DOMAIN r -> Metas],
         \A i \in Positions(w) : IsList(w[i]) => IsIndex(w[i].value, u),
         Newer(r, s), DOMAIN r \cap u \subseteq DOMAIN s
  PROVE  Dated(w, x, r)
<1>1. Consistent(x, r) /\ Older(x, r)
  BY NewerIsConsistent DEF Dated
<1>2. ASSUME NEW i \in Positions(w), IsList(w[i])
      PROVE  Consistent(w[i].value, r) /\ Older(w[i].value, r)
  BY <1>2, NewerIsConsistent DEF Dated
<1> QED BY <1>1, <1>2 DEF Dated

\* A part of what was on the way.
LEMMA DatedFewer ==
  ASSUME NEW w, NEW x, NEW s, Dated(w, x, s), NEW v,
         \A i \in Positions(v) : IsList(v[i]) => \E j \in Positions(w) : v[i] = w[j]
  PROVE  Dated(v, x, s)
<1>1. \A i \in Positions(v) : IsList(v[i]) => \E j \in Positions(w) : IsList(w[j]) /\ v[i] = w[j]
  OBVIOUS
<1> QED BY <1>1 DEF Dated

\* The index itself goes on the way.
LEMMA DatedListed ==
  ASSUME NEW u, NEW w, NEW x, NEW s, Dated(w, x, s), IsIndex(s, u), NEW v,
         \A i \in Positions(v) : IsList(v[i]) =>
           v[i].value = s \/ \E j \in Positions(w) : v[i] = w[j]
  PROVE  Dated(v, x, s)
<1>1. Consistent(s, s) /\ Older(s, s)
  <2>1. \A c \in DOMAIN s : s[c].updatedAt <= s[c].updatedAt
    <3>1. \A c \in DOMAIN s : s[c].updatedAt \in Nat
      BY DEF IsIndex, Metas
    <3> QED BY <3>1
  <2> QED BY <2>1 DEF Consistent, Older
<1>2. \A i \in Positions(v) : IsList(v[i]) =>
        v[i].value = s \/ \E j \in Positions(w) : IsList(w[j]) /\ v[i] = w[j]
  OBVIOUS
<1>3. \A y, z : Consistent(y, z) => Consistent(z, y)
  BY DEF Consistent
<1>4. Consistent(x, s) /\ Older(x, s)
  BY DEF Dated
<1>5. ASSUME NEW i \in Positions(v), IsList(v[i])
      PROVE  /\ Consistent(v[i].value, s) /\ Older(v[i].value, s)
             /\ Consistent(v[i].value, x)
  BY <1>1, <1>2, <1>3, <1>4, <1>5 DEF Dated
<1>6. ASSUME NEW i \in Positions(v), IsList(v[i]), NEW j \in Positions(v), IsList(v[j])
      PROVE  Consistent(v[i].value, v[j].value)
  <2>1. CASE v[i].value = s
    BY <1>3, <1>5, <1>6, <2>1
  <2>2. CASE v[j].value = s
    BY <1>5, <1>6, <2>2
  <2>3. CASE v[i].value # s /\ v[j].value # s
    BY <1>2, <1>6, <2>3 DEF Dated
  <2> QED BY <2>1, <2>2, <2>3
<1> QED BY <1>4, <1>5, <1>6 DEF Dated

\* A list that came is the one on display.
LEMMA DatedShown ==
  ASSUME NEW w, NEW x, NEW s, Dated(w, x, s), NEW k \in Positions(w), IsList(w[k])
  PROVE  Dated(w, w[k].value, s)
<1>1. Consistent(w[k].value, s) /\ Older(w[k].value, s)
  BY DEF Dated
<1> QED BY <1>1 DEF Dated

-----------------------------------------------------------------------------

\* Requests, pages and chats are those that there were; the queues and the
\* turns speak of no others.
Shapes ==
  /\ page \in Nat /\ sent \in Nat /\ used \subseteq Chats
  /\ inflight \in [Chats -> Nat]
  /\ IsIndex(store, used) /\ IsIndex(chats, used)
  /\ Calls(toMain, sent, page, used)
  /\ Messages(toWindow, sent, page, used)
  /\ TurnsOK(turn, sent, page, used)
  /\ \A x \in deleting : CallOK(x, sent, page, used) /\ x.op = "delete"

\* The relation of both sides and both queues that every step preserves.
WInv ==
  /\ Shapes
  /\ Deleted(toWindow, store)
  /\ OneRequest(toMain, toWindow, turn)
  /\ Blocked(inflight, turn, toWindow)
  /\ Followed(toWindow, turn)
  /\ Told(store, turn, page, inflight, toWindow)
  /\ Follows(toMain, toWindow, page, chats, store)
  /\ Dated(toWindow, chats, store)

\* A message that is neither a list, nor the start or end of a turn, nor the
\* end of a chat.
Harmless(m) ==
  \/ m.type = "stream"
  \/ /\ m.type = "reply" /\ m.call.op \notin ListOps /\ m.call.op # "delete"
     /\ m.call.op = "send" => ~m.ok

\* Harmless messages touch none of the relations.
LEMMA HarmlessIs ==
  ASSUME NEW ms, \A j \in Positions(ms) : Harmless(ms[j])
  PROVE  /\ \A r : ~HasEnd(ms, r)
         /\ \A c, p : NoAccept(ms, c, p)
         /\ \A p : NoList(ms, p)
         /\ \A t : Followed(ms, t)
         /\ \A s : Deleted(ms, s)
         /\ \A j \in Positions(ms) : ~IsList(ms[j])
<1>1. \A r : ~HasEnd(ms, r)
  BY DEF HasEnd, Harmless
<1>2. \A c, p : NoAccept(ms, c, p)
  BY DEF NoAccept, Accepts, Harmless
<1>3. \A p : NoList(ms, p)
  BY DEF NoList, Lists, Harmless
<1>4. \A t : Followed(ms, t)
  BY DEF Followed, Harmless
<1>5. \A s : Deleted(ms, s)
  BY DEF Deleted, Harmless
<1>6. \A j \in Positions(ms) : ~IsList(ms[j])
  BY DEF IsList, Harmless
<1> QED BY <1>1, <1>2, <1>3, <1>4, <1>5, <1>6

\* A step that tells the window harmless things only, and takes or sends a call that is
\* neither a list nor a message.
LEMMA QuietStep ==
  ASSUME WInv,
         UNCHANGED <<page, sent, inflight, used, store, chats>>,
         \/ \E xs : /\ Joined(toMain', toMain, xs)
                    /\ \A j \in Positions(xs) : CallOK(xs[j], sent, page, used) /\ xs[j].op # "send"
         \/ Rest(toMain', toMain) /\ ~(toMain[1].op \in ListOps /\ toMain[1].page = page),
         NEW ms, Joined(toWindow', toWindow, ms),
         \A j \in Positions(ms) : MessageOK(ms[j], sent, page, used) /\ Harmless(ms[j]),
         TurnsOK(turn', sent, page, used),
         \A c \in Chats : turn'[c].req = turn[c].req /\ turn'[c].page = turn[c].page,
         \A x \in deleting' : CallOK(x, sent, page, used) /\ x.op = "delete"
  PROVE  WInv'
<1> USE DEF WInv, Shapes
<1>h. /\ \A r : ~HasEnd(ms, r)
      /\ \A c, p : NoAccept(ms, c, p)
      /\ \A p : NoList(ms, p)
      /\ \A t : Followed(ms, t)
      /\ \A s : Deleted(ms, s)
      /\ \A j \in Positions(ms) : ~IsList(ms[j])
  BY HarmlessIs
<1>e. \A r : HasEnd(toWindow', r) <=> HasEnd(toWindow, r)
  BY <1>h, JoinedEnd
<1>1. Calls(toMain', sent, page, used)
  <2>0. sent <= sent /\ page <= page /\ used \subseteq used
    OBVIOUS
  <2>1. CASE \E xs : /\ Joined(toMain', toMain, xs)
                     /\ \A j \in Positions(xs) : CallOK(xs[j], sent, page, used)
    BY <2>0, <2>1, CallsJoin
  <2>2. CASE Rest(toMain', toMain)
    BY <2>0, <2>2, CallsRest
  <2> QED BY <2>1, <2>2
<1>2. Messages(toWindow', sent, page, used)
  <2>0. sent <= sent /\ page <= page /\ used \subseteq used
    OBVIOUS
  <2> QED BY <2>0, MessagesJoin
<1>3. Deleted(toWindow', store)
  BY <1>h, DeletedJoin
<1>4. OneRequest(toMain', toWindow', turn')
  BY <1>e, RequestsQuiet
<1>5. Blocked(inflight, turn', toWindow')
  BY <1>e DEF Blocked
<1>6. Followed(toWindow', turn')
  <2>1. \A i \in Positions(toWindow) :
          /\ toWindow[i].type = "reply" /\ toWindow[i].call.op = "send" /\ toWindow[i].ok
          /\ turn[toWindow[i].call.chat].req = toWindow[i].call.req
          => turn'[toWindow[i].call.chat].req = toWindow[i].call.req
    BY DEF Messages, MessageOK, CallOK
  <2> QED BY <2>1, <1>h, JoinedFollowed
<1>7. Told(store, turn', page, inflight, toWindow')
  <2> SUFFICES ASSUME NEW c \in DOMAIN store, turn'[c].req # NoReq, turn'[c].page = page
               PROVE  Hears(inflight, turn'[c].req, toWindow', c, page)
    BY DEF Told
  <2>1. c \in Chats
    BY DEF IsIndex
  <2>2. Hears(inflight, turn[c].req, toWindow, c, page)
    BY <2>1 DEF Told
  <2> QED BY <1>h, <2>1, <2>2, HearsJoined
<1>8. Follows(toMain', toWindow', page, chats, store)
  <2>1. \A i \in Positions(toMain) : toMain[i].op \in ListOps /\ toMain[i].page = page =>
           \E j \in Positions(toMain') : toMain'[j].op \in ListOps /\ toMain'[j].page = page
    <3>1. CASE \E xs : Joined(toMain', toMain, xs)
      BY <3>1 DEF Joined
    <3>2. CASE Rest(toMain', toMain) /\ ~(toMain[1].op \in ListOps /\ toMain[1].page = page)
      BY <3>2 DEF Rest
    <3> QED BY <3>1, <3>2
  <2> QED BY <1>h, <2>1, FollowsJoin
<1>9. Dated(toWindow', chats, store)
  <2>1. \A i \in Positions(toWindow') : IsList(toWindow'[i]) =>
          \E j \in Positions(toWindow) : toWindow'[i] = toWindow[j]
    BY <1>h DEF Joined
  <2> QED BY <2>1, DatedFewer
<1> QED BY <1>1, <1>2, <1>3, <1>4, <1>5, <1>6, <1>7, <1>8, <1>9

\* The window takes a message that is no end, no list of its page and no acceptance;
\* if it is word of a change it asks for the list.
LEMMA ReceiveStep ==
  ASSUME WInv,
         UNCHANGED <<page, sent, inflight, used, store, chats, turn, deleting>>,
         NEW xs, Joined(toMain', toMain, xs),
         \A j \in Positions(xs) : CallOK(xs[j], sent, page, used) /\ xs[j].op # "send",
         Rest(toWindow', toWindow), toWindow[1].type # "end",
         ~Lists(toWindow[1], page), \A c : ~Accepts(toWindow[1], c, page),
         toWindow[1].type = "listChanged" =>
           \E j \in Positions(xs) : xs[j].op \in ListOps /\ xs[j].page = page
  PROVE  WInv'
<1> USE DEF WInv, Shapes
<1>0. sent <= sent /\ page <= page /\ used \subseteq used
  OBVIOUS
<1>1. Calls(toMain', sent, page, used)
  BY <1>0, CallsJoin
<1>2. Messages(toWindow', sent, page, used)
  BY MessagesRest
<1>3. Deleted(toWindow', store)
  BY DeletedRest
<1>e. \A r : HasEnd(toWindow', r) <=> HasEnd(toWindow, r)
  BY RestEnd
<1>4. OneRequest(toMain', toWindow', turn)
  BY <1>e, RequestsQuiet
<1>5. Blocked(inflight, turn, toWindow')
  BY <1>e DEF Blocked
<1>6. Followed(toWindow', turn)
  BY RestFollowed
<1>7. Told(store, turn, page, inflight, toWindow')
  <2> SUFFICES ASSUME NEW c \in DOMAIN store, turn[c].req # NoReq, turn[c].page = page
               PROVE  Hears(inflight, turn[c].req, toWindow', c, page)
    BY DEF Told
  <2>2. Hears(inflight, turn[c].req, toWindow, c, page)
    BY DEF Told
  <2> QED BY <2>2, HearsRest
<1>8. Follows(toMain', toWindow', page, chats, store)
  <2>1. \A i \in Positions(toMain) : toMain[i].op \in ListOps /\ toMain[i].page = page =>
           \E j \in Positions(toMain') : toMain'[j].op \in ListOps /\ toMain'[j].page = page
    BY DEF Joined
  <2>2. CASE toWindow[1].type = "listChanged"
    <3>1. \E j \in Positions(toMain') : toMain'[j].op \in ListOps /\ toMain'[j].page = page
      BY <2>2 DEF Joined
    <3> QED BY <3>1 DEF Follows
  <2>3. CASE toWindow[1].type # "listChanged"
    BY <2>1, <2>3, FollowsRest
  <2> QED BY <2>2, <2>3
<1>9. Dated(toWindow', chats, store)
  <2>1. \A i \in Positions(toWindow') : \E j \in Positions(toWindow) : toWindow'[i] = toWindow[j]
    BY DEF Rest
  <2> QED BY <2>1, DatedFewer
<1> QED BY <1>1, <1>2, <1>3, <1>4, <1>5, <1>6, <1>7, <1>8, <1>9

\* The end of a turn, the start of one, or a chat that is gone.
LEMMA TurnStep ==
  ASSUME WInv,
         UNCHANGED <<page, sent, used, store, chats, turn, deleting, toMain>>,
         inflight' \in [Chats -> Nat],
         Rest(toWindow', toWindow), ~IsList(toWindow[1]), toWindow[1].type # "listChanged",
         Blocked(inflight', turn, toWindow'),
         Told(store, turn, page, inflight', toWindow')
  PROVE  WInv'
<1> USE DEF WInv, Shapes
<1>2. Messages(toWindow', sent, page, used)
  BY MessagesRest
<1>3. Deleted(toWindow', store)
  BY DeletedRest
<1>e. \A r : HasEnd(toWindow', r) => HasEnd(toWindow, r)
  BY RestEnd
<1>m. IsSeq(toMain)
  BY DEF Calls
<1>4. OneRequest(toMain, toWindow', turn)
  <2>1. Joined(toMain, toMain, <<>>) /\ \A j \in Positions(<<>>) : <<>>[j].op # "send"
    BY <1>m, JoinedSame, ShortSeq
  <2> QED BY <1>e, <2>1, RequestsQuiet
<1>6. Followed(toWindow', turn)
  BY RestFollowed
<1>8. Follows(toMain, toWindow', page, chats, store)
  <2>1. ~Lists(toWindow[1], page)
    BY DEF IsList, Lists
  <2> QED BY <2>1, FollowsRest
<1>9. Dated(toWindow', chats, store)
  <2>1. \A i \in Positions(toWindow') : \E j \in Positions(toWindow) : toWindow'[i] = toWindow[j]
    BY DEF Rest
  <2> QED BY <2>1, DatedFewer
<1> QED BY <1>2, <1>3, <1>4, <1>6, <1>8, <1>9

\* markEnded: the chat that waited for the request no longer does.
LEMMA EndStep ==
  ASSUME WInv, NEW m, m = toWindow[1], OnEnd(m), Rest(toWindow', toWindow),
         UNCHANGED <<page, sent, used, store, turn, deleting>>
  PROVE  WInv'
<1> USE DEF WInv, Shapes
<1>1. m.type = "end" /\ UNCHANGED <<chats, toMain>>
  BY DEF OnEnd
<1>2. inflight' = [c \in Chats |-> IF inflight[c] = m.req THEN NoReq ELSE inflight[c]]
  BY DEF OnEnd, ChatOf
<1>3. inflight' \in [Chats -> Nat]
  BY <1>2 DEF NoReq
<1>4. HasEnd(toWindow, m.req)
  BY <1>1 DEF Rest, HasEnd
<1>5. Blocked(inflight', turn, toWindow')
  <2> SUFFICES ASSUME NEW c \in Chats, inflight'[c] # NoReq
               PROVE  turn[c].req = inflight'[c] \/ HasEnd(toWindow', inflight'[c])
    BY DEF Blocked
  <2>1. inflight'[c] = inflight[c] /\ inflight[c] # m.req
    BY <1>2
  <2>2. turn[c].req = inflight[c] \/ HasEnd(toWindow, inflight[c])
    BY <2>1 DEF Blocked
  <2> QED BY <2>1, <2>2, RestEnd
<1>6. Told(store, turn, page, inflight', toWindow')
  <2> SUFFICES ASSUME NEW c \in DOMAIN store, turn[c].req # NoReq, turn[c].page = page
               PROVE  Hears(inflight', turn[c].req, toWindow', c, page)
    BY DEF Told
  <2>1. c \in Chats
    BY DEF IsIndex
  <2>2. turn[c].req # m.req
    BY <1>4, <2>1 DEF OneRequest
  <2>3. ~Accepts(toWindow[1], c, page)
    BY <1>1 DEF Accepts
  <2>4. Hears(inflight, turn[c].req, toWindow', c, page)
    BY <2>3, HearsRest DEF Told
  <2> QED BY <1>2, <2>1, <2>2, <2>4 DEF Hears
<1> QED BY <1>1, <1>3, <1>5, <1>6, TurnStep DEF IsList

\* send was accepted: the chat waits for a turn that runs, or whose end is still in the
\* queue.
LEMMA StartStep ==
  ASSUME WInv, NEW m, m = toWindow[1], m.type = "reply", m.call.page = page, GotSent(m.call, m), m.ok,
         Rest(toWindow', toWindow),
         UNCHANGED <<page, sent, used, store, turn, deleting>>
  PROVE  WInv'
<1> USE DEF WInv, Shapes
<1> DEFINE d == m.call.chat
<1>1. m.call.op = "send" /\ UNCHANGED <<chats, toMain>>
      /\ inflight' = [inflight EXCEPT ![d] = m.call.req]
  BY DEF GotSent
<1>2. MessageOK(m, sent, page, used)
  BY DEF Messages, Rest
<1>3. d \in Chats /\ m.call.req \in Nat
  BY <1>1, <1>2 DEF MessageOK, CallOK
<1>4. inflight' \in [Chats -> Nat] /\ inflight'[d] = m.call.req
      /\ \A c \in Chats : c # d => inflight'[c] = inflight[c]
  BY <1>1, <1>3
<1>5. Blocked(inflight', turn, toWindow')
  <2> SUFFICES ASSUME NEW c \in Chats, inflight'[c] # NoReq
               PROVE  turn[c].req = inflight'[c] \/ HasEnd(toWindow', inflight'[c])
    BY DEF Blocked
  <2>1. CASE c = d
    BY <1>1, <1>4, <2>1, RestFollowed
  <2>2. CASE c # d
    <3>1. inflight'[c] = inflight[c] /\ inflight[c] # NoReq
      BY <1>4, <2>2
    <3>2. turn[c].req = inflight[c] \/ HasEnd(toWindow, inflight[c])
      BY <3>1 DEF Blocked
    <3> QED BY <3>1, <3>2, RestEnd
  <2> QED BY <2>1, <2>2
<1>6. Told(store, turn, page, inflight', toWindow')
  <2> SUFFICES ASSUME NEW c \in DOMAIN store, turn[c].req # NoReq, turn[c].page = page
               PROVE  Hears(inflight', turn[c].req, toWindow', c, page)
    BY DEF Told
  <2>1. c \in Chats /\ Hears(inflight, turn[c].req, toWindow, c, page)
    BY DEF IsIndex, Told
  <2>2. CASE c = d
    <3>1. Accepts(m, c, page) /\ 1 \in Positions(toWindow)
      BY <1>1, <2>2 DEF Accepts, Rest
    <3>2. LastAccept(toWindow, c, turn[c].req, page)
      BY <2>1, <3>1 DEF Hears, NoAccept
    <3>3. \/ LastAccept(toWindow', c, turn[c].req, page)
          \/ m.call.req = turn[c].req /\ NoAccept(toWindow', c, page)
      BY <3>2, RestLastAccept
    <3> QED BY <1>4, <2>2, <3>3 DEF Hears
  <2>3. CASE c # d
    <3>1. ~Accepts(toWindow[1], c, page)
      BY <2>3 DEF Accepts
    <3>2. Hears(inflight, turn[c].req, toWindow', c, page)
      BY <2>1, <3>1, HearsRest
    <3> QED BY <1>4, <2>1, <2>3, <3>2 DEF Hears
  <2> QED BY <2>2, <2>3
<1>7. ~IsList(m)
  BY <1>1 DEF IsList, ListOps
<1> QED BY <1>1, <1>4, <1>5, <1>6, <1>7, TurnStep

\* delete is done: the chat is gone and its turn with it.
LEMMA GoneStep ==
  ASSUME WInv, NEW m, m = toWindow[1], m.type = "reply", GotDeleted(m.call, m),
         Rest(toWindow', toWindow),
         UNCHANGED <<page, sent, used, store, turn, deleting>>
  PROVE  WInv'
<1> USE DEF WInv, Shapes
<1> DEFINE d == m.call.chat
<1>1. m.call.op = "delete" /\ UNCHANGED <<chats, toMain>>
      /\ inflight' = [inflight EXCEPT ![d] = NoReq]
  BY DEF GotDeleted
<1>2. d \notin DOMAIN store /\ d \in Chats
  <2>1. 1 \in Positions(toWindow)
    BY DEF Rest
  <2>2. MessageOK(m, sent, page, used)
    BY <2>1 DEF Messages
  <2> QED BY <1>1, <2>1, <2>2 DEF Deleted, MessageOK, CallOK
<1>4. inflight' \in [Chats -> Nat] /\ inflight'[d] = NoReq
      /\ \A c \in Chats : c # d => inflight'[c] = inflight[c]
  BY <1>1, <1>2 DEF NoReq
<1>e. \A r : HasEnd(toWindow, r) => HasEnd(toWindow', r)
  BY RestEnd
<1>5. Blocked(inflight', turn, toWindow')
  <2> SUFFICES ASSUME NEW c \in Chats, inflight'[c] # NoReq
               PROVE  turn[c].req = inflight'[c] \/ HasEnd(toWindow', inflight'[c])
    BY DEF Blocked
  <2>1. inflight'[c] = inflight[c] /\ inflight[c] # NoReq
    BY <1>4
  <2> QED BY <1>e, <2>1 DEF Blocked
<1>6. Told(store, turn, page, inflight', toWindow')
  <2> SUFFICES ASSUME NEW c \in DOMAIN store, turn[c].req # NoReq, turn[c].page = page
               PROVE  Hears(inflight', turn[c].req, toWindow', c, page)
    BY DEF Told
  <2>1. c \in Chats /\ c # d /\ Hears(inflight, turn[c].req, toWindow, c, page)
    BY <1>2 DEF IsIndex, Told
  <2>2. ~Accepts(toWindow[1], c, page)
    BY <1>1 DEF Accepts
  <2>3. Hears(inflight, turn[c].req, toWindow', c, page)
    BY <2>1, <2>2, HearsRest
  <2> QED BY <1>4, <2>1, <2>3 DEF Hears
<1>7. ~IsList(m)
  BY <1>1 DEF IsList, ListOps
<1> QED BY <1>1, <1>4, <1>5, <1>6, <1>7, TurnStep

\* The queue to the main process after one call or none.
LEMMA OneCall ==
  ASSUME NEW x, IsSeq(toMain)
  PROVE  /\ Call(x) => Joined(toMain', toMain, <<x>>)
         /\ UNCHANGED toMain => Joined(toMain', toMain, <<>>)
         /\ Positions(<<x>>) = {1} /\ <<x>>[1] = x /\ Positions(<<>>) = {}
<1>1. Call(x) => Joined(toMain', toMain, <<x>>)
  BY AppendJoins DEF Call
<1>2. UNCHANGED toMain => Joined(toMain', toMain, <<>>)
  BY JoinedSame
<1>3. Positions(<<x>>) = {1} /\ <<x>>[1] = x /\ Positions(<<>>) = {}
  BY ShortSeq
<1> QED BY <1>1, <1>2, <1>3

\* loadChatList: the list that came is set, or is the one on display already.
LEMMA ListStep ==
  ASSUME WInv, NEW m, m = toWindow[1], m.type = "reply", m.call.page = page, GotList(m.call, m),
         Rest(toWindow', toWindow),
         UNCHANGED <<page, sent, inflight, used, store, turn, deleting>>
  PROVE  WInv'
<1> USE DEF WInv, Shapes
<1>1. Lists(m, page) /\ IsList(m) /\ m.call.op \in {"list", "listThen"}
  BY DEF GotList, Lists, IsList, ListOps
<1>p. 1 \in Positions(toWindow)
  BY DEF Rest
<1>2. MessageOK(m, sent, page, used) /\ IsIndex(m.value, used)
  <2>1. MessageOK(m, sent, page, used)
    BY <1>p DEF Messages
  <2> QED BY <1>1, <2>1 DEF MessageOK, IsList
<1>3. chats' = (IF SameList(m.value) THEN chats ELSE m.value)
  BY DEF GotList
<1>4. IsIndex(chats', used)
  BY <1>2, <1>3
<1>s. IsSeq(toMain)
  BY DEF Calls
<1>0. sent <= sent /\ page <= page /\ used \subseteq used
  OBVIOUS
<1>5. \E xs : /\ Joined(toMain', toMain, xs)
              /\ \A j \in Positions(xs) : CallOK(xs[j], sent, page, used) /\ xs[j].op # "send"
  <2> DEFINE x == [op |-> "load", page |-> page, chat |-> m.call.chat]
  <2>1. Call(x) \/ UNCHANGED toMain
    BY DEF GotList
  <2>2. CallOK(x, sent, page, used) /\ x.op # "send"
    BY DEF CallOK, Ops
  <2> HIDE DEF x
  <2>3. CASE Call(x)
    <3>1. Joined(toMain', toMain, <<x>>) /\ Positions(<<x>>) = {1} /\ <<x>>[1] = x
      BY <1>s, <2>3, OneCall
    <3> QED BY <2>2, <3>1
  <2>4. CASE UNCHANGED toMain
    <3>1. Joined(toMain', toMain, <<>>) /\ Positions(<<>>) = {}
      BY <1>s, <2>4, OneCall
    <3> QED BY <3>1
  <2> QED BY <2>1, <2>3, <2>4
<1> PICK xs : /\ Joined(toMain', toMain, xs)
              /\ \A j \in Positions(xs) : CallOK(xs[j], sent, page, used) /\ xs[j].op # "send"
  BY <1>5
<1>6. Calls(toMain', sent, page, used)
  BY <1>0, CallsJoin
<1>7. Messages(toWindow', sent, page, used)
  BY MessagesRest
<1>8. Deleted(toWindow', store)
  BY DeletedRest
<1>e. \A r : HasEnd(toWindow', r) <=> HasEnd(toWindow, r)
  BY <1>1, RestEnd DEF IsList
<1>9. OneRequest(toMain', toWindow', turn)
  BY <1>e, RequestsQuiet
<1>10. Blocked(inflight, turn, toWindow')
  BY <1>e DEF Blocked
<1>11. Followed(toWindow', turn)
  BY RestFollowed
<1>12. Told(store, turn, page, inflight, toWindow')
  <2> SUFFICES ASSUME NEW c \in DOMAIN store, turn[c].req # NoReq, turn[c].page = page
               PROVE  Hears(inflight, turn[c].req, toWindow', c, page)
    BY DEF Told
  <2>1. Hears(inflight, turn[c].req, toWindow, c, page)
    BY DEF Told
  <2>2. ~Accepts(toWindow[1], c, page)
    BY <1>1 DEF Accepts
  <2> QED BY <2>1, <2>2, HearsRest
<1>c. Consistent(m.value, chats)
  BY <1>1, <1>p DEF Dated
<1>13. Follows(toMain', toWindow', page, chats', store)
  <2>1. CASE \E i \in Positions(toMain) : toMain[i].op \in ListOps /\ toMain[i].page = page
    <3>1. \E i \in Positions(toMain') : toMain'[i].op \in ListOps /\ toMain'[i].page = page
      BY <2>1 DEF Joined
    <3> QED BY <3>1 DEF Follows
  <2>2. CASE \E i \in Positions(toWindow) : toWindow[i].type = "listChanged"
    <3>1. \E i \in Positions(toWindow') : toWindow'[i].type = "listChanged"
      BY <1>1, <2>2 DEF Rest, IsList
    <3> QED BY <3>1 DEF Follows
  <2>3. CASE LastList(toWindow, page, store)
    <3>1. \/ LastList(toWindow', page, store)
          \/ Agree(m.value, store) /\ NoList(toWindow', page)
      BY <2>3, RestLastList
    <3>2. ASSUME Agree(m.value, store) PROVE Agree(chats', store)
      <4>1. CASE SameList(m.value)
        <5>1. DOMAIN chats = DOMAIN m.value
              /\ \A c \in DOMAIN m.value : chats[c].updatedAt = m.value[c].updatedAt
          BY <4>1 DEF SameList
        <5>2. \A c \in DOMAIN m.value : chats[c].title = m.value[c].title
          BY <1>c, <5>1 DEF Consistent
        <5> QED BY <1>3, <3>2, <4>1, <5>1, <5>2 DEF Agree
      <4>2. CASE ~SameList(m.value)
        BY <1>3, <3>2, <4>2
      <4> QED BY <4>1, <4>2
    <3> QED BY <3>1, <3>2 DEF Follows
  <2>4. CASE NoList(toWindow, page)
    BY <1>1, <1>p, <2>4 DEF NoList
  <2> QED BY <2>1, <2>2, <2>3, <2>4 DEF Follows
<1>14. Dated(toWindow', chats', store)
  <2>1. Dated(toWindow, chats', store)
    BY <1>1, <1>3, <1>p, DatedShown
  <2>2. \A i \in Positions(toWindow') : \E j \in Positions(toWindow) : toWindow'[i] = toWindow[j]
    BY DEF Rest
  <2> QED BY <2>1, <2>2, DatedFewer
<1> QED BY <1>4, <1>6, <1>7, <1>8, <1>9, <1>10, <1>11, <1>12, <1>13, <1>14

\* Whatever the window takes from its queue.
LEMMA ReceiveKeeps ==
  ASSUME WInv, Receive
  PROVE  WInv'
<1> DEFINE m == Head(toWindow)
<1>1. /\ toWindow # <<>> /\ toWindow' = Tail(toWindow)
      /\ OnStream(m) \/ OnEnd(m) \/ OnListChanged(m) \/ OnReply(m)
      /\ UNCHANGED <<page, sent, used, store, turn, deleting>>
  BY DEF Receive, mainVars
<1>s. IsSeq(toMain) /\ IsSeq(toWindow)
  BY DEF WInv, Shapes, Calls, Messages
<1>2. Rest(toWindow', toWindow) /\ m = toWindow[1] /\ 1 \in Positions(toWindow)
  <2>1. Rest(toWindow', toWindow) /\ m = toWindow[1]
    BY <1>1, <1>s, TailRests
  <2> QED BY <2>1 DEF Rest
<1>3. MessageOK(m, sent, page, used) /\ page \in Nat
  BY <1>2 DEF WInv, Shapes, Messages
<1>4. ASSUME UNCHANGED <<inflight, chats, toMain>>, m.type # "end", m.type # "listChanged",
             ~Lists(m, page), \A c : ~Accepts(m, c, page)
      PROVE  WInv'
  <2>1. Joined(toMain', toMain, <<>>) /\ Positions(<<>>) = {}
    BY <1>4, <1>s, OneCall
  <2> QED BY <1>1, <1>2, <1>4, <2>1, ReceiveStep
<1>5. ASSUME NEW x, Call(x), UNCHANGED <<inflight, chats>>,
             CallOK(x, sent, page, used), x.op \in ListOps, x.page = page, m.type # "end",
             ~Lists(m, page), \A c : ~Accepts(m, c, page)
      PROVE  WInv'
  <2>1. Joined(toMain', toMain, <<x>>) /\ Positions(<<x>>) = {1} /\ <<x>>[1] = x
    BY <1>5, <1>s, OneCall
  <2>2. x.op # "send"
    BY <1>5 DEF ListOps
  <2>3. \A j \in Positions(<<x>>) : CallOK(<<x>>[j], sent, page, used) /\ <<x>>[j].op # "send"
    BY <1>5, <2>1, <2>2
  <2>4. \E j \in Positions(<<x>>) : <<x>>[j].op \in ListOps /\ <<x>>[j].page = page
    BY <1>5, <2>1
  <2> QED BY <1>1, <1>2, <1>5, <2>1, <2>3, <2>4, ReceiveStep
<1> HIDE DEF m
<1>6. CASE OnStream(m)
  BY <1>4, <1>6 DEF OnStream, Lists, Accepts
<1>7. CASE OnEnd(m)
  BY <1>1, <1>2, <1>7, EndStep
<1>8. CASE OnListChanged(m)
  <2> DEFINE x == [op |-> "list", page |-> page, chat |-> NoChat]
  <2>1. Call(x) /\ UNCHANGED <<inflight, chats>> /\ m.type = "listChanged"
    BY <1>8 DEF OnListChanged
  <2>2. CallOK(x, sent, page, used) /\ x.op \in ListOps /\ x.page = page
    BY <1>3 DEF CallOK, Ops, ListOps
  <2> HIDE DEF x
  <2> QED BY <1>5, <2>1, <2>2 DEF Lists, Accepts
<1>9. CASE OnReply(m)
  <2>0. m.type = "reply"
    BY <1>9 DEF OnReply
  <2>1. CASE m.call.page # page
    BY <1>4, <1>9, <2>0, <2>1 DEF OnReply, Lists, Accepts
  <2>2. CASE m.call.page = page
    <3>1. CASE GotList(m.call, m)
      <4>1. UNCHANGED inflight
        BY <3>1 DEF GotList
      <4> QED BY <1>1, <1>2, <2>0, <2>2, <3>1, <4>1, ListStep
    <3>2. CASE GotCreated(m.call, m)
      <4> DEFINE x == [op |-> "listThen", page |-> page, chat |-> m.value]
      <4>1. Call(x) /\ UNCHANGED <<inflight, chats>> /\ m.call.op = "create"
        BY <3>2 DEF GotCreated
      <4>2. CallOK(x, sent, page, used) /\ x.op \in ListOps /\ x.page = page
        BY <1>3 DEF CallOK, Ops, ListOps
      <4> HIDE DEF x
      <4>3. ~Lists(m, page) /\ \A c : ~Accepts(m, c, page)
        BY <4>1 DEF Lists, Accepts, ListOps
      <4> QED BY <1>5, <2>0, <4>1, <4>2, <4>3
    <3>3. CASE GotHistory(m.call, m)
      BY <1>4, <2>0, <3>3 DEF GotHistory, Lists, Accepts, ListOps
    <3>4. CASE GotSent(m.call, m)
      <4>1. CASE m.ok
        BY <1>1, <1>2, <2>0, <2>2, <3>4, <4>1, StartStep
      <4>2. CASE ~m.ok
        BY <1>4, <2>0, <3>4, <4>2 DEF GotSent, Lists, Accepts, ListOps
      <4> QED BY <4>1, <4>2
    <3>5. CASE GotDeleted(m.call, m)
      BY <1>1, <1>2, <2>0, <3>5, GoneStep
    <3>6. CASE GotNothing(m.call, m)
      BY <1>4, <2>0, <3>6 DEF GotNothing, Lists, Accepts, ListOps
    <3> QED BY <1>9, <2>2, <3>1, <3>2, <3>3, <3>4, <3>5, <3>6 DEF OnReply
  <2> QED BY <2>1, <2>2
<1> QED BY <1>1, <1>6, <1>7, <1>8, <1>9

\* The queue to the window after one message.
LEMMA Told1 ==
  ASSUME NEW y, IsSeq(toWindow), ToWindow(<<y>>)
  PROVE  /\ Joined(toWindow', toWindow, <<y>>)
         /\ Positions(<<y>>) = {1} /\ <<y>>[1] = y
<1>1. IsSeq(<<y>>) /\ Positions(<<y>>) = {1} /\ <<y>>[1] = y
  BY ShortSeq
<1> QED BY <1>1, ConcatJoins DEF ToWindow

\* The queue to the window after two messages.
LEMMA Told2 ==
  ASSUME NEW y, NEW z, IsSeq(toWindow), ToWindow(<<y, z>>)
  PROVE  /\ Joined(toWindow', toWindow, <<y, z>>)
         /\ Positions(<<y, z>>) = {1, 2} /\ <<y, z>>[1] = y /\ <<y, z>>[2] = z
<1>1. IsSeq(<<y, z>>) /\ Positions(<<y, z>>) = {1, 2} /\ <<y, z>>[1] = y /\ <<y, z>>[2] = z
  BY ShortSeq
<1> QED BY <1>1, ConcatJoins DEF ToWindow

\* A call that sends nothing.
LEMMA CallStep ==
  ASSUME WInv, NEW x, Call(x), CallOK(x, sent, page, used), x.op # "send",
         UNCHANGED <<page, sent, inflight, used, store, chats, turn, deleting, toWindow>>
  PROVE  WInv'
<1> USE DEF WInv, Shapes
<1>s. IsSeq(toMain) /\ IsSeq(toWindow)
  BY DEF Calls, Messages
<1>1. Joined(toMain', toMain, <<x>>) /\ Positions(<<x>>) = {1} /\ <<x>>[1] = x
  BY <1>s, OneCall
<1>2. Joined(toWindow', toWindow, <<>>) /\ Positions(<<>>) = {}
  BY <1>s, JoinedSame, ShortSeq
<1>3. \A j \in Positions(<<x>>) : CallOK(<<x>>[j], sent, page, used) /\ <<x>>[j].op # "send"
  BY <1>1
<1> QED BY <1>1, <1>2, <1>3, QuietStep

\* send: a new request, which nothing that is on its way names.
LEMMA SendStep ==
  ASSUME WInv, NEW c \in Chats, send(c)
  PROVE  WInv'
<1> USE DEF WInv, Shapes
<1> DEFINE x == [op |-> "send", page |-> page, chat |-> c, req |-> sent + 1, was |-> Shown(c)]
<1>s. IsSeq(toMain) /\ IsSeq(toWindow)
  BY DEF Calls, Messages
<1>1. /\ sent' = sent + 1 /\ Call(x) /\ c \in DOMAIN chats
      /\ UNCHANGED <<page, chats, inflight, toWindow, store, used, deleting, turn>>
  BY DEF send, mainVars
<1>2. CallOK(x, sent + 1, page, used)
  BY <1>1 DEF CallOK, Ops, IsIndex
<1>x. x.op = "send" /\ x.req = sent + 1
  OBVIOUS
<1> HIDE DEF x
<1>3. Joined(toMain', toMain, <<x>>) /\ Positions(<<x>>) = {1} /\ <<x>>[1] = x
  BY <1>1, <1>s, OneCall
<1>4. Joined(toWindow, toWindow, <<>>) /\ Positions(<<>>) = {}
  BY <1>s, JoinedSame, ShortSeq
<1>5. sent \in Nat /\ sent + 1 \in Nat /\ sent <= sent + 1 /\ page <= page /\ used \subseteq used
  OBVIOUS
<1>6. Calls(toMain', sent + 1, page, used)
  <2>1. \A j \in Positions(<<x>>) : CallOK(<<x>>[j], sent + 1, page, used)
    BY <1>2, <1>3
  <2> QED BY <1>3, <1>5, <2>1, CallsJoin
<1>7. Messages(toWindow, sent + 1, page, used)
  <2>1. \A j \in Positions(<<>>) : MessageOK(<<>>[j], sent + 1, page, used)
    BY <1>4
  <2> QED BY <1>4, <1>5, <2>1, MessagesJoin
<1>8. TurnsOK(turn, sent + 1, page, used)
  <2>1. \A d \in Chats : turn[d].req \in Nat /\ turn[d].req <= sent
    BY DEF TurnsOK, Turns
  <2>2. \A d \in Chats : turn[d].req <= sent + 1
    BY <1>5, <2>1
  <2> QED BY <2>2 DEF TurnsOK
<1>9. \A y \in deleting : CallOK(y, sent + 1, page, used)
  BY <1>5, CallGrows
<1>10. OneRequest(toMain', toWindow, turn)
  <2>1. \A i \in Positions(toMain) : toMain[i].op = "send" => toMain[i].req # x.req
    <3>1. \A i \in Positions(toMain) : toMain[i].op = "send" => toMain[i].req \in 1 .. sent
      BY DEF Calls, CallOK
    <3> QED BY <1>5, <1>x, <3>1
  <2>2. \A d \in Chats : turn[d].req # x.req
    <3>1. \A d \in Chats : turn[d].req \in Nat /\ turn[d].req <= sent
      BY DEF TurnsOK, Turns
    <3> QED BY <1>5, <1>x, <3>1
  <2>3. ~HasEnd(toWindow, x.req)
    <3>1. \A i \in Positions(toWindow) : toWindow[i].type = "end" => toWindow[i].req \in 1 .. sent
      BY DEF Messages, MessageOK
    <3>2. \A i \in Positions(toWindow) : toWindow[i].type = "end" => toWindow[i].req # sent + 1
      BY <1>5, <3>1
    <3> QED BY <1>x, <3>2 DEF HasEnd
  <2> QED BY <1>3, <2>1, <2>2, <2>3, RequestSent
<1>11. Follows(toMain', toWindow, page, chats, store)
  <2>1. \A i \in Positions(toMain) : toMain[i].op \in ListOps /\ toMain[i].page = page =>
           \E j \in Positions(toMain') : toMain'[j].op \in ListOps /\ toMain'[j].page = page
    BY <1>3 DEF Joined
  <2> QED BY <2>1 DEF Follows
<1> QED BY <1>1, <1>5, <1>6, <1>7, <1>8, <1>9, <1>10, <1>11

\* Reload: a new page that has no list and knows of no turn, and asks for the list.
LEMMA ReloadStep ==
  ASSUME WInv, Reload
  PROVE  WInv'
<1> USE DEF WInv, Shapes
<1> DEFINE x == [op |-> "list", page |-> page + 1, chat |-> NoChat]
<1>s. IsSeq(toMain) /\ IsSeq(toWindow)
  BY DEF Calls, Messages
<1>1. /\ page' = page + 1 /\ Call(x) /\ chats' = <<>>
      /\ inflight' = [c \in Chats |-> NoReq]
      /\ UNCHANGED <<sent, toWindow, store, used, deleting, turn>>
  BY DEF Reload, Call
<1>5. page \in Nat /\ page + 1 \in Nat /\ sent <= sent /\ page <= page + 1 /\ used \subseteq used
  OBVIOUS
<1>x. x.op = "list" /\ x.page = page + 1
  OBVIOUS
<1> HIDE DEF x
<1>2. CallOK(x, sent, page + 1, used)
  BY <1>x, <1>5 DEF CallOK, Ops
<1>3. Joined(toMain', toMain, <<x>>) /\ Positions(<<x>>) = {1} /\ <<x>>[1] = x
  BY <1>1, <1>s, OneCall
<1>4. Joined(toWindow, toWindow, <<>>) /\ Positions(<<>>) = {}
  BY <1>s, JoinedSame, ShortSeq
<1>6. Calls(toMain', sent, page + 1, used)
  <2>1. \A j \in Positions(<<x>>) : CallOK(<<x>>[j], sent, page + 1, used)
    BY <1>2, <1>3
  <2> QED BY <1>3, <1>5, <2>1, CallsJoin
<1>7. Messages(toWindow, sent, page + 1, used)
  <2>1. \A j \in Positions(<<>>) : MessageOK(<<>>[j], sent, page + 1, used)
    BY <1>4
  <2> QED BY <1>4, <1>5, <2>1, MessagesJoin
<1>t. \A d \in Chats : turn[d].page \in Nat /\ turn[d].page <= page
  BY DEF TurnsOK, Turns
<1>8. TurnsOK(turn, sent, page + 1, used)
  <2>2. \A d \in Chats : turn[d].page <= page + 1
    BY <1>5, <1>t
  <2> QED BY <2>2 DEF TurnsOK
<1>9. \A y \in deleting : CallOK(y, sent, page + 1, used)
  BY <1>5, CallGrows
<1>10. OneRequest(toMain', toWindow, turn)
  <2>1. \A j \in Positions(<<x>>) : <<x>>[j].op # "send"
    BY <1>3, <1>x
  <2> QED BY <1>3, <2>1, RequestsQuiet
<1>d. DOMAIN <<>> = {}
  OBVIOUS
<1>11. IsIndex(chats', used)
  <2>1. <<>> = [i \in {} |-> i]
    OBVIOUS
  <2> QED BY <1>1, <1>d, <2>1 DEF IsIndex
<1>12. inflight' \in [Chats -> Nat] /\ Blocked(inflight', turn, toWindow)
  BY <1>1 DEF Blocked, NoReq
<1>13. Told(store, turn, page + 1, inflight', toWindow)
  <2>1. \A c \in Chats : turn[c].page # page + 1
    BY <1>5, <1>t
  <2>2. DOMAIN store \subseteq Chats
    BY DEF IsIndex
  <2> QED BY <2>1, <2>2 DEF Told
<1>14. Follows(toMain', toWindow, page + 1, chats', store)
  <2>1. \E j \in Positions(toMain') : toMain'[j].op \in ListOps /\ toMain'[j].page = page + 1
    BY <1>3, <1>x DEF Joined, ListOps
  <2> QED BY <2>1 DEF Follows
<1>15. Dated(toWindow, chats', store)
  <2>1. Consistent(chats', store) /\ Older(chats', store) /\ \A y : Consistent(y, chats')
    BY <1>1, <1>d DEF Consistent, Older
  <2> QED BY <2>1 DEF Dated
<1> QED BY <1>1, <1>5, <1>6, <1>7, <1>8, <1>9, <1>10, <1>11, <1>12, <1>13, <1>14, <1>15

\* Whatever the user does.
LEMMA UserKeeps ==
  ASSUME WInv, UserActs
  PROVE  WInv'
<1>0. page \in Nat /\ DOMAIN chats \subseteq used
  BY DEF WInv, Shapes, IsIndex
<1>1. ASSUME NEW c \in Chats, selectChat(c)
      PROVE  WInv'
  <2>0. UNCHANGED <<page, sent, inflight, used, store, chats, turn, deleting, toWindow>>
    BY <1>1 DEF selectChat, mainVars
  <2> DEFINE x == [op |-> "load", page |-> page, chat |-> c]
  <2>1. CallOK(x, sent, page, used) /\ x.op # "send"
    BY <1>0 DEF CallOK, Ops
  <2>2. Call(x) \/ UNCHANGED toMain
    BY <1>1 DEF selectChat
  <2> HIDE DEF x
  <2>3. CASE UNCHANGED toMain
    BY <2>0, <2>3 DEF WInv, Shapes
  <2> QED BY <2>0, <2>1, <2>2, <2>3, CallStep
<1>2. ASSUME NEW x, Call(x), CallOK(x, sent, page, used), x.op # "send",
             UNCHANGED <<windowVars, toWindow, mainVars>>
      PROVE  WInv'
  <2>1. UNCHANGED <<page, sent, inflight, used, store, chats, turn, deleting, toWindow>>
    BY <1>2 DEF windowVars, mainVars
  <2> QED BY <1>2, <2>1, CallStep
<1>3. ASSUME NEW c \in Chats, cancel(c)
      PROVE  WInv'
  <2> DEFINE x == [op |-> "cancel", page |-> page, chat |-> c]
  <2>1. Call(x) /\ UNCHANGED <<windowVars, toWindow, mainVars>>
    BY <1>3 DEF cancel
  <2>2. CallOK(x, sent, page, used) /\ x.op # "send"
    BY <1>0 DEF CallOK, Ops
  <2> HIDE DEF x
  <2> QED BY <1>2, <2>1, <2>2
<1>4. ASSUME NEW c \in Chats, delete(c)
      PROVE  WInv'
  <2> DEFINE x == [op |-> "delete", page |-> page, chat |-> c]
  <2>1. Call(x) /\ UNCHANGED <<windowVars, toWindow, mainVars>> /\ c \in used
    BY <1>0, <1>4 DEF delete
  <2>2. CallOK(x, sent, page, used) /\ x.op # "send"
    BY <1>0, <2>1 DEF CallOK, Ops
  <2> HIDE DEF x
  <2> QED BY <1>2, <2>1, <2>2
<1>5. ASSUME NEW c \in Chats, rename(c)
      PROVE  WInv'
  <2> DEFINE x == [op |-> "rename", page |-> page, chat |-> c]
  <2>1. Call(x) /\ UNCHANGED <<windowVars, toWindow, mainVars>>
    BY <1>5 DEF rename
  <2>2. CallOK(x, sent, page, used) /\ x.op # "send"
    BY <1>0 DEF CallOK, Ops
  <2> HIDE DEF x
  <2> QED BY <1>2, <2>1, <2>2
<1>6. CASE createNewChat
  <2> DEFINE x == [op |-> "create", page |-> page, chat |-> NoChat]
  <2>1. Call(x) /\ UNCHANGED <<windowVars, toWindow, mainVars>>
    BY <1>6 DEF createNewChat
  <2>2. CallOK(x, sent, page, used) /\ x.op # "send"
    BY <1>0 DEF CallOK, Ops
  <2> HIDE DEF x
  <2> QED BY <1>2, <2>1, <2>2
<1> QED BY <1>1, <1>3, <1>4, <1>5, <1>6, SendStep, ReloadStep DEF UserActs

\* A reply that is harmless, and nothing else.
LEMMA ReplyStep ==
  ASSUME WInv, Rest(toMain', toMain), ~(toMain[1].op \in ListOps /\ toMain[1].page = page),
         NEW y, ToWindow(<<y>>), MessageOK(y, sent, page, used), Harmless(y),
         UNCHANGED <<page, sent, inflight, used, store, chats>>,
         TurnsOK(turn', sent, page, used),
         \A c \in Chats : turn'[c].req = turn[c].req /\ turn'[c].page = turn[c].page,
         UNCHANGED deleting
  PROVE  WInv'
<1>s. IsSeq(toWindow)
  BY DEF WInv, Shapes, Messages
<1>1. Joined(toWindow', toWindow, <<y>>) /\ Positions(<<y>>) = {1} /\ <<y>>[1] = y
  BY <1>s, Told1
<1>2. \A j \in Positions(<<y>>) : MessageOK(<<y>>[j], sent, page, used) /\ Harmless(<<y>>[j])
  BY <1>1
<1>3. \A x \in deleting' : CallOK(x, sent, page, used) /\ x.op = "delete"
  BY DEF WInv, Shapes
<1> QED BY <1>1, <1>2, <1>3, QuietStep

\* The mark of a stop changes nothing else of a turn.
LEMMA StopIs ==
  ASSUME WInv, NEW c, Stop(c)
  PROVE  /\ TurnsOK(turn', sent, page, used)
         /\ \A d \in Chats : turn'[d].req = turn[d].req /\ turn'[d].page = turn[d].page
<1>1. turn' = [turn EXCEPT ![c].stop = @ \/ turn[c].req # NoReq]
  BY DEF Stop
<1>2. turn \in [Chats -> Turns]
  BY DEF WInv, Shapes, TurnsOK
<1>3. ASSUME NEW d \in Chats
      PROVE  turn'[d] \in Turns /\ turn'[d].req = turn[d].req /\ turn'[d].page = turn[d].page
  <2>1. CASE c = d
    <3>1. turn'[d] = [turn[d] EXCEPT !.stop = @ \/ turn[d].req # NoReq]
      BY <1>1, <1>2, <2>1
    <3>2. turn[d] \in Turns
      BY <1>2
    <3> QED BY <3>1, <3>2 DEF Turns
  <2>2. CASE c # d
    BY <1>1, <1>2, <2>2
  <2> QED BY <2>1, <2>2
<1>4. turn' \in [Chats -> Turns]
  <2>1. turn' = [d \in Chats |-> turn'[d]]
    BY <1>1, <1>2
  <2> QED BY <1>3, <2>1
<1> QED BY <1>3, <1>4 DEF WInv, Shapes, TurnsOK

\* The list.
LEMMA HandleListStep ==
  ASSUME WInv, NEW call, call = toMain[1], HandleList(call), Rest(toMain', toMain),
         UNCHANGED windowVars
  PROVE  WInv'
<1> USE DEF WInv, Shapes
<1> DEFINE y == Reply(call, TRUE, store)
<1>0. /\ UNCHANGED <<page, sent, inflight, chats, used, store, turn, deleting>>
      /\ ToWindow(<<y>>) /\ call.op \in ListOps
  BY DEF HandleList, mainVars, windowVars, ListOps
<1>y. y.type = "reply" /\ y.call = call /\ y.ok \in BOOLEAN /\ y.value = store
  BY DEF Reply
<1> HIDE DEF y
<1>s. IsSeq(toWindow)
  BY DEF Messages
<1>1. Joined(toWindow', toWindow, <<y>>) /\ Positions(<<y>>) = {1} /\ <<y>>[1] = y
  BY <1>0, <1>s, Told1
<1>2. CallOK(call, sent, page, used)
  BY DEF Calls, Rest
<1>3. MessageOK(y, sent, page, used)
  BY <1>2, <1>y DEF MessageOK
<1>4. sent <= sent /\ page <= page /\ used \subseteq used
  OBVIOUS
<1>5. Calls(toMain', sent, page, used)
  BY <1>4, CallsRest
<1>6. Messages(toWindow', sent, page, used)
  <2>1. \A j \in Positions(<<y>>) : MessageOK(<<y>>[j], sent, page, used)
    BY <1>1, <1>3
  <2> QED BY <1>1, <1>4, <2>1, MessagesJoin
<1>7. Deleted(toWindow', store)
  <2>1. Deleted(<<y>>, store)
    BY <1>0, <1>1, <1>y DEF Deleted, ListOps
  <2> QED BY <1>1, <2>1, DeletedJoin
<1>e. \A r : HasEnd(toWindow', r) <=> HasEnd(toWindow, r)
  <2>1. \A r : ~HasEnd(<<y>>, r)
    BY <1>1, <1>y DEF HasEnd
  <2> QED BY <1>1, <2>1, JoinedEnd
<1>8. OneRequest(toMain', toWindow', turn)
  BY <1>e, RequestsQuiet
<1>9. Blocked(inflight, turn, toWindow')
  BY <1>e DEF Blocked
<1>10. Followed(toWindow', turn)
  <2>1. Followed(<<y>>, turn)
    BY <1>0, <1>1, <1>y DEF Followed, ListOps
  <2> QED BY <1>1, <2>1, JoinedFollowed
<1>11. Told(store, turn, page, inflight, toWindow')
  <2>1. \A c : NoAccept(<<y>>, c, page)
    BY <1>0, <1>1, <1>y DEF NoAccept, Accepts, ListOps
  <2>2. ASSUME NEW c \in DOMAIN store, turn[c].req # NoReq, turn[c].page = page
        PROVE  Hears(inflight, turn[c].req, toWindow', c, page)
    <3>1. Hears(inflight, turn[c].req, toWindow, c, page)
      BY <2>2 DEF Told
    <3> QED BY <1>1, <2>1, <3>1, HearsJoined
  <2> QED BY <2>2 DEF Told
<1>12. Follows(toMain', toWindow', page, chats, store)
  <2>1. CASE call.page = page
    <3>1. LastList(<<y>>, page, store)
      <4>1. Lists(y, page) /\ Agree(y.value, store)
        BY <1>0, <1>y, <2>1 DEF Lists, Agree
      <4>2. ~(1 > 1)
        OBVIOUS
      <4> QED BY <1>1, <4>1, <4>2 DEF LastList
    <3>2. LastList(toWindow', page, store)
      BY <1>1, <3>1, JoinedLastList
    <3> QED BY <3>2 DEF Follows
  <2>2. CASE call.page # page
    <3>1. NoList(<<y>>, page)
      BY <1>1, <1>y, <2>2 DEF NoList, Lists
    <3>2. \A i \in Positions(toMain) : toMain[i].op \in ListOps /\ toMain[i].page = page =>
             \E j \in Positions(toMain') : toMain'[j].op \in ListOps /\ toMain'[j].page = page
      BY <2>2 DEF Rest
    <3> QED BY <1>1, <3>1, <3>2, FollowsJoin
  <2> QED BY <2>1, <2>2
<1>13. Dated(toWindow', chats, store)
  <2>1. \A i \in Positions(toWindow') : IsList(toWindow'[i]) =>
           toWindow'[i].value = store \/ \E j \in Positions(toWindow) : toWindow'[i] = toWindow[j]
    BY <1>1, <1>y DEF Joined
  <2> QED BY <2>1, DatedListed
<1> QED BY <1>0, <1>5, <1>6, <1>7, <1>8, <1>9, <1>10, <1>11, <1>12, <1>13

\* A turn begins.
LEMMA AcceptStep ==
  ASSUME WInv, NEW call, call = toMain[1], call.op = "send", Rest(toMain', toMain),
         NEW d \in DOMAIN store, d = call.chat, turn[d].req = NoReq,
         ToWindow(<< Reply(call, TRUE, NoReq) >>),
         turn' \in [Chats -> Turns], turn'[d].req = call.req, turn'[d].page = call.page,
         \A c \in Chats : c # d => turn'[c] = turn[c],
         UNCHANGED <<page, sent, inflight, chats, used, store, deleting>>
  PROVE  WInv'
<1> USE DEF WInv, Shapes
<1> DEFINE y == Reply(call, TRUE, NoReq)
<1>y. y.type = "reply" /\ y.call = call /\ y.ok /\ y.ok \in BOOLEAN
  BY DEF Reply
<1>s. IsSeq(toWindow)
  BY DEF Messages
<1>1. Joined(toWindow', toWindow, <<y>>) /\ Positions(<<y>>) = {1} /\ <<y>>[1] = y
  BY <1>s, Told1
<1> HIDE DEF y
<1>2. CallOK(call, sent, page, used)
  BY DEF Calls, Rest
<1>3. MessageOK(y, sent, page, used)
  BY <1>2, <1>y DEF MessageOK, IsList, ListOps
<1>4. sent <= sent /\ page <= page /\ used \subseteq used
  OBVIOUS
<1>5. Calls(toMain', sent, page, used)
  BY <1>4, CallsRest
<1>6. Messages(toWindow', sent, page, used)
  <2>1. \A j \in Positions(<<y>>) : MessageOK(<<y>>[j], sent, page, used)
    BY <1>1, <1>3
  <2> QED BY <1>1, <1>4, <2>1, MessagesJoin
<1>d. d \in used /\ d \in Chats
  BY DEF IsIndex
<1>tt. TurnsOK(turn', sent, page, used)
  <2>1. call.req <= sent /\ call.page <= page
    BY <1>2 DEF CallOK
  <2> QED BY <1>d, <2>1 DEF TurnsOK
<1>7. Deleted(toWindow', store)
  <2>1. Deleted(<<y>>, store)
    BY <1>1, <1>y DEF Deleted
  <2> QED BY <1>1, <2>1, DeletedJoin
<1>e. \A q : HasEnd(toWindow', q) <=> HasEnd(toWindow, q)
  <2>1. \A q : ~HasEnd(<<y>>, q)
    BY <1>1, <1>y DEF HasEnd
  <2> QED BY <1>1, <2>1, JoinedEnd
<1>8. OneRequest(toMain', toWindow', turn')
  <2>1. turn'[d].req = toMain[1].req /\ \A c \in Chats : d # c => turn'[c].req = turn[c].req
    OBVIOUS
  <2> QED BY <1>d, <1>e, <2>1, RequestAccepted
<1>9. Blocked(inflight, turn', toWindow')
  BY <1>e DEF Blocked
<1>10. Followed(toWindow', turn')
  <2>1. Followed(<<y>>, turn')
    BY <1>1, <1>y DEF Followed
  <2>2. \A i \in Positions(toWindow) :
          /\ toWindow[i].type = "reply" /\ toWindow[i].call.op = "send" /\ toWindow[i].ok
          /\ turn[toWindow[i].call.chat].req = toWindow[i].call.req
          => \/ turn'[toWindow[i].call.chat].req = toWindow[i].call.req
             \/ HasEnd(<<y>>, toWindow[i].call.req)
    <3> SUFFICES ASSUME NEW i \in Positions(toWindow), toWindow[i].type = "reply",
                        toWindow[i].call.op = "send",
                        turn[toWindow[i].call.chat].req = toWindow[i].call.req
                 PROVE  turn'[toWindow[i].call.chat].req = toWindow[i].call.req
      OBVIOUS
    <3>1. toWindow[i].call.chat \in Chats /\ toWindow[i].call.req \in 1 .. sent
      BY DEF Messages, MessageOK, CallOK
    <3>2. toWindow[i].call.req # NoReq
      BY <3>1 DEF NoReq
    <3>3. toWindow[i].call.chat # d
      BY <1>d, <3>2
    <3> QED BY <3>1, <3>3
  <2>3. Followed(toWindow, turn)
    OBVIOUS
  <2> HIDE DEF WInv, Shapes
  <2> QED BY <1>1, <2>1, <2>2, <2>3, JoinedFollowed
<1>11. Told(store, turn', page, inflight, toWindow')
  <2> SUFFICES ASSUME NEW c \in DOMAIN store, turn'[c].req # NoReq, turn'[c].page = page
               PROVE  Hears(inflight, turn'[c].req, toWindow', c, page)
    BY DEF Told
  <2>0. c \in Chats
    BY DEF IsIndex
  <2>1. CASE c = d
    <3>1. Accepts(y, c, page) /\ y.call.req = turn'[c].req
      BY <1>y, <2>1 DEF Accepts
    <3>2. ~(1 > 1)
      OBVIOUS
    <3>3. LastAccept(<<y>>, c, turn'[c].req, page)
      BY <1>1, <3>1, <3>2 DEF LastAccept
    <3> QED BY <1>1, <3>3, JoinedLastAccept DEF Hears
  <2>2. CASE c # d
    <3>1. NoAccept(<<y>>, c, page)
      BY <1>1, <1>y, <2>2 DEF NoAccept, Accepts
    <3>2. Hears(inflight, turn[c].req, toWindow, c, page)
      BY <2>0, <2>2 DEF Told
    <3> QED BY <1>1, <2>0, <2>2, <3>1, <3>2, HearsJoined
  <2> QED BY <2>1, <2>2
<1>12. Follows(toMain', toWindow', page, chats, store)
  <2>1. NoList(<<y>>, page)
    BY <1>1, <1>y DEF NoList, Lists, ListOps
  <2>2. \A i \in Positions(toMain) : toMain[i].op \in ListOps /\ toMain[i].page = page =>
           \E j \in Positions(toMain') : toMain'[j].op \in ListOps /\ toMain'[j].page = page
    BY DEF Rest, ListOps
  <2> QED BY <1>1, <2>1, <2>2, FollowsJoin
<1>13. Dated(toWindow', chats, store)
  <2>1. \A i \in Positions(toWindow') : IsList(toWindow'[i]) =>
          \E j \in Positions(toWindow) : toWindow'[i] = toWindow[j]
    BY <1>1, <1>y DEF Joined, IsList, ListOps
  <2> QED BY <2>1, DatedFewer
<1> QED BY <1>5, <1>6, <1>7, <1>8, <1>9, <1>10, <1>11, <1>12, <1>13, <1>tt

\* A change of the index, which is announced.
LEMMA IndexStep ==
  ASSUME WInv,
         UNCHANGED <<page, sent, inflight, turn, chats>>,
         used \subseteq used', used' \subseteq Chats,
         IsIndex(store', used'), Newer(store', store), DOMAIN store' \cap used \subseteq DOMAIN store,
         toMain' = toMain \/ (Rest(toMain', toMain) /\ toMain[1].op \notin ListOps),
         NEW ms, Joined(toWindow', toWindow, ms),
         \A j \in Positions(ms) :
           /\ MessageOK(ms[j], sent, page, used')
           /\ \/ Harmless(ms[j])
              \/ ms[j].type = "listChanged"
              \/ /\ ms[j].type = "reply" /\ ms[j].call.op = "delete"
                 /\ ms[j].call.chat \notin DOMAIN store',
         \E j \in Positions(ms) : ms[j].type = "listChanged",
         \A x \in deleting' : CallOK(x, sent, page, used) /\ x.op = "delete"
  PROVE  WInv'
<1> USE DEF WInv, Shapes
<1>h. /\ \A r : ~HasEnd(ms, r)
      /\ \A c, p : NoAccept(ms, c, p)
      /\ \A t : Followed(ms, t)
      /\ Deleted(ms, store')
      /\ \A j \in Positions(ms) : ~IsList(ms[j])
  <2>1. \A r : ~HasEnd(ms, r)
    BY DEF HasEnd, Harmless
  <2>2. \A c, p : NoAccept(ms, c, p)
    BY DEF NoAccept, Accepts, Harmless
  <2>3. \A t : Followed(ms, t)
    BY DEF Followed, Harmless
  <2>4. Deleted(ms, store')
    BY DEF Deleted, Harmless
  <2>5. \A j \in Positions(ms) : ~IsList(ms[j])
    BY DEF IsList, Harmless, ListOps
  <2> QED BY <2>1, <2>2, <2>3, <2>4, <2>5
<1>e. \A r : HasEnd(toWindow', r) <=> HasEnd(toWindow, r)
  BY <1>h, JoinedEnd
<1>0. sent \in Nat /\ page \in Nat /\ sent <= sent /\ page <= page /\ used \subseteq used'
  OBVIOUS
<1>m. \/ Joined(toMain', toMain, <<>>) /\ Positions(<<>>) = {}
      \/ Rest(toMain', toMain)
  <2>1. IsSeq(toMain)
    BY DEF Calls
  <2> QED BY <2>1, JoinedSame, ShortSeq
<1>1. Calls(toMain', sent, page, used')
  <2>1. CASE Rest(toMain', toMain)
    BY <1>0, <2>1, CallsRest
  <2>2. CASE Joined(toMain', toMain, <<>>) /\ Positions(<<>>) = {}
    BY <1>0, <2>2, CallsJoin
  <2> QED BY <1>m, <2>1, <2>2
<1>2. Messages(toWindow', sent, page, used')
  BY <1>0, MessagesJoin
<1>3. Deleted(toWindow', store')
  <2>1. \A i \in Positions(toWindow) : toWindow[i].type = "reply" /\ toWindow[i].call.op = "delete" =>
          toWindow[i].call.chat \in used
    BY DEF Messages, MessageOK, CallOK
  <2>2. \A i \in Positions(toWindow) : toWindow[i].type = "reply" /\ toWindow[i].call.op = "delete" =>
          toWindow[i].call.chat \notin DOMAIN store' \ DOMAIN store
    BY <2>1
  <2> QED BY <1>h, <2>2, DeletedJoin
<1>4. OneRequest(toMain', toWindow', turn)
  <2>1. CASE Rest(toMain', toMain)
    BY <1>e, <2>1, RequestsQuiet
  <2>2. CASE Joined(toMain', toMain, <<>>) /\ Positions(<<>>) = {}
    BY <1>e, <2>2, RequestsQuiet
  <2> QED BY <1>m, <2>1, <2>2
<1>5. Blocked(inflight, turn, toWindow')
  BY <1>e DEF Blocked
<1>6. Followed(toWindow', turn)
  BY <1>h, JoinedFollowed
<1>t. TurnsOK(turn, sent, page, used')
  BY <1>0 DEF TurnsOK
<1>7. Told(store', turn, page, inflight, toWindow')
  <2> SUFFICES ASSUME NEW c \in DOMAIN store', turn[c].req # NoReq, turn[c].page = page
               PROVE  Hears(inflight, turn[c].req, toWindow', c, page)
    BY DEF Told
  <2>1. c \in Chats
    BY DEF IsIndex
  <2>2. c \in DOMAIN store
    BY <2>1 DEF TurnsOK
  <2>3. Hears(inflight, turn[c].req, toWindow, c, page)
    BY <2>2 DEF Told
  <2> QED BY <1>h, <2>3, HearsJoined
<1>8. Follows(toMain', toWindow', page, chats, store')
  <2>1. \E i \in Positions(toWindow') : toWindow'[i].type = "listChanged"
    BY DEF Joined
  <2> QED BY <2>1 DEF Follows
<1>9. Dated(toWindow', chats, store')
  <2>1. \A i \in Positions(toWindow) : IsList(toWindow[i]) => IsIndex(toWindow[i].value, used)
    BY DEF Messages, MessageOK, IsList
  <2>2. store' \in [DOMAIN store' -> Metas]
    BY DEF IsIndex
  <2>3. Dated(toWindow, chats, store')
    BY <2>1, <2>2, DatedNewer
  <2>4. \A i \in Positions(toWindow') : IsList(toWindow'[i]) =>
          \E j \in Positions(toWindow) : toWindow'[i] = toWindow[j]
    BY <1>h DEF Joined
  <2> QED BY <2>3, <2>4, DatedFewer
<1>10. \A x \in deleting' : CallOK(x, sent, page, used') /\ x.op = "delete"
  BY <1>0, CallGrows
<1>11. IsIndex(chats, used')
  BY <1>0 DEF IsIndex
<1> QED BY <1>0, <1>1, <1>2, <1>3, <1>4, <1>5, <1>6, <1>7, <1>8, <1>9, <1>10, <1>11, <1>t

\* chat:create: a chat that was never there, announced to the window.
LEMMA CreateStep ==
  ASSUME WInv, NEW call, call = toMain[1], HandleCreate(call), Rest(toMain', toMain),
         UNCHANGED windowVars
  PROVE  WInv'
<1>1. call.op = "create" /\ UNCHANGED <<page, sent, inflight, turn, chats, deleting>>
  BY DEF HandleCreate, windowVars
<1> PICK c \in Chats \ used :
      /\ used' = used \cup {c}
      /\ store' = [d \in DOMAIN store \cup {c} |-> IF d = c THEN NewMeta ELSE store[d]]
      /\ ToWindow(<< ListChanged, Reply(call, TRUE, c) >>)
  BY DEF HandleCreate
<1> DEFINE y == Reply(call, TRUE, c)
           z == ListChanged
<1>y. y.type = "reply" /\ y.call = call /\ y.ok \in BOOLEAN /\ z.type = "listChanged"
  BY DEF Reply, ListChanged
<1> HIDE DEF y, z
<1>2. /\ Joined(toWindow', toWindow, <<z, y>>)
      /\ Positions(<<z, y>>) = {1, 2} /\ <<z, y>>[1] = z /\ <<z, y>>[2] = y
  <2>1. IsSeq(toWindow) /\ ToWindow(<<z, y>>)
    BY DEF WInv, Shapes, Messages, y, z
  <2> QED BY <2>1, Told2
<1>3. CallOK(call, sent, page, used) /\ page \in Nat /\ sent \in Nat /\ used \subseteq Chats
      /\ IsIndex(store, used)
  BY DEF WInv, Shapes, Calls, Rest
<1>4. MessageOK(y, sent, page, used') /\ Harmless(y) /\ MessageOK(z, sent, page, used')
  <2>1. CallOK(call, sent, page, used')
    BY <1>3, CallGrows
  <2> QED BY <1>1, <1>y, <2>1 DEF MessageOK, Harmless, ListOps
<1>5. NewMeta \in Metas
  BY DEF NewMeta, Metas
<1>6. IsIndex(store', used') /\ Newer(store', store) /\ DOMAIN store' \cap used \subseteq DOMAIN store
  BY <1>3, <1>5 DEF IsIndex, Newer
<1>7. \A x \in deleting' : CallOK(x, sent, page, used) /\ x.op = "delete"
  BY <1>1 DEF WInv, Shapes
<1>8. toMain[1].op \notin ListOps /\ used \subseteq used' /\ used' \subseteq Chats
  BY <1>1, <1>3 DEF ListOps
<1>9. /\ \A j \in Positions(<<z, y>>) :
           /\ MessageOK(<<z, y>>[j], sent, page, used')
           /\ Harmless(<<z, y>>[j]) \/ <<z, y>>[j].type = "listChanged"
      /\ \E j \in Positions(<<z, y>>) : <<z, y>>[j].type = "listChanged"
  BY <1>2, <1>4, <1>y
<1> QED BY <1>1, <1>2, <1>6, <1>7, <1>8, <1>9, IndexStep

\* chat:rename: another title and a later time, announced to the window.
LEMMA RenameStep ==
  ASSUME WInv, NEW call, call = toMain[1], HandleRename(call), call.chat \in DOMAIN store,
         Rest(toMain', toMain), UNCHANGED windowVars
  PROVE  WInv'
<1> DEFINE y == Reply(call, TRUE, NoReq)
           z == ListChanged
           d == call.chat
<1>1. /\ call.op = "rename" /\ UNCHANGED <<page, sent, inflight, turn, chats, deleting, used>>
      /\ store' = [store EXCEPT ![d].title = @ + 1, ![d].updatedAt = @ + 1]
      /\ ToWindow(<<z, y>>)
  BY DEF HandleRename, windowVars
<1>y. y.type = "reply" /\ y.call = call /\ y.ok \in BOOLEAN /\ z.type = "listChanged"
  BY DEF Reply, ListChanged
<1> HIDE DEF y, z
<1>2. /\ Joined(toWindow', toWindow, <<z, y>>)
      /\ Positions(<<z, y>>) = {1, 2} /\ <<z, y>>[1] = z /\ <<z, y>>[2] = y
  <2>1. IsSeq(toWindow)
    BY DEF WInv, Shapes, Messages
  <2> QED BY <1>1, <2>1, Told2
<1>3. CallOK(call, sent, page, used) /\ page \in Nat /\ sent \in Nat /\ used \subseteq Chats
      /\ IsIndex(store, used)
  BY DEF WInv, Shapes, Calls, Rest
<1>4. MessageOK(y, sent, page, used') /\ Harmless(y) /\ MessageOK(z, sent, page, used')
  BY <1>1, <1>3, <1>y DEF MessageOK, Harmless, ListOps
<1>6. IsIndex(store', used') /\ Newer(store', store) /\ DOMAIN store' \cap used \subseteq DOMAIN store
  <2>1. store \in [DOMAIN store -> Metas] /\ DOMAIN store' = DOMAIN store
    BY <1>1, <1>3 DEF IsIndex
  <2>2. ASSUME NEW c \in DOMAIN store
        PROVE  store'[c] \in Metas /\ (store'[c] = store[c] \/ store'[c].updatedAt > store[c].updatedAt)
    <3>1. store[c] \in Metas
      BY <2>1
    <3>2. CASE c = d
      <4>1. store'[c] = [title |-> store[c].title + 1, updatedAt |-> store[c].updatedAt + 1]
        BY <1>1, <2>1, <3>1, <3>2 DEF Metas
      <4>2. store[c].title \in Nat /\ store[c].updatedAt \in Nat
        BY <3>1 DEF Metas
      <4> QED BY <4>1, <4>2 DEF Metas
    <3>3. CASE c # d
      BY <1>1, <2>1, <3>1, <3>3
    <3> QED BY <3>2, <3>3
  <2>3. store' \in [DOMAIN store' -> Metas]
    <3>1. store' = [c \in DOMAIN store |-> store'[c]]
      BY <1>1, <2>1
    <3> QED BY <2>1, <2>2, <3>1
  <2> QED BY <1>1, <1>3, <2>1, <2>2, <2>3 DEF IsIndex, Newer
<1>7. \A x \in deleting' : CallOK(x, sent, page, used) /\ x.op = "delete"
  BY <1>1 DEF WInv, Shapes
<1>8. toMain[1].op \notin ListOps /\ used \subseteq used' /\ used' \subseteq Chats
  BY <1>1, <1>3 DEF ListOps
<1>9. /\ \A j \in Positions(<<z, y>>) :
           /\ MessageOK(<<z, y>>[j], sent, page, used')
           /\ Harmless(<<z, y>>[j]) \/ <<z, y>>[j].type = "listChanged"
      /\ \E j \in Positions(<<z, y>>) : <<z, y>>[j].type = "listChanged"
  BY <1>2, <1>4, <1>y
<1> QED BY <1>1, <1>2, <1>6, <1>7, <1>8, <1>9, IndexStep

\* chat:delete after the engine has gone: the chat leaves the index, which is announced.
LEMMA DeleteKeeps ==
  ASSUME WInv, DeleteDone
  PROVE  WInv'
<1>1. UNCHANGED <<page, sent, inflight, turn, chats, used, toMain>>
  BY DEF DeleteDone, windowVars
<1> PICK call \in deleting :
      /\ deleting' = deleting \ {call}
      /\ store' = [c \in DOMAIN store \ {call.chat} |-> store[c]]
      /\ ToWindow(<< ListChanged, Reply(call, TRUE, NoReq) >>)
  BY DEF DeleteDone
<1> DEFINE y == Reply(call, TRUE, NoReq)
           z == ListChanged
<1>y. y.type = "reply" /\ y.call = call /\ y.ok \in BOOLEAN /\ z.type = "listChanged"
  BY DEF Reply, ListChanged
<1> HIDE DEF y, z
<1>2. /\ Joined(toWindow', toWindow, <<z, y>>)
      /\ Positions(<<z, y>>) = {1, 2} /\ <<z, y>>[1] = z /\ <<z, y>>[2] = y
  <2>1. IsSeq(toWindow) /\ ToWindow(<<z, y>>)
    BY DEF WInv, Shapes, Messages, y, z
  <2> QED BY <2>1, Told2
<1>3. /\ CallOK(call, sent, page, used) /\ call.op = "delete" /\ used \subseteq Chats
      /\ IsIndex(store, used)
  BY DEF WInv, Shapes
<1>4. MessageOK(y, sent, page, used') /\ MessageOK(z, sent, page, used')
  BY <1>1, <1>3, <1>y DEF MessageOK, ListOps
<1>6. IsIndex(store', used') /\ Newer(store', store) /\ DOMAIN store' \cap used \subseteq DOMAIN store
      /\ call.chat \notin DOMAIN store'
  BY <1>1, <1>3 DEF IsIndex, Newer
<1>7. \A x \in deleting' : CallOK(x, sent, page, used) /\ x.op = "delete"
  BY DEF WInv, Shapes
<1>8. toMain' = toMain /\ used \subseteq used' /\ used' \subseteq Chats
  BY <1>1, <1>3
<1>9. /\ \A j \in Positions(<<z, y>>) :
           /\ MessageOK(<<z, y>>[j], sent, page, used')
           /\ \/ <<z, y>>[j].type = "listChanged"
              \/ /\ <<z, y>>[j].type = "reply" /\ <<z, y>>[j].call.op = "delete"
                 /\ <<z, y>>[j].call.chat \notin DOMAIN store'
      /\ \E j \in Positions(<<z, y>>) : <<z, y>>[j].type = "listChanged"
  BY <1>2, <1>3, <1>4, <1>6, <1>y
<1> QED BY <1>1, <1>2, <1>6, <1>7, <1>8, <1>9, IndexStep

\* What is left of the output that has been read is a part of it; what was read
\* are lines in a row.
LEMMA Drained ==
  ASSUME NEW buf \in Seq(Halves)
  PROVE  /\ drain(buf).buf \in Seq(Halves)
         /\ \E m \in Nat : DOMAIN drain(buf).objects = 1 .. m
<1> DEFINE ended(i) == buf[i][2] = 2
           parses(i) == /\ ended(i) /\ i > 1
                        /\ buf[i - 1] = <<buf[i][1], 1>> /\ (i = 2 \/ ended(i - 2))
           at == SelectSeq([i \in DOMAIN buf |-> i], parses)
           last == Max({i \in DOMAIN buf : ended(i)} \cup {0})
<1>1. Len(buf) \in Nat /\ DOMAIN buf = 1 .. Len(buf) /\ \A i \in 1 .. Len(buf) : buf[i] \in Halves
  BY LenProperties
<1>2. last \in 0 .. Len(buf)
  <2> DEFINE S == {i \in DOMAIN buf : ended(i)} \cup {0}
  <2>1. S \in SUBSET (0 .. Len(buf)) /\ S # {}
    BY <1>1
  <2> HIDE DEF S
  <2>2. Max(S) \in S
    BY <1>1, <2>1, MaxOfNumbers
  <2> QED BY <2>1, <2>2 DEF S
<1>3. drain(buf).buf = SubSeq(buf, last + 1, Len(buf)) /\ DOMAIN drain(buf).objects = DOMAIN at
  BY DEF drain
<1> HIDE DEF last
<1>4. SubSeq(buf, last + 1, Len(buf)) \in Seq(Halves)
  <2>1. last + 1 \in Int /\ Len(buf) \in Int /\ \A i \in last + 1 .. Len(buf) : buf[i] \in Halves
    BY <1>1, <1>2
  <2> QED BY <2>1, SubSeqProperties
<1>5. \E m \in Nat : DOMAIN at = 1 .. m
  <2> DEFINE ids == [i \in DOMAIN buf |-> i]
  <2>1. ids \in Seq(Nat)
    BY <1>1
  <2> HIDE DEF ids
  <2>2. /\ DOMAIN SelectSeq(ids, parses) = 1 .. Len(SelectSeq(ids, parses))
        /\ Len(SelectSeq(ids, parses)) \in Nat
    <3> HIDE DEF parses
    <3> QED BY <2>1
  <2> QED BY <2>2 DEF ids
<1> QED BY <1>3, <1>4, <1>5

\* A line becomes a list of events.
LEMMA EventsAreList ==
  ASSUME NEW c, NEW line
  PROVE  Events(c, line) \in Seq({Events(c, line)[j] : j \in 1 .. 3})
<1> DEFINE T == {Events(c, line)[j] : j \in 1 .. 3}
<1>1. (\E a : Events(c, line) = <<a>>) \/ (\E a, b, d : Events(c, line) = <<a, b, d>>)
  <2>1. (\E a : Content(line) = <<a>>) \/ (\E a, b, d : Content(line) = <<a, b, d>>)
    BY DEF Content
  <2>2. CASE c \in CodexChats
    BY <2>1, <2>2 DEF Events, normalizeCodex
  <2>3. CASE c \notin CodexChats
    BY <2>1, <2>3 DEF Events, normalize
  <2> QED BY <2>2, <2>3
<1>2. CASE \E a : Events(c, line) = <<a>>
  <2> PICK a : Events(c, line) = <<a>>
    BY <1>2
  <2>1. a \in T
    OBVIOUS
  <2> HIDE DEF T
  <2>2. <<a>> \in Seq(T)
    BY <2>1
  <2> QED BY <2>2 DEF T
<1>3. CASE \E a, b, d : Events(c, line) = <<a, b, d>>
  <2> PICK a, b, d : Events(c, line) = <<a, b, d>>
    BY <1>3
  <2>1. a \in T /\ b \in T /\ d \in T
    OBVIOUS
  <2> HIDE DEF T
  <2>2. <<a, b, d>> \in Seq(T)
    BY <2>1
  <2> QED BY <2>2 DEF T
<1> QED BY <1>1, <1>2, <1>3

\* So do lines; and so does what the window is told of them.
LEMMA EventsAreSeq ==
  ASSUME NEW c, NEW lines, NEW m \in Nat, DOMAIN lines = 1 .. m
  PROVE  \E T : EventsOf(c, lines) \in Seq(T)
<1> DEFINE L == [k \in 1 .. m |-> Events(c, lines[k])]
           T == UNION {{Events(c, lines[k])[j] : j \in 1 .. 3} : k \in 1 .. m}
<1>1. ASSUME NEW k \in 1 .. m PROVE Events(c, lines[k]) \in Seq(T)
  <2> DEFINE Tk == {Events(c, lines[k])[j] : j \in 1 .. 3}
  <2>1. Events(c, lines[k]) \in Seq(Tk)
    BY EventsAreList
  <2>2. Tk \subseteq T
    OBVIOUS
  <2> HIDE DEF T, Tk
  <2> QED BY <2>1, <2>2, SeqMonotonic
<1> HIDE DEF T
<1>2. L \in [1 .. m -> Seq(T)]
  BY <1>1
<1>3. EventsOf(c, lines) = FlattenSeq(L)
  BY DEF EventsOf
<1> HIDE DEF L
<1> QED BY <1>2, <1>3, FlattenIsSeq

\* What the window is told of the events that show.
LEMMA Streamed ==
  ASSUME NEW events, IsSeq(events), NEW r
  PROVE  IsSeq(Stream(r, events)) /\ \A i \in Positions(Stream(r, events)) :
                                       Stream(r, events)[i].type = "stream"
<1> DEFINE shown == SelectSeq(events, Shows)
           ms == [i \in DOMAIN shown |-> [type |-> "stream", req |-> r, event |-> shown[i]]]
<1> PICK T : events \in Seq(T)
  BY DEF IsSeq
<1>1. DOMAIN shown = 1 .. Len(shown) /\ Len(shown) \in Nat
  OBVIOUS
<1> HIDE DEF shown
<1> DEFINE n == Len(shown)
           U == {ms[i] : i \in 1 .. n}
<1>2. ms \in [1 .. n -> U] /\ n \in Nat
  BY <1>1
<1>3. ms \in Seq(U) /\ Len(ms) = n
  <2> HIDE DEF ms, U, n
  <2> QED BY <1>2
<1>4. \A i \in 1 .. n : ms[i].type = "stream"
  BY <1>1
<1>5. IsSeq(ms) /\ \A i \in Positions(ms) : ms[i].type = "stream"
  <2> HIDE DEF ms, U, n
  <2> QED BY <1>3, <1>4 DEF IsSeq, Positions
<1> QED BY <1>5 DEF shown, Stream

\* The events of what is drained from a buffer.
LEMMA EventsDrained ==
  ASSUME NEW c, NEW buf \in Seq(Halves)
  PROVE  IsSeq(EventsOf(c, drain(buf).objects))
<1>1. PICK m \in Nat : DOMAIN drain(buf).objects = 1 .. m
  BY Drained
<1>2. \E T : EventsOf(c, drain(buf).objects) \in Seq(T)
  BY <1>1, EventsAreSeq
<1> QED BY <1>2 DEF IsSeq

-----------------------------------------------------------------------------

\* What the engines print in a turn.
LEMMA LinesAre ==
  ASSUME NEW n \in Nat
  PROVE  /\ CodexLines(n) \in Seq(Lines) /\ ClaudeLines(n) \in Seq(Lines)
         /\ << UserLine(n) >> \in Seq(Lines)
<1>1. \A type \in LineTypes : Line(type, n) \in Lines
  BY DEF Line, Lines
<1>2. UserLine(n) \in Lines
  BY DEF UserLine, Lines, LineTypes
<1>3. \A x, y, z \in Lines : <<x, y, z>> \in Seq(Lines) /\ <<x>> \in Seq(Lines)
  OBVIOUS
<1>4. << UserLine(n) >> \in Seq(Lines)
  BY <1>2, <1>3
<1>5. /\ Line("init", n) \in Lines /\ Line("assistant", n) \in Lines /\ Line("user", n) \in Lines
      /\ Line("delta", n) \in Lines /\ Line("toolCall/started", n) \in Lines
      /\ Line("toolCall/completed", n) \in Lines
  BY <1>1 DEF LineTypes
<1>6. CodexLines(n) \in Seq(Lines)
  BY <1>3, <1>5 DEF CodexLines
<1>7. ClaudeLines(n) \in Seq(Lines)
  BY <1>3, <1>5 DEF ClaudeLines
<1> QED BY <1>4, <1>6, <1>7

\* Whatever the main process takes from its queue.
LEMMA HandleKeeps ==
  ASSUME WInv, Handle
  PROVE  WInv'
<1> DEFINE call == Head(toMain)
<1>1. /\ toMain # <<>> /\ toMain' = Tail(toMain) /\ UNCHANGED windowVars
      /\ \/ HandleList(call) \/ HandleCreate(call) \/ HandleSend(call) \/ HandleCancel(call)
         \/ HandleLoad(call) \/ HandleRename(call) \/ HandleDelete(call)
  BY DEF Handle
<1>2. Rest(toMain', toMain) /\ call = toMain[1]
  <2>1. IsSeq(toMain)
    BY DEF WInv, Shapes, Calls
  <2> QED BY <1>1, <2>1, TailRests
<1> HIDE DEF call
<1>3. /\ CallOK(call, sent, page, used) /\ page \in Nat /\ sent \in Nat /\ IsIndex(store, used)
      /\ used \subseteq Chats /\ TurnsOK(turn, sent, page, used) /\ turn \in [Chats -> Turns]
  BY <1>2 DEF WInv, Shapes, Calls, Rest, TurnsOK
<1>4. UNCHANGED <<page, sent, inflight, chats>>
  BY <1>1 DEF windowVars
<1>5. ASSUME NEW ok \in BOOLEAN, NEW v, call.op \notin ListOps, call.op # "delete",
             call.op = "send" => ~ok
      PROVE  MessageOK(Reply(call, ok, v), sent, page, used) /\ Harmless(Reply(call, ok, v))
  <2> DEFINE y == Reply(call, ok, v)
  <2>1. y.type = "reply" /\ y.call = call /\ y.ok = ok
    BY DEF Reply
  <2> HIDE DEF y
  <2>2. MessageOK(y, sent, page, used) /\ Harmless(y)
    BY <1>3, <1>5, <2>1 DEF MessageOK, Harmless
  <2> QED BY <2>2 DEF y
<1>6. CASE HandleList(call)
  BY <1>1, <1>2, <1>6, HandleListStep
<1>7. CASE HandleCreate(call)
  BY <1>1, <1>2, <1>7, CreateStep
<1>8. CASE HandleSend(call)
  <2>1. call.op = "send" /\ UNCHANGED <<store, used, deleting>>
    BY <1>8 DEF HandleSend
  <2>p. PICK ok \in BOOLEAN :
       /\ ok => call.chat \in DOMAIN store /\ turn[call.chat].req = NoReq
       /\ ToWindow(<< Reply(call, ok, NoReq) >>)
       /\ IF ok
          THEN turn' = [turn EXCEPT ![call.chat] =
                 [NoTurn EXCEPT !.req = call.req, !.page = call.page,
                                !.todo = << UserLine(call.req) >> \o
                                  (IF call.chat \in CodexChats THEN CodexLines(call.req)
                                   ELSE ClaudeLines(call.req))]]
          ELSE UNCHANGED turn
    BY <1>8 DEF HandleSend
  <2>2. CASE ~ok
    <3>1. MessageOK(Reply(call, ok, NoReq), sent, page, used) /\ Harmless(Reply(call, ok, NoReq))
      BY <1>5, <2>1, <2>2 DEF ListOps
    <3>2. ToWindow(<< Reply(call, ok, NoReq) >>) /\ UNCHANGED turn
      BY <2>2, <2>p
    <3> DEFINE y == Reply(call, ok, NoReq)
    <3> HIDE DEF y
    <3>3. ToWindow(<<y>>) /\ MessageOK(y, sent, page, used) /\ Harmless(y)
      BY <3>1, <3>2 DEF y
    <3>4. ~(toMain[1].op \in ListOps /\ toMain[1].page = page)
      BY <1>2, <2>1 DEF ListOps
    <3>5. TurnsOK(turn', sent, page, used)
      BY <1>3, <3>2
    <3> QED BY <1>2, <1>4, <2>1, <3>2, <3>3, <3>4, <3>5, ReplyStep
  <2>3. CASE ok
    <3> DEFINE d == call.chat
               lines == IF d \in CodexChats THEN CodexLines(call.req) ELSE ClaudeLines(call.req)
               todo == << UserLine(call.req) >> \o lines
               r == [NoTurn EXCEPT !.req = call.req, !.page = call.page, !.todo = todo]
    <3>1. d \in DOMAIN store /\ turn[d].req = NoReq /\ ToWindow(<< Reply(call, TRUE, NoReq) >>)
          /\ turn' = [turn EXCEPT ![d] = r] /\ d \in Chats
      <4>1. ok = TRUE
        BY <2>3
      <4> QED BY <1>3, <2>3, <2>p, <4>1 DEF IsIndex
    <3>2. call.req \in Nat /\ call.page \in Nat
      BY <1>3, <2>1 DEF CallOK
    <3>3. todo \in Seq(Lines)
      <4>1. lines \in Seq(Lines)
        BY <3>2, LinesAre
      <4>2. << UserLine(call.req) >> \in Seq(Lines)
        BY <3>2, LinesAre
      <4> HIDE DEF lines
      <4> QED BY <4>1, <4>2
    <3> HIDE DEF todo
    <3>4. r \in Turns /\ r.req = call.req /\ r.page = call.page
      <4>1. <<>> \in Seq(Halves) /\ <<>> \in Seq(Lines) /\ 0 \in Nat
        OBVIOUS
      <4>2. NoTurn \in Turns
        BY <4>1 DEF NoTurn, Turns, NoReq
      <4> QED BY <3>2, <3>3, <4>2 DEF Turns
    <3> HIDE DEF r
    <3>5. /\ turn' \in [Chats -> Turns] /\ turn'[d].req = call.req /\ turn'[d].page = call.page
          /\ \A c \in Chats : c # d => turn'[c] = turn[c]
      BY <1>3, <3>1, <3>4
    <3> HIDE DEF d
    <3>6. d = call.chat
      BY DEF d
    <3> QED BY <1>2, <1>4, <2>1, <3>1, <3>5, <3>6, AcceptStep
  <2> QED BY <2>2, <2>3
<1>9. CASE HandleCancel(call)
  <2>1. call.op = "cancel" /\ UNCHANGED <<store, used, deleting>> /\ Stop(call.chat)
        /\ ToWindow(<< Reply(call, TRUE, NoReq) >>)
    BY <1>9 DEF HandleCancel
  <2>2. MessageOK(Reply(call, TRUE, NoReq), sent, page, used) /\ Harmless(Reply(call, TRUE, NoReq))
    BY <1>5, <2>1 DEF ListOps
  <2>3. ~(toMain[1].op \in ListOps /\ toMain[1].page = page)
    BY <1>2, <2>1 DEF ListOps
  <2>4. /\ TurnsOK(turn', sent, page, used)
        /\ \A d \in Chats : turn'[d].req = turn[d].req /\ turn'[d].page = turn[d].page
    BY <2>1, StopIs
  <2> QED BY <1>2, <1>4, <2>1, <2>2, <2>3, <2>4, ReplyStep
<1>10. CASE HandleLoad(call)
  <2>1. call.op = "load" /\ UNCHANGED <<store, used, deleting, turn>>
    BY <1>10 DEF HandleLoad
  <2> DEFINE ok == call.chat \in DOMAIN store
             v == IF ok THEN loadHistory(call.chat) ELSE <<>>
  <2>2. ok \in BOOLEAN /\ ToWindow(<< Reply(call, ok, v) >>)
    BY <1>10 DEF HandleLoad
  <2> HIDE DEF ok, v
  <2>3. MessageOK(Reply(call, ok, v), sent, page, used) /\ Harmless(Reply(call, ok, v))
    BY <1>5, <2>1, <2>2 DEF ListOps
  <2>4. ~(toMain[1].op \in ListOps /\ toMain[1].page = page)
    BY <1>2, <2>1 DEF ListOps
  <2>5. TurnsOK(turn', sent, page, used)
    BY <1>3, <2>1
  <2> QED BY <1>2, <1>4, <2>1, <2>2, <2>3, <2>4, <2>5, ReplyStep
<1>11. CASE HandleRename(call)
  <2>1. CASE call.chat \in DOMAIN store
    BY <1>1, <1>2, <1>11, <2>1, RenameStep
  <2>2. CASE call.chat \notin DOMAIN store
    <3>1. call.op = "rename" /\ UNCHANGED <<store, used, deleting, turn>>
          /\ ToWindow(<< Reply(call, FALSE, NoReq) >>)
      BY <1>11, <2>2 DEF HandleRename
    <3>2. MessageOK(Reply(call, FALSE, NoReq), sent, page, used) /\ Harmless(Reply(call, FALSE, NoReq))
      BY <1>5, <3>1 DEF ListOps
    <3>3. ~(toMain[1].op \in ListOps /\ toMain[1].page = page)
      BY <1>2, <3>1 DEF ListOps
    <3>4. TurnsOK(turn', sent, page, used)
      BY <1>3, <3>1
    <3> QED BY <1>2, <1>4, <3>1, <3>2, <3>3, <3>4, ReplyStep
  <2> QED BY <2>1, <2>2
<1>12. CASE HandleDelete(call)
  <2>1. call.op = "delete" /\ UNCHANGED <<store, used, toWindow>> /\ Stop(call.chat)
        /\ deleting' = deleting \cup {call}
    BY <1>12 DEF HandleDelete
  <2>2. Joined(toWindow', toWindow, <<>>) /\ Positions(<<>>) = {}
    <3>1. IsSeq(toWindow)
      BY DEF WInv, Shapes, Messages
    <3> QED BY <2>1, <3>1, JoinedSame, ShortSeq
  <2>3. ~(toMain[1].op \in ListOps /\ toMain[1].page = page)
    BY <1>2, <2>1 DEF ListOps
  <2>4. /\ TurnsOK(turn', sent, page, used)
        /\ \A d \in Chats : turn'[d].req = turn[d].req /\ turn'[d].page = turn[d].page
    BY <2>1, StopIs
  <2>5. \A x \in deleting' : CallOK(x, sent, page, used) /\ x.op = "delete"
    BY <1>3, <2>1 DEF WInv, Shapes
  <2> QED BY <1>2, <1>4, <2>1, <2>2, <2>3, <2>4, <2>5, QuietStep
<1> QED BY <1>1, <1>6, <1>7, <1>8, <1>9, <1>10, <1>11, <1>12

-----------------------------------------------------------------------------

\* What an engine prints changes no request.
LEMMA TurnIs ==
  ASSUME WInv, NEW c \in Chats, NEW r, r \in Turns, r.req = turn[c].req, r.page = turn[c].page,
         turn' = [turn EXCEPT ![c] = r]
  PROVE  /\ TurnsOK(turn', sent, page, used)
         /\ \A d \in Chats : turn'[d].req = turn[d].req /\ turn'[d].page = turn[d].page
<1>1. turn \in [Chats -> Turns]
  BY DEF WInv, Shapes, TurnsOK
<1>2. turn' \in [Chats -> Turns] /\ turn'[c] = r /\ \A d \in Chats : d # c => turn'[d] = turn[d]
  BY <1>1
<1> QED BY <1>2 DEF WInv, Shapes, TurnsOK

\* An engine prints a line: nothing that the relations speak of changes.
LEMMA WriteLineKeeps ==
  ASSUME WInv, NEW c \in Chats, WriteLine(c)
  PROVE  WInv'
<1> DEFINE t == turn[c]
           line == Head(t.todo)
           r == [t EXCEPT !.todo = Tail(@),
                          !.pipe = IF line = UserLine(t.req) THEN @ ELSE @ \o HalvesOf(line)]
<1>1. t \in Turns /\ t.todo # <<>>
  BY DEF WInv, Shapes, TurnsOK, WriteLine
<1>2. /\ UNCHANGED <<page, sent, inflight, chats, toMain, toWindow, store, used, deleting>>
      /\ turn' = [turn EXCEPT ![c].todo = Tail(t.todo),
                              ![c].pipe = IF line = UserLine(t.req) THEN @ ELSE @ \o HalvesOf(line)]
  BY DEF WriteLine, windowVars
<1>3. turn' = [turn EXCEPT ![c] = r]
  <2>1. turn \in [Chats -> Turns]
    BY DEF WInv, Shapes, TurnsOK
  <2> QED BY <1>1, <1>2, <2>1 DEF Turns
<1>4. r \in Turns /\ r.req = t.req /\ r.page = t.page
  <2>1. t.todo \in Seq(Lines) /\ t.pipe \in Seq(Halves)
    BY <1>1 DEF Turns
  <2>2. Tail(t.todo) \in Seq(Lines) /\ line \in Lines
    BY <1>1, <2>1, HeadTailProperties
  <2>3. HalvesOf(line) \in Seq(Halves)
    BY <2>2 DEF HalvesOf, Halves
  <2>4. t.pipe \o HalvesOf(line) \in Seq(Halves)
    BY <2>1, <2>3
  <2> QED BY <1>1, <2>1, <2>2, <2>4 DEF Turns
<1>5. /\ TurnsOK(turn', sent, page, used)
      /\ \A d \in Chats : turn'[d].req = turn[d].req /\ turn'[d].page = turn[d].page
  <2> HIDE DEF r
  <2> QED BY <1>3, <1>4, TurnIs
<1>6. IsSeq(toMain) /\ IsSeq(toWindow)
  BY DEF WInv, Shapes, Calls, Messages
<1>7. /\ Joined(toMain', toMain, <<>>) /\ Joined(toWindow', toWindow, <<>>)
      /\ Positions(<<>>) = {}
  BY <1>2, <1>6, JoinedSame, ShortSeq
<1>8. \A x \in deleting' : CallOK(x, sent, page, used) /\ x.op = "delete"
  BY <1>2 DEF WInv, Shapes
<1> QED BY <1>2, <1>5, <1>7, <1>8, QuietStep

\* A chunk of output: the window is told of events of the turn, and meta may be noted.
LEMMA DataKeeps ==
  ASSUME WInv, NEW c \in Chats, Data(c)
  PROVE  WInv'
<1> DEFINE t == turn[c]
<1>1. t \in Turns /\ turn \in [Chats -> Turns]
  BY DEF WInv, Shapes, TurnsOK
<1>2. UNCHANGED <<page, sent, inflight, chats, toMain, store, used, deleting>>
  BY DEF Data, windowVars
<1> PICK k \in 1 .. Len(t.pipe) :
           LET d == drain(t.buf \o SubSeq(t.pipe, 1, k))
               events == EventsOf(c, d.objects)
           IN  /\ turn' = [turn EXCEPT
                    ![c].pipe = SubSeq(@, k + 1, Len(@)), ![c].buf = d.buf,
                    ![c].init = @ \/ \E i \in DOMAIN events :
                                       "sessionId" \in DOMAIN events[i] /\ events[i].sessionId]
               /\ ToWindow(Stream(t.req, events))
  BY DEF Data
<1> DEFINE buf == t.buf \o SubSeq(t.pipe, 1, k)
           events == EventsOf(c, drain(buf).objects)
           ms == Stream(t.req, events)
           known == \E i \in DOMAIN events : "sessionId" \in DOMAIN events[i] /\ events[i].sessionId
<1>3. /\ turn' = [turn EXCEPT ![c].pipe = SubSeq(@, k + 1, Len(@)), ![c].buf = drain(buf).buf,
                             ![c].init = @ \/ known]
      /\ ToWindow(ms)
  OBVIOUS
<1>4. /\ SubSeq(t.pipe, 1, k) \in Seq(Halves) /\ SubSeq(t.pipe, k + 1, Len(t.pipe)) \in Seq(Halves)
      /\ t.buf \in Seq(Halves)
  <2>1. t.pipe \in Seq(Halves) /\ t.buf \in Seq(Halves)
    BY <1>1 DEF Turns
  <2>2. Len(t.pipe) \in Nat /\ \A i \in 1 .. Len(t.pipe) : t.pipe[i] \in Halves
    BY <2>1, LenProperties
  <2>3. \A i \in 1 .. k : t.pipe[i] \in Halves
    BY <2>2
  <2>4. \A i \in k + 1 .. Len(t.pipe) : t.pipe[i] \in Halves
    BY <2>2
  <2> QED BY <2>1, <2>2, <2>3, <2>4, SubSeqProperties
<1>5. buf \in Seq(Halves)
  BY <1>4
<1> HIDE DEF buf
<1>6. drain(buf).buf \in Seq(Halves) /\ IsSeq(events)
  BY <1>5, Drained, EventsDrained
<1> DEFINE r == [t EXCEPT !.pipe = SubSeq(@, k + 1, Len(@)), !.buf = drain(buf).buf,
                          !.init = @ \/ known]
<1> HIDE DEF events
<1>7. IsSeq(ms) /\ \A i \in Positions(ms) : ms[i].type = "stream"
  BY <1>6, Streamed
<1> HIDE DEF ms
<1>8. known \in BOOLEAN
  OBVIOUS
<1> HIDE DEF known
<1>9. turn' = [turn EXCEPT ![c] = r]
  BY <1>1, <1>3 DEF Turns
<1>10. r \in Turns /\ r.req = t.req /\ r.page = t.page
  BY <1>1, <1>4, <1>6, <1>8 DEF Turns
<1>11. /\ TurnsOK(turn', sent, page, used)
       /\ \A d \in Chats : turn'[d].req = turn[d].req /\ turn'[d].page = turn[d].page
  <2> HIDE DEF r
  <2> QED BY <1>9, <1>10, TurnIs
<1>12. IsSeq(toMain) /\ IsSeq(toWindow)
  BY DEF WInv, Shapes, Calls, Messages
<1>13. Joined(toMain', toMain, <<>>) /\ Positions(<<>>) = {} /\ Joined(toWindow', toWindow, ms)
  <2>1. Joined(toMain', toMain, <<>>) /\ Positions(<<>>) = {}
    BY <1>2, <1>12, JoinedSame, ShortSeq
  <2>2. Joined(toWindow \o ms, toWindow, ms)
    BY <1>7, <1>12, ConcatJoins
  <2> QED BY <1>3, <2>1, <2>2 DEF ToWindow
<1>14. \A j \in Positions(ms) : MessageOK(ms[j], sent, page, used) /\ Harmless(ms[j])
  BY <1>7 DEF MessageOK, Harmless
<1>15. \A x \in deleting' : CallOK(x, sent, page, used) /\ x.op = "delete"
  BY <1>2 DEF WInv, Shapes
<1> QED BY <1>2, <1>11, <1>13, <1>14, <1>15, QuietStep

\* The engine exits: the turn is over, its end is sent after all that was sent before, and
\* the time stamp of the chat goes up.
LEMMA ExitKeeps ==
  ASSUME WInv, NEW c \in Chats, Exit(c)
  PROVE  WInv'
<1> DEFINE t == turn[c]
<1>1. /\ t.req # NoReq /\ turn' = [turn EXCEPT ![c] = NoTurn]
      /\ UNCHANGED <<page, sent, inflight, chats, toMain, used, deleting>>
  BY DEF Exit, windowVars
<1> DEFINE raised == [store EXCEPT ![c].updatedAt = @ + 1]
<1>2. /\ \E ok : ToWindow(<< [type |-> "end", req |-> t.req, ok |-> ok] >>)
      /\ store' = store \/ (c \in DOMAIN store /\ store' = raised)
  BY DEF Exit
<1>p. PICK ok : ToWindow(<< [type |-> "end", req |-> t.req, ok |-> ok] >>)
  BY <1>2
<1> DEFINE y == [type |-> "end", req |-> t.req, ok |-> ok]
<1>y. y.type = "end" /\ y.req = t.req
  OBVIOUS
<1> HIDE DEF y
<1>w. IsSeq(toMain) /\ IsSeq(toWindow)
  BY DEF WInv, Shapes, Calls, Messages
<1>3. Joined(toWindow', toWindow, <<y>>) /\ Positions(<<y>>) = {1} /\ <<y>>[1] = y
  <2>1. ToWindow(<<y>>)
    BY <1>p DEF y
  <2> QED BY <1>w, <2>1, Told1
<1>4. /\ IsIndex(store', used) /\ Newer(store', store) /\ DOMAIN store' = DOMAIN store
      /\ \A d \in DOMAIN store : store'[d].title = store[d].title
  <2>0. IsIndex(store, used) /\ store \in [DOMAIN store -> Metas]
    BY DEF WInv, Shapes, IsIndex
  <2>1. CASE store' = store
    BY <2>0, <2>1 DEF Newer
  <2>2. CASE c \in DOMAIN store /\ store' = raised
    <3>1. DOMAIN store' = DOMAIN store
      BY <2>0, <2>2
    <3>2. ASSUME NEW d \in DOMAIN store
          PROVE  /\ store'[d] \in Metas /\ store'[d].title = store[d].title
                 /\ store'[d] = store[d] \/ store'[d].updatedAt > store[d].updatedAt
      <4>1. store[d] \in Metas
        BY <2>0
      <4>2. CASE d = c
        <5>1. store'[d] = [title |-> store[d].title, updatedAt |-> store[d].updatedAt + 1]
          BY <2>0, <2>2, <4>1, <4>2 DEF Metas
        <5>2. store[d].title \in Nat /\ store[d].updatedAt \in Nat
          BY <4>1 DEF Metas
        <5> QED BY <5>1, <5>2 DEF Metas
      <4>3. CASE d # c
        BY <2>0, <2>2, <4>1, <4>3
      <4> QED BY <4>2, <4>3
    <3>3. store' \in [DOMAIN store' -> Metas]
      <4>1. store' = [d \in DOMAIN store |-> store'[d]]
        BY <2>0, <2>2
      <4> QED BY <3>1, <3>2, <4>1
    <3> QED BY <2>0, <3>1, <3>2, <3>3 DEF IsIndex, Newer
  <2> QED BY <1>2, <2>1, <2>2
<1> USE DEF WInv, Shapes
<1>5. /\ turn' \in [Chats -> Turns] /\ turn'[c] = NoTurn /\ NoTurn.req = NoReq
      /\ \A d \in Chats : d # c => turn'[d] = turn[d]
  <2>1. turn \in [Chats -> Turns]
    BY DEF TurnsOK
  <2>2. NoTurn \in Turns
    <3>1. <<>> \in Seq(Halves) /\ <<>> \in Seq(Lines) /\ 0 \in Nat
      OBVIOUS
    <3> QED BY <3>1 DEF NoTurn, Turns, NoReq
  <2>3. NoTurn.req = NoReq
    BY DEF NoTurn
  <2> QED BY <1>1, <2>1, <2>2, <2>3
<1>6. TurnsOK(turn', sent, page, used)
  <2>1. NoTurn.req = 0 /\ NoTurn.page = 0
    BY DEF NoTurn, NoReq
  <2> QED BY <1>5, <2>1 DEF TurnsOK, NoReq
<1>r. t.req \in 1 .. sent
  BY <1>1 DEF TurnsOK, Turns, NoReq
<1>0. sent <= sent /\ page <= page /\ used \subseteq used
  OBVIOUS
<1>7. Messages(toWindow', sent, page, used)
  <2>1. \A j \in Positions(<<y>>) : MessageOK(<<y>>[j], sent, page, used)
    BY <1>3, <1>r, <1>y DEF MessageOK
  <2> QED BY <1>0, <1>3, <2>1, MessagesJoin
<1>8. Deleted(toWindow', store')
  <2>1. Deleted(<<y>>, store')
    BY <1>3, <1>y DEF Deleted
  <2> QED BY <1>3, <1>4, <2>1, DeletedJoin
<1>e. \A q : HasEnd(toWindow', q) <=> HasEnd(toWindow, q) \/ q = t.req
  <2>1. \A q : HasEnd(<<y>>, q) <=> q = t.req
    BY <1>3, <1>y DEF HasEnd
  <2> QED BY <1>3, <2>1, JoinedEnd
<1>9. OneRequest(toMain', toWindow', turn')
  <2>1. \A i \in Positions(toMain) : toMain[i].op = "send" => toMain[i].req # NoReq
    BY DEF Calls, CallOK, NoReq
  <2>2. turn'[c].req = NoReq /\ \A d \in Chats : d # c => turn'[d].req = turn[d].req
    BY <1>5
  <2>3. OneRequest(toMain, toWindow, turn) /\ turn[c].req # NoReq
        /\ \A q : HasEnd(toWindow', q) => HasEnd(toWindow, q) \/ q = turn[c].req
    BY <1>1, <1>e
  <2>4. OneRequest(toMain, toWindow', turn')
    <3> HIDE DEF WInv, Shapes
    <3> QED BY <2>1, <2>2, <2>3, RequestEnds
  <2> QED BY <1>1, <2>4
<1>10. Blocked(inflight, turn', toWindow')
  <2> SUFFICES ASSUME NEW d \in Chats, inflight[d] # NoReq
               PROVE  turn'[d].req = inflight[d] \/ HasEnd(toWindow', inflight[d])
    BY DEF Blocked
  <2>1. turn[d].req = inflight[d] \/ HasEnd(toWindow, inflight[d])
    BY DEF Blocked
  <2> QED BY <1>e, <1>5, <2>1
<1>11. Followed(toWindow', turn')
  <2>1. Followed(<<y>>, turn')
    BY <1>3, <1>y DEF Followed
  <2>2. \A i \in Positions(toWindow) :
          /\ toWindow[i].type = "reply" /\ toWindow[i].call.op = "send" /\ toWindow[i].ok
          /\ turn[toWindow[i].call.chat].req = toWindow[i].call.req
          => \/ turn'[toWindow[i].call.chat].req = toWindow[i].call.req
             \/ HasEnd(<<y>>, toWindow[i].call.req)
    <3> SUFFICES ASSUME NEW i \in Positions(toWindow), toWindow[i].type = "reply",
                        toWindow[i].call.op = "send",
                        turn[toWindow[i].call.chat].req = toWindow[i].call.req
                 PROVE  \/ turn'[toWindow[i].call.chat].req = toWindow[i].call.req
                        \/ HasEnd(<<y>>, toWindow[i].call.req)
      OBVIOUS
    <3>1. toWindow[i].call.chat \in Chats
      BY DEF Messages, MessageOK, CallOK
    <3>2. CASE toWindow[i].call.chat = c
      <4>1. y.req = toWindow[i].call.req
        BY <1>y, <3>2
      <4> QED BY <1>3, <1>y, <4>1 DEF HasEnd
    <3>3. CASE toWindow[i].call.chat # c
      BY <1>5, <3>1, <3>3
    <3> QED BY <3>2, <3>3
  <2>3. Followed(toWindow, turn)
    OBVIOUS
  <2> HIDE DEF WInv, Shapes
  <2> QED BY <1>3, <2>1, <2>2, <2>3, JoinedFollowed
<1>12. Told(store', turn', page, inflight, toWindow')
  <2> SUFFICES ASSUME NEW d \in DOMAIN store', turn'[d].req # NoReq, turn'[d].page = page
               PROVE  Hears(inflight, turn'[d].req, toWindow', d, page)
    BY DEF Told
  <2>1. d \in Chats /\ d \in DOMAIN store
    BY <1>4 DEF IsIndex
  <2>2. turn'[d] = turn[d]
    BY <1>5, <2>1
  <2>3. Hears(inflight, turn[d].req, toWindow, d, page)
    BY <2>1, <2>2 DEF Told
  <2>4. NoAccept(<<y>>, d, page)
    BY <1>3, <1>y DEF NoAccept, Accepts
  <2> QED BY <1>3, <2>2, <2>3, <2>4, HearsJoined
<1>13. Follows(toMain', toWindow', page, chats, store')
  <2>1. NoList(<<y>>, page)
    BY <1>3, <1>y DEF NoList, Lists
  <2>2. Follows(toMain, toWindow', page, chats, store')
    BY <1>3, <1>4, <2>1, FollowsJoin
  <2> QED BY <1>1, <2>2
<1>14. Dated(toWindow', chats, store')
  <2>1. \A i \in Positions(toWindow) : IsList(toWindow[i]) => IsIndex(toWindow[i].value, used)
    BY DEF Messages, MessageOK, IsList
  <2>2. store' \in [DOMAIN store' -> Metas]
    BY <1>4 DEF IsIndex
  <2>3. Dated(toWindow, chats, store')
    BY <1>4, <2>1, <2>2, DatedNewer
  <2>4. \A i \in Positions(toWindow') : IsList(toWindow'[i]) =>
          \E j \in Positions(toWindow) : toWindow'[i] = toWindow[j]
    BY <1>3, <1>y DEF Joined, IsList
  <2> QED BY <2>3, <2>4, DatedFewer
<1> QED BY <1>1, <1>4, <1>6, <1>7, <1>8, <1>9, <1>10, <1>11, <1>12, <1>13, <1>14

\* What is left to read of turns that are over, as lists of events.
LateOK == \A l \in late : IsSeq(l.events)

\* Output read after the exit: the window is told of events, and nothing else changes.
LEMMA LateDataKeeps ==
  ASSUME WInv, LateOK, LateData
  PROVE  WInv' /\ LateOK'
<1> PICK l \in late : late' = late \ {l} /\ ToWindow(Stream(l.req, l.events))
  BY DEF LateData
<1>1. UNCHANGED <<page, sent, inflight, chats, toMain, store, used, deleting, turn>>
  BY DEF LateData, windowVars
<1> DEFINE ms == Stream(l.req, l.events)
<1>2. IsSeq(ms) /\ \A i \in Positions(ms) : ms[i].type = "stream"
  BY Streamed DEF LateOK
<1> HIDE DEF ms
<1>3. IsSeq(toMain) /\ IsSeq(toWindow)
  BY DEF WInv, Shapes, Calls, Messages
<1>4. Joined(toMain', toMain, <<>>) /\ Positions(<<>>) = {}
  BY <1>1, <1>3, JoinedSame, ShortSeq
<1>5. Joined(toWindow', toWindow, ms)
  <2>1. Joined(toWindow \o ms, toWindow, ms)
    BY <1>2, <1>3, ConcatJoins
  <2> QED BY <2>1 DEF ToWindow, ms
<1>6. \A j \in Positions(ms) : MessageOK(ms[j], sent, page, used) /\ Harmless(ms[j])
  BY <1>2 DEF MessageOK, Harmless
<1>7. \A x \in deleting' : CallOK(x, sent, page, used) /\ x.op = "delete"
  BY <1>1 DEF WInv, Shapes
<1>8. TurnsOK(turn', sent, page, used)
  BY <1>1 DEF WInv, Shapes
<1>9. WInv'
  BY <1>1, <1>4, <1>5, <1>6, <1>7, <1>8, QuietStep
<1>10. LateOK'
  BY DEF LateOK
<1> QED BY <1>9, <1>10

\* An exit leaves the events of what was printed and not read.
LEMMA ExitLeaves ==
  ASSUME WInv, LateOK, NEW c \in Chats, Exit(c)
  PROVE  LateOK'
<1> DEFINE left == turn[c].buf \o turn[c].pipe
           rest == EventsOf(c, drain(left).objects)
<1>1. left \in Seq(Halves)
  <2>1. turn[c].buf \in Seq(Halves) /\ turn[c].pipe \in Seq(Halves)
    BY DEF WInv, Shapes, TurnsOK, Turns
  <2> QED BY <2>1
<1>2. IsSeq(rest)
  <2> HIDE DEF left
  <2> QED BY <1>1, EventsDrained
<1> DEFINE new == [req |-> turn[c].req, events |-> rest]
<1>3. late' = late \/ late' = late \cup {new}
  BY DEF Exit
<1>4. new.events = rest
  OBVIOUS
<1> HIDE DEF rest, new
<1>5. IsSeq(new.events)
  BY <1>2, <1>4
<1> QED BY <1>3, <1>5 DEF LateOK

-----------------------------------------------------------------------------

\* The window has asked for the list; nothing else is on its way.
LEMMA InitHolds == Init => WInv
<1> SUFFICES ASSUME Init PROVE WInv
  OBVIOUS
<1> DEFINE x == [op |-> "list", page |-> 0, chat |-> NoChat]
<1>1. /\ page = 0 /\ sent = 0 /\ chats = <<>> /\ inflight = [c \in Chats |-> NoReq]
      /\ used = Chats \ CodexChats /\ store = [c \in used |-> NewMeta] /\ deleting = {}
      /\ turn = [c \in Chats |-> NoTurn] /\ toMain = <<x>> /\ toWindow = <<>>
  BY DEF Init
<1>x. x.op = "list" /\ x.page = 0
  OBVIOUS
<1> HIDE DEF x
<1>2. /\ IsSeq(<<>>) /\ IsSeq(<<x>>) /\ Positions(<<>>) = {} /\ Positions(<<x>>) = {1}
      /\ <<x>>[1] = x
  BY ShortSeq
<1>3. CallOK(x, 0, 0, used)
  BY <1>x DEF CallOK, Ops
<1>4. Calls(toMain, sent, page, used) /\ Messages(toWindow, sent, page, used)
  BY <1>1, <1>2, <1>3 DEF Calls, Messages
<1>5. /\ turn \in [Chats -> Turns]
      /\ \A c \in Chats : turn[c].req = NoReq /\ turn[c].page = 0
  <2>1. <<>> \in Seq(Halves) /\ <<>> \in Seq(Lines) /\ 0 \in Nat
    OBVIOUS
  <2>2. NoTurn \in Turns /\ NoTurn.req = NoReq /\ NoTurn.page = 0
    BY <2>1 DEF NoTurn, Turns, NoReq
  <2> QED BY <1>1, <2>2
<1>6. TurnsOK(turn, sent, page, used)
  BY <1>1, <1>5 DEF TurnsOK, NoReq
<1>d. DOMAIN <<>> = {} /\ <<>> = [i \in {} |-> i]
  OBVIOUS
<1>7. IsIndex(store, used) /\ IsIndex(chats, used)
  <2>1. NewMeta \in Metas
    BY DEF NewMeta, Metas
  <2>2. IsIndex(store, used)
    BY <1>1, <2>1 DEF IsIndex
  <2>3. IsIndex(chats, used)
    BY <1>1, <1>d DEF IsIndex
  <2> QED BY <2>2, <2>3
<1>8. Shapes
  BY <1>1, <1>4, <1>6, <1>7 DEF Shapes, NoReq
<1>9. Deleted(toWindow, store) /\ Followed(toWindow, turn)
  BY <1>1, <1>2 DEF Deleted, Followed
<1>10. OneRequest(toMain, toWindow, turn)
  BY <1>1, <1>2, <1>5, <1>x DEF OneRequest
<1>11. Blocked(inflight, turn, toWindow)
  BY <1>1 DEF Blocked
<1>12. Told(store, turn, page, inflight, toWindow)
  BY <1>1, <1>5, <1>7 DEF Told, IsIndex
<1>13. Follows(toMain, toWindow, page, chats, store)
  BY <1>1, <1>2, <1>x DEF Follows, ListOps
<1>14. Dated(toWindow, chats, store)
  BY <1>1, <1>2, <1>d DEF Dated, Consistent, Older
<1> QED BY <1>8, <1>9, <1>10, <1>11, <1>12, <1>13, <1>14 DEF WInv

\* Only exits and the reading of what they left change that.
LEMMA LateStays ==
  ASSUME LateOK, UserActs \/ Handle \/ DeleteDone \/ Receive
                 \/ \E c \in Chats : WriteLine(c) \/ Data(c)
  PROVE  LateOK'
<1>1. CASE UserActs
  BY <1>1 DEF UserActs, selectChat, send, cancel, delete, rename, createNewChat, Reload,
              mainVars, LateOK
<1>2. CASE Handle
  BY <1>2 DEF Handle, HandleList, HandleCreate, HandleSend, HandleCancel, HandleLoad,
              HandleRename, HandleDelete, mainVars, LateOK
<1>3. CASE DeleteDone \/ Receive \/ \E c \in Chats : WriteLine(c) \/ Data(c)
  BY <1>3 DEF DeleteDone, Receive, WriteLine, Data, mainVars, LateOK
<1> QED BY <1>1, <1>2, <1>3

\* The relation of the queues, the turns and the lists holds in every state.
LEMMA WInvHolds == Spec => []WInv
<1>1. Init => WInv /\ LateOK
  BY InitHolds DEF Init, LateOK
<1>2. ASSUME WInv, LateOK, [Next]_vars
      PROVE  WInv' /\ LateOK'
  <2>1. CASE UserActs
    BY <1>2, <2>1, UserKeeps, LateStays
  <2>2. CASE Handle
    BY <1>2, <2>2, HandleKeeps, LateStays
  <2>3. CASE DeleteDone
    BY <1>2, <2>3, DeleteKeeps, LateStays
  <2>4. CASE Engine
    <3>1. ASSUME NEW c \in Chats, WriteLine(c) PROVE WInv' /\ LateOK'
      BY <1>2, <3>1, WriteLineKeeps, LateStays
    <3>2. ASSUME NEW c \in Chats, Data(c) PROVE WInv' /\ LateOK'
      BY <1>2, <3>2, DataKeeps, LateStays
    <3>3. ASSUME NEW c \in Chats, Exit(c) PROVE WInv' /\ LateOK'
      BY <1>2, <3>3, ExitKeeps, ExitLeaves
    <3>4. CASE LateData
      BY <1>2, <3>4, LateDataKeeps
    <3> QED BY <2>4, <3>1, <3>2, <3>3, <3>4 DEF Engine
  <2>5. CASE Receive
    BY <1>2, <2>5, ReceiveKeeps, LateStays
  <2>6. CASE UNCHANGED vars
    BY <1>2, <2>6 DEF vars, windowVars, mainVars, WInv, Shapes, LateOK
  <2> QED BY <1>2, <2>1, <2>2, <2>3, <2>4, <2>5, <2>6 DEF Next
<1>3. Spec => [](WInv /\ LateOK)
  BY <1>1, <1>2, PTL DEF Spec
<1> QED BY <1>3, PTL

(***************************************************************************)
(* The input of a chat is blocked by a turn that runs, or whose end is on  *)
(* its way, and by nothing else; and a turn of this page blocks it as soon *)
(* as the acceptance has come (send and markEnded of the chat store, with  *)
(* chat:send and the exit of the engine in the main process), however      *)
(* switching, cancelling, deleting, reloading and answers interleave.      *)
(***************************************************************************)
THEOREM InputFollowsTurns == Spec => []InflightIsTrue
<1>1. ASSUME WInv
      PROVE  InflightIsTrue
  <2>1. DOMAIN toWindow = Positions(toWindow)
    BY <1>1, SeqLen DEF WInv, Shapes, Messages
  <2>2. ASSUME NEW c \in Chats, inflight[c] # NoReq
        PROVE  \/ turn[c].req = inflight[c]
               \/ \E i \in DOMAIN toWindow : toWindow[i].type = "end" /\ toWindow[i].req = inflight[c]
    BY <1>1, <2>1, <2>2 DEF WInv, Blocked, HasEnd
  <2>3. ASSUME NEW c \in DOMAIN store, turn[c].req # NoReq, turn[c].page = page
        PROVE  \/ inflight[c] = turn[c].req
               \/ \E i \in DOMAIN toWindow : /\ toWindow[i].type = "reply"
                                             /\ toWindow[i].call.op = "send"
                                             /\ toWindow[i].call.req = turn[c].req
    <3>1. Hears(inflight, turn[c].req, toWindow, c, page)
      BY <1>1, <2>3 DEF WInv, Told
    <3> QED BY <2>1, <3>1 DEF Hears, LastAccept, Accepts
  <2> QED BY <2>2, <2>3 DEF InflightIsTrue
<1> QED BY <1>1, WInvHolds, PTL

(***************************************************************************)
(* Whenever nothing is on its way, the list on display has the chats and   *)
(* the titles of the index: loadChatList, which does not set a list whose  *)
(* chats and time stamps look the same, never keeps an outdated one.       *)
(***************************************************************************)
THEOREM ListIsTheIndex == Spec => []ListFollows
<1>1. ASSUME WInv
      PROVE  ListFollows
  <2> SUFFICES ASSUME toMain = <<>>, toWindow = <<>>
               PROVE  DOMAIN chats = DOMAIN store
                      /\ \A c \in DOMAIN store : chats[c].title = store[c].title
    BY DEF ListFollows
  <2>1. Positions(toMain) = {} /\ Positions(toWindow) = {}
    BY ShortSeq
  <2>2. Agree(chats, store)
    BY <1>1, <2>1 DEF WInv, Follows, LastList
  <2> QED BY <2>2 DEF Agree
<1> QED BY <1>1, WInvHolds, PTL

-----------------------------------------------------------------------------
(***************************************************************************)
(* Connection: one reconnect at a time.                                    *)
(***************************************************************************)

\* The flag tunReconnecting is up exactly while a reconnect runs, and any two
\* reconnects are the same one.
FlagIsHeld ==
  /\ reconnecting \in BOOLEAN
  /\ reconnecting <=> reconnect # {}
  /\ \A x, y \in reconnect : x = y

\* The app starts without a reconnect.
LEMMA FlagInit == ConnInit => FlagIsHeld
  BY DEF ConnInit, FlagIsHeld

\* The gate and the main process do not touch the flag.
LEMMA OthersKeepFlag ==
  ASSUME FlagIsHeld, UNCHANGED <<reconnecting, reconnect>>
  PROVE  FlagIsHeld'
  BY DEF FlagIsHeld

\* A reconnect begins only when none runs.
LEMMA TriggerKeeps ==
  ASSUME FlagIsHeld, NEW w, triggerReconnect(w)
  PROVE  FlagIsHeld'
  BY DEF FlagIsHeld, triggerReconnect

\* The end of the reconnect drops the flag: there is no other.
LEMMA FinallyKeeps ==
  ASSUME FlagIsHeld, NEW x \in reconnect, NEW l, Finally(x, l)
  PROVE  FlagIsHeld'
  BY DEF FlagIsHeld, Finally

\* The answer of tun:reconnect, with or without the verification that follows it.
LEMMA AnswerKeeps ==
  ASSUME FlagIsHeld, NEW x \in reconnect, ReconnectAnswer(x)
  PROVE  FlagIsHeld'
<1>1. CASE /\ UNCHANGED reconnecting
           /\ reconnect' = (reconnect \ {x}) \cup {[x EXCEPT !.step = "verify"]}
  BY <1>1 DEF FlagIsHeld
<1>2. CASE Finally(x, loop)
  BY <1>2, FinallyKeeps
<1>3. CASE reconnecting' = FALSE /\ reconnect' = reconnect \ {x}
  BY <1>3 DEF FlagIsHeld
<1> QED BY <1>1, <1>2, <1>3 DEF ReconnectAnswer

\* A check of the exit address, whatever it finds.
LEMMA CheckKeeps ==
  ASSUME FlagIsHeld, NEW w \in Watches, Check(w)
  PROVE  FlagIsHeld'
<1> PICK r \in Outcomes : CheckFinds(w, r)
  BY DEF Check
<1>1. CASE UNCHANGED <<reconnecting, reconnect>>
  BY <1>1, OthersKeepFlag
<1>2. CASE triggerReconnect(w)
  BY <1>2, TriggerKeeps
<1> QED BY <1>1, <1>2 DEF CheckFinds, CheckLate, CheckGood, CheckMismatch, CheckBad

\* Every step of the gates, the watches and the user.
LEMMA FlagStep == FlagIsHeld /\ [ConnNext]_connVars => FlagIsHeld'
<1> SUFFICES ASSUME FlagIsHeld, [ConnNext]_connVars PROVE FlagIsHeld'
  OBVIOUS
<1>1. CASE OnPush \/ Die \/ Hijack \/ Logout \/ Login \/ Remount
  BY <1>1, OthersKeepFlag DEF OnPush, Die, Hijack, Logout, Login, Remount
<1>2. ASSUME NEW g \in Gates, GateStep(g) \/ GateRetry(g) PROVE FlagIsHeld'
  BY <1>2, OthersKeepFlag DEF GateStep, GateRetry
<1>3. ASSUME NEW w \in Watches, CheckTimer(w) \/ AlertAnswer(w) PROVE FlagIsHeld'
  BY <1>3, OthersKeepFlag DEF CheckTimer, AlertAnswer
<1>4. ASSUME NEW w \in Watches, Check(w) PROVE FlagIsHeld'
  BY <1>4, CheckKeeps
<1>5. ASSUME NEW w \in Watches, AcceptOffer(w) PROVE FlagIsHeld'
  BY <1>5, TriggerKeeps DEF AcceptOffer
<1>6. CASE PopoverReconnect
  BY <1>6, TriggerKeeps DEF PopoverReconnect
<1>7. CASE InterfaceAlert \/ Polling
  BY <1>7, OthersKeepFlag DEF InterfaceAlert, Polling, PollTimer, PollAnswer
<1>8. ASSUME NEW x \in reconnect, ReconnectAnswer(x) PROVE FlagIsHeld'
  BY <1>8, AnswerKeeps
<1>9. ASSUME NEW x \in reconnect, ReconnectVerify(x) PROVE FlagIsHeld'
  BY <1>9, FinallyKeeps DEF ReconnectVerify
<1>10. CASE UNCHANGED connVars
  BY <1>10, OthersKeepFlag DEF connVars
<1> QED
  BY <1>1, <1>2, <1>3, <1>4, <1>5, <1>6, <1>7, <1>8, <1>9, <1>10
     DEF ConnNext, Watching, Reconnects

\* A set in which any two are the same one has at most one.
LEMMA OneFromFlag == FlagIsHeld => OneReconnect
<1> SUFFICES ASSUME FlagIsHeld PROVE Cardinality(reconnect) <= 1
  BY DEF FlagIsHeld, OneReconnect
<1>1. CASE reconnect = {}
  BY <1>1, FS_EmptySet
<1>2. CASE reconnect # {}
  <2> PICK x \in reconnect : reconnect = {x}
    BY <1>2 DEF FlagIsHeld
  <2> QED BY FS_Singleton
<1> QED BY <1>1, <1>2

(***************************************************************************)
(* However the offer, the popover and the automatic reconnect come         *)
(* together, one tun:reconnect runs at a time (triggerReconnect and        *)
(* handleReconnectConfirm), with any number of watches.                    *)
(***************************************************************************)
THEOREM ReconnectsOnce == ConnSpec => []OneReconnect
<1>1. ConnSpec => []FlagIsHeld
  BY FlagInit, FlagStep, PTL DEF ConnSpec
<1> QED BY <1>1, OneFromFlag, PTL

-----------------------------------------------------------------------------
(***************************************************************************)
(* Connection: the chain of checks.                                        *)
(***************************************************************************)

Loops == [timer : BOOLEAN, testing : Nat, fails : Nat, attempted : BOOLEAN, offer : BOOLEAN,
          poll : BOOLEAN, pollFails : Nat, cut : BOOLEAN]

CallsMade == [by : Watches \cup {0}, step : {"call", "verify"}]

\* A watch with this loop will check again, given these reconnects.
GoesOn(w, l, calls) ==
  l.timer \/ l.testing > 0 \/ l.cut \/ \E x \in calls : x.by = w

\* The current watch is there while the app is shown, and it goes on.
Chain ==
  /\ loggedIn \in BOOLEAN /\ tunOk \in BOOLEAN
  /\ watch \in Watches \cup {0} /\ (watch # 0 <=> loggedIn /\ tunOk)
  /\ loop \in [Watches -> Loops]
  /\ reconnect \subseteq CallsMade
  /\ watch # 0 => GoesOn(watch, loop[watch], reconnect)

LEMMA NoZero == 0 \notin Watches
  BY ConnectionBounds DEF Watches

LEMMA LoopEdits ==
  ASSUME NEW l \in Loops
  PROVE  /\ NewLoop \in Loops /\ Clear(l) \in Loops
         /\ [NewLoop EXCEPT !.timer = TRUE] \in Loops
         /\ [NewLoop EXCEPT !.timer = TRUE].timer
<1>1. NewLoop \in Loops
  BY DEF NewLoop, Loops
<1>2. Clear(l) \in Loops
  BY <1>1 DEF Clear, Loops
<1>3. [NewLoop EXCEPT !.timer = TRUE] \in Loops /\ [NewLoop EXCEPT !.timer = TRUE].timer
  BY <1>1 DEF Loops
<1> QED BY <1>1, <1>2, <1>3

LEMMA ChainInit == ConnInit => Chain
<1> SUFFICES ASSUME ConnInit PROVE Chain
  OBVIOUS
<1>1. NewLoop \in Loops
  BY DEF NewLoop, Loops
<1> QED BY <1>1 DEF ConnInit, Chain

\* What React renders keeps the chain: a watch that begins has its first timer.
LEMMA RenderKeeps ==
  ASSUME Chain, NEW in \in BOOLEAN, NEW ok \in BOOLEAN, NEW l \in [Watches -> Loops], NEW g,
         Render(in, ok, l, g), reconnect' \subseteq CallsMade,
         watch # 0 /\ in /\ ok => GoesOn(watch, l[watch], reconnect')
  PROVE  Chain'
<1>0. loggedIn' = in /\ tunOk' = ok /\ watch \in Watches \cup {0}
  BY DEF Render, Chain
<1>1. CASE in /\ ok /\ watch = 0
  <2>1. PICK w \in Watches :
          watch' = w /\ loop' = [l EXCEPT ![w] = [NewLoop EXCEPT !.timer = TRUE]]
    BY <1>1 DEF Render
  <2>2. [NewLoop EXCEPT !.timer = TRUE] \in Loops /\ [NewLoop EXCEPT !.timer = TRUE].timer
    BY <2>1, LoopEdits
  <2>3. loop' \in [Watches -> Loops] /\ loop'[w].timer
    BY <2>1, <2>2
  <2>4. w # 0
    BY NoZero
  <2> QED BY <1>0, <1>1, <2>1, <2>3, <2>4 DEF Chain, GoesOn
<1>2. CASE watch # 0 /\ ~(in /\ ok)
  <2>1. watch' = 0 /\ loop' = [l EXCEPT ![watch] = Clear(l[watch])] /\ watch \in Watches
    BY <1>0, <1>2 DEF Render
  <2>2. loop' \in [Watches -> Loops]
    BY <2>1, LoopEdits
  <2> QED BY <1>0, <1>2, <2>1, <2>2 DEF Chain
<1>3. CASE ~(in /\ ok /\ watch = 0) /\ ~(watch # 0 /\ ~(in /\ ok))
  <2>1. watch' = watch /\ loop' = l
    BY <1>3 DEF Render
  <2> QED BY <1>0, <1>3, <2>1 DEF Chain
<1> QED BY <1>1, <1>2, <1>3

\* An action that leaves the parts on display alone.
LEMMA StayKeeps ==
  ASSUME Chain, UNCHANGED <<loggedIn, tunOk, watch>>, loop' \in [Watches -> Loops],
         reconnect' \subseteq CallsMade,
         watch # 0 => GoesOn(watch, loop'[watch], reconnect')
  PROVE  Chain'
  BY DEF Chain

\* A reconnect that is asked for runs, if none did.
LEMMA TriggerGoesOn ==
  ASSUME Chain, NEW w \in Watches \cup {0}, triggerReconnect(w)
  PROVE  /\ reconnect' \subseteq CallsMade /\ reconnect \subseteq reconnect'
         /\ CutShort(w) \/ \E x \in reconnect' : x.by = w
<1>1. Reconnecting(w) \in CallsMade /\ Reconnecting(w).by = w
  BY DEF Reconnecting, CallsMade
<1>2. CASE reconnecting
  BY <1>2 DEF triggerReconnect, Chain, CutShort
<1>3. CASE ~reconnecting
  BY <1>1, <1>3 DEF triggerReconnect, Chain
<1> QED BY <1>2, <1>3

\* A check answers.  One that its watch no longer hears finds the tunnel down,
\* and ends the watch.
LEMMA CheckGoesOn ==
  ASSUME Chain, NEW w \in Watches, NEW r, CheckFinds(w, r)
  PROVE  Chain'
<1> DEFINE a == Answered(w)
<1>0. /\ loop \in [Watches -> Loops] /\ loop[w] \in Loops /\ loop[w].testing \in Nat \ {0}
      /\ loggedIn \in BOOLEAN /\ tunOk \in BOOLEAN /\ watch \in Watches \cup {0}
      /\ (watch # 0 <=> loggedIn /\ tunOk) /\ reconnect \subseteq CallsMade
      /\ (watch # 0 => GoesOn(watch, loop[watch], reconnect))
  BY DEF Chain, CheckFinds, Loops
<1>1. /\ a \in [Watches -> Loops]
      /\ \A v \in Watches \ {w} : a[v] = loop[v]
  <2>1. [loop[w] EXCEPT !.testing = @ - 1] \in Loops
    BY <1>0 DEF Loops
  <2>2. a = [loop EXCEPT ![w] = [loop[w] EXCEPT !.testing = @ - 1]]
    BY DEF Answered
  <2> QED BY <1>0, <2>1, <2>2
<1>2. watch # 0 /\ watch # w => GoesOn(watch, a[watch], reconnect)
  BY <1>0, <1>1
<1> HIDE DEF a
<1>3. CASE CheckLate(w, r)
  <2> DEFINE ok == tunOk /\ ~(r = "down" /\ Down)
  <2>1. /\ Render(loggedIn, ok, a, gate) /\ ok \in BOOLEAN /\ reconnect' = reconnect
    BY <1>0, <1>3 DEF CheckLate, SetTunOk, a
  <2>2. watch # 0 /\ loggedIn /\ ok => watch # w
    BY <1>0, <1>3 DEF CheckLate, StillWatched, Down
  <2> HIDE DEF ok
  <2> QED BY <1>0, <1>1, <1>2, <2>1, <2>2, RenderKeeps
<1>4. CASE CheckGood(w, r)
  <2>1. w = watch /\ UNCHANGED <<loggedIn, tunOk, watch, reconnect>> /\ watch # 0
    BY <1>4, NoZero DEF CheckGood, StillWatched, appVars
  <2> DEFINE l == [a EXCEPT ![w].timer = TRUE]
  <2>2. l \in [Watches -> Loops] /\ l[w] \in Loops /\ l[w].timer
    BY <1>1 DEF Loops
  <2>3. loop' = [l EXCEPT ![w].fails = 0, ![w].offer = FALSE,
                          ![w].attempted = IF r = "ok" THEN FALSE ELSE @]
    BY <1>4, <2>1 DEF CheckGood, Schedule, a
  <2> HIDE DEF l
  <2>4. loop' \in [Watches -> Loops] /\ loop'[w].timer
    BY <2>2, <2>3 DEF Loops
  <2> QED BY <1>0, <2>1, <2>4, StayKeeps DEF GoesOn
<1>5. CASE CheckMismatch(w, r)
  <2>1. Render(loggedIn, FALSE, a, gate) /\ reconnect' = reconnect
    BY <1>5 DEF CheckMismatch, SetTunOk, a
  <2> QED BY <1>0, <1>1, <2>1, RenderKeeps
<1>6. CASE CheckBad(w, r)
  <2> DEFINE fails == IF loop[w].fails < 3 THEN loop[w].fails + 1 ELSE 3
             l == [a EXCEPT ![w].fails = fails, ![w].offer = @ \/ fails = 2]
  <2>1. w = watch /\ UNCHANGED <<loggedIn, tunOk, watch>> /\ watch # 0
    BY <1>6, NoZero DEF CheckBad, StillWatched, appVars
  <2>2. fails \in Nat
    BY <1>0 DEF Loops
  <2>3. l \in [Watches -> Loops]
    <3> HIDE DEF fails
    <3>1. a[w] \in Loops /\ (a[w].offer \/ fails = 2) \in BOOLEAN
      BY <1>1 DEF Loops
    <3> QED BY <1>1, <2>2, <3>1 DEF Loops
  <2>4. \/ /\ loop' = [l EXCEPT ![w].attempted = TRUE, ![w].offer = FALSE, ![w].cut = CutShort(w)]
           /\ triggerReconnect(w)
        \/ loop' = Schedule(w, l) /\ reconnect' = reconnect
    BY <1>6 DEF CheckBad, a
  <2> HIDE DEF fails, l
  <2>5. CASE /\ loop' = [l EXCEPT ![w].attempted = TRUE, ![w].offer = FALSE, ![w].cut = CutShort(w)]
             /\ triggerReconnect(w)
    <3>1. CutShort(w) \in BOOLEAN
      BY DEF CutShort
    <3>2. loop' \in [Watches -> Loops] /\ loop'[w].cut = CutShort(w)
      BY <2>3, <2>5, <3>1 DEF Loops
    <3>3. /\ reconnect' \subseteq CallsMade
          /\ CutShort(w) \/ \E x \in reconnect' : x.by = w
      BY <2>5, TriggerGoesOn
    <3> QED BY <2>1, <3>2, <3>3, StayKeeps DEF GoesOn
  <2>6. CASE loop' = Schedule(w, l) /\ reconnect' = reconnect
    <3>1. loop' = [l EXCEPT ![w].timer = TRUE]
      BY <2>1, <2>6 DEF Schedule
    <3>2. loop' \in [Watches -> Loops] /\ loop'[w].timer
      BY <2>3, <3>1 DEF Loops
    <3> QED BY <1>0, <2>1, <2>6, <3>2, StayKeeps DEF GoesOn
  <2> QED BY <2>4, <2>5, <2>6
<1> QED BY <1>3, <1>4, <1>5, <1>6 DEF CheckFinds

\* The end of a reconnect: the watch that asked for it sets its timer.
LEMMA FinallyGoesOn ==
  ASSUME Chain, NEW x \in reconnect, NEW l \in [Watches -> Loops], Finally(x, l),
         UNCHANGED <<loggedIn, tunOk, watch>>,
         \A w \in Watches : /\ l[w].timer = loop[w].timer /\ l[w].cut = loop[w].cut
                            /\ l[w].testing = loop[w].testing
  PROVE  Chain'
<1>1. /\ x \in CallsMade /\ x.by \in Watches \cup {0} /\ reconnect' = reconnect \ {x}
      /\ reconnect' \subseteq CallsMade
  BY DEF Chain, CallsMade, Finally
<1>2. CASE x.by = 0
  <2>1. loop' = l
    BY <1>2 DEF Finally
  <2>2. watch # 0 => GoesOn(watch, loop'[watch], reconnect')
    BY <1>1, <1>2, <2>1 DEF Chain, GoesOn
  <2> QED BY <1>1, <2>1, <2>2, StayKeeps
<1>3. CASE x.by # 0
  <2>1. x.by \in Watches /\ loop' = Schedule(x.by, NoOffer(x.by, l))
    BY <1>1, <1>3 DEF Finally
  <2> DEFINE n == NoOffer(x.by, l)
  <2>2. /\ n \in [Watches -> Loops]
        /\ \A w \in Watches \ {x.by} : n[w] = l[w]
    <3>1. [l[x.by] EXCEPT !.offer = FALSE] \in Loops
      BY <2>1 DEF Loops
    <3>2. n = [l EXCEPT ![x.by] = [l[x.by] EXCEPT !.offer = FALSE]]
      BY DEF NoOffer
    <3> QED BY <2>1, <3>1, <3>2
  <2> HIDE DEF n
  <2>3. CASE x.by = watch
    <3>1. loop' = [n EXCEPT ![watch].timer = TRUE]
      BY <2>1, <2>3 DEF Schedule, n
    <3>2. loop' \in [Watches -> Loops] /\ loop'[watch].timer
      <4>1. watch \in Watches /\ n \in [Watches -> Loops] /\ n[watch] \in Loops
        BY <2>1, <2>2, <2>3
      <4>2. [n[watch] EXCEPT !.timer = TRUE] \in Loops /\ [n[watch] EXCEPT !.timer = TRUE].timer
        BY <4>1 DEF Loops
      <4> QED BY <3>1, <4>1, <4>2
    <3> QED BY <1>1, <3>2, StayKeeps DEF GoesOn
  <2>4. CASE x.by # watch
    <3>1. loop' = n
      BY <2>1, <2>4 DEF Schedule, n
    <3>2. watch # 0 => GoesOn(watch, loop'[watch], reconnect')
      BY <1>1, <2>2, <2>4, <3>1 DEF Chain, GoesOn
    <3> QED BY <1>1, <2>2, <3>1, <3>2, StayKeeps
  <2> QED BY <2>3, <2>4
<1> QED BY <1>2, <1>3

LEMMA AnswerGoesOn ==
  ASSUME Chain, NEW x \in reconnect, ReconnectAnswer(x)
  PROVE  Chain'
<1>0. /\ loop \in [Watches -> Loops] /\ reconnect \subseteq CallsMade /\ x \in CallsMade
      /\ loggedIn \in BOOLEAN /\ watch \in Watches \cup {0}
      /\ (watch # 0 => GoesOn(watch, loop[watch], reconnect))
  BY DEF Chain
<1>1. ASSUME reconnect' = (reconnect \ {x}) \cup {[x EXCEPT !.step = "verify"]},
             UNCHANGED <<loop, appVars>>
      PROVE  Chain'
  <2> DEFINE y == [x EXCEPT !.step = "verify"]
  <2>1. y \in CallsMade /\ y.by = x.by
    BY <1>0 DEF CallsMade
  <2> HIDE DEF y
  <2>2. reconnect' \subseteq CallsMade
    BY <1>0, <1>1, <2>1 DEF y
  <2>3. \A w : (\E z \in reconnect : z.by = w) => \E z \in reconnect' : z.by = w
    BY <1>1, <2>1 DEF y
  <2>4. watch # 0 => GoesOn(watch, loop'[watch], reconnect')
    BY <1>0, <1>1, <2>3 DEF GoesOn
  <2> QED BY <1>0, <1>1, <2>2, <2>4, StayKeeps DEF appVars
<1>2. ASSUME Finally(x, loop), UNCHANGED appVars PROVE Chain'
  BY <1>0, <1>2, FinallyGoesOn DEF appVars
<1>3. ASSUME x.by # 0, x.by = watch, reconnect' = reconnect \ {x},
             SetTunOk(FALSE, Schedule(x.by, loop), gate)
      PROVE  Chain'
  <2>1. Schedule(x.by, loop) \in [Watches -> Loops]
    BY <1>0, <1>3 DEF Schedule, Loops
  <2>2. Render(loggedIn, FALSE, Schedule(x.by, loop), gate) /\ reconnect' \subseteq CallsMade
    BY <1>0, <1>3 DEF SetTunOk
  <2> QED BY <1>0, <2>1, <2>2, RenderKeeps
<1> QED BY <1>1, <1>2, <1>3 DEF ReconnectAnswer

LEMMA VerifyGoesOn ==
  ASSUME Chain, NEW x \in reconnect, ReconnectVerify(x)
  PROVE  Chain'
<1>0. loop \in [Watches -> Loops] /\ x \in CallsMade /\ x.by \in Watches \cup {0}
  BY DEF Chain, CallsMade
<1>1. PICK r \in Outcomes :
        Finally(x, IF r = "ok" /\ x.by # 0 /\ x.by = watch
                   THEN [loop EXCEPT ![x.by].fails = 0, ![x.by].attempted = FALSE]
                   ELSE loop)
  BY DEF ReconnectVerify
<1>2. UNCHANGED <<loggedIn, tunOk, watch>>
  BY DEF ReconnectVerify, appVars
<1>3. CASE r = "ok" /\ x.by # 0 /\ x.by = watch
  <2> DEFINE l == [loop EXCEPT ![x.by].fails = 0, ![x.by].attempted = FALSE]
  <2>1. /\ l \in [Watches -> Loops]
        /\ \A w \in Watches : /\ l[w].timer = loop[w].timer /\ l[w].cut = loop[w].cut
                              /\ l[w].testing = loop[w].testing
    BY <1>0 DEF Loops
  <2>2. Finally(x, l)
    BY <1>1, <1>3
  <2> HIDE DEF l
  <2> QED BY <1>2, <2>1, <2>2, FinallyGoesOn
<1>4. CASE ~(r = "ok" /\ x.by # 0 /\ x.by = watch)
  <2>1. Finally(x, loop)
    BY <1>1, <1>4
  <2> QED BY <1>0, <1>2, <2>1, FinallyGoesOn
<1> QED BY <1>3, <1>4

LEMMA ChainStep == Chain /\ [ConnNext]_connVars => Chain'
<1> SUFFICES ASSUME Chain, [ConnNext]_connVars PROVE Chain'
  OBVIOUS
<1>0. /\ loop \in [Watches -> Loops] /\ reconnect \subseteq CallsMade
      /\ loggedIn \in BOOLEAN /\ tunOk \in BOOLEAN /\ watch \in Watches \cup {0}
      /\ (watch # 0 => GoesOn(watch, loop[watch], reconnect))
  BY DEF Chain
<1>s. ASSUME UNCHANGED <<loggedIn, tunOk, watch, loop, reconnect>> PROVE Chain'
  BY <1>s DEF Chain
<1>r. ASSUME NEW in \in BOOLEAN, NEW ok \in BOOLEAN, NEW g, Render(in, ok, loop, g),
             UNCHANGED reconnect
      PROVE  Chain'
  BY <1>0, <1>r, RenderKeeps
<1>1. CASE OnPush
  <2>1. SetTunOk(tunOk /\ ~Down, loop, gate) /\ UNCHANGED reconnect
    BY <1>1 DEF OnPush
  <2>2. (tunOk /\ ~Down) \in BOOLEAN
    BY <1>0
  <2> QED BY <1>0, <1>r, <2>1, <2>2 DEF SetTunOk
<1>2. CASE Die \/ Hijack \/ InterfaceAlert
  BY <1>2, <1>s DEF Die, Hijack, InterfaceAlert, appVars
<1>3. CASE Logout \/ Login
  BY <1>0, <1>3, <1>r DEF Logout, Login
<1>4. CASE Remount
  <2>1. PICK w \in Watches :
          /\ watch' = w /\ Gone(w, loop)
          /\ loop' = [loop EXCEPT ![watch] = Clear(@), ![w] = [NewLoop EXCEPT !.timer = TRUE]]
          /\ watch # 0 /\ UNCHANGED <<loggedIn, tunOk, reconnect>>
    BY <1>4 DEF Remount
  <2>2. /\ watch \in Watches /\ Clear(loop[watch]) \in Loops
        /\ [NewLoop EXCEPT !.timer = TRUE] \in Loops /\ [NewLoop EXCEPT !.timer = TRUE].timer
    BY <1>0, <2>1, LoopEdits
  <2> DEFINE c == [loop EXCEPT ![watch] = Clear(@)]
             t == [NewLoop EXCEPT !.timer = TRUE]
  <2>3. c \in [Watches -> Loops] /\ loop' = [c EXCEPT ![w] = t]
    BY <1>0, <2>1, <2>2
  <2>4. t \in Loops /\ t.timer
    BY <2>2
  <2> HIDE DEF c, t
  <2>5. loop' \in [Watches -> Loops] /\ loop'[w].timer
    BY <2>3, <2>4
  <2>6. w # 0
    BY NoZero
  <2> QED BY <1>0, <2>1, <2>5, <2>6 DEF Chain, GoesOn
<1>5. ASSUME NEW g \in Gates, GateStep(g) PROVE Chain'
  <2>1. CASE GateReady(g)
    BY <1>0, <1>5, <1>r, <2>1 DEF GateReady, GateStep
  <2>2. CASE Stay
    BY <1>5, <1>s, <2>2 DEF GateStep, Stay, appVars
  <2> QED BY <1>5, <2>1, <2>2 DEF GateStep
<1>6. ASSUME NEW g \in Gates, GateRetry(g) PROVE Chain'
  BY <1>6, <1>s DEF GateRetry, appVars
<1>7. ASSUME NEW w \in Watches, CheckTimer(w) PROVE Chain'
  <2>1. UNCHANGED <<loggedIn, tunOk, watch, reconnect>>
    BY <1>7 DEF CheckTimer, appVars
  <2>2. CASE loop' = loop
    BY <1>s, <2>1, <2>2
  <2>3. CASE loop' = [loop EXCEPT ![w].timer = FALSE, ![w].testing = @ + 1]
    <3>1. /\ loop' \in [Watches -> Loops] /\ loop'[w].testing > 0
          /\ \A v \in Watches \ {w} : loop'[v] = loop[v]
      BY <1>0, <2>3 DEF Loops
    <3>2. watch # 0 => GoesOn(watch, loop'[watch], reconnect')
      BY <1>0, <2>1, <3>1 DEF GoesOn
    <3> QED BY <1>0, <2>1, <3>1, <3>2, StayKeeps
  <2> QED BY <1>7, <2>2, <2>3 DEF CheckTimer
<1>8. ASSUME NEW w \in Watches, Check(w) PROVE Chain'
  BY <1>8, CheckGoesOn DEF Check
<1>9. ASSUME NEW w \in Watches, AcceptOffer(w) PROVE Chain'
  <2>1. /\ loop' = [loop EXCEPT ![w].attempted = TRUE] /\ triggerReconnect(w)
        /\ UNCHANGED <<loggedIn, tunOk, watch>>
    BY <1>9 DEF AcceptOffer, appVars
  <2>2. reconnect' \subseteq CallsMade /\ reconnect \subseteq reconnect'
    BY <2>1, TriggerGoesOn
  <2>3. /\ loop' \in [Watches -> Loops]
        /\ \A v \in Watches : /\ loop'[v].timer = loop[v].timer /\ loop'[v].cut = loop[v].cut
                              /\ loop'[v].testing = loop[v].testing
    BY <1>0, <2>1 DEF Loops
  <2>4. watch # 0 => GoesOn(watch, loop'[watch], reconnect')
    BY <1>0, <2>2, <2>3 DEF GoesOn
  <2> QED BY <2>1, <2>2, <2>3, <2>4, StayKeeps
<1>10. ASSUME NEW w \in Watches, AlertAnswer(w) PROVE Chain'
  <2>1. PICK r \in Outcomes :
          SetTunOk(tunOk /\ r # "mismatch" /\ ~(r = "down" /\ Down), loop, gate)
    BY <1>10 DEF AlertAnswer
  <2>2. (tunOk /\ r # "mismatch" /\ ~(r = "down" /\ Down)) \in BOOLEAN /\ UNCHANGED reconnect
    BY <1>0, <1>10 DEF AlertAnswer
  <2> QED BY <1>0, <1>r, <2>1, <2>2 DEF SetTunOk
<1>11. CASE PopoverReconnect
  <2>1. triggerReconnect(0) /\ UNCHANGED <<loggedIn, tunOk, watch, loop>>
    BY <1>11 DEF PopoverReconnect, appVars
  <2>2. reconnect' \subseteq CallsMade /\ reconnect \subseteq reconnect'
    BY <2>1, TriggerGoesOn
  <2>3. watch # 0 => GoesOn(watch, loop'[watch], reconnect')
    BY <1>0, <2>1, <2>2 DEF GoesOn
  <2> QED BY <1>0, <2>1, <2>2, <2>3, StayKeeps
<1>12. ASSUME NEW x \in reconnect, ReconnectAnswer(x) \/ ReconnectVerify(x) PROVE Chain'
  BY <1>12, AnswerGoesOn, VerifyGoesOn
<1>13. CASE PollTimer
  <2>1. UNCHANGED <<loggedIn, tunOk, watch, reconnect>> /\ watch \in Watches
    BY <1>0, <1>13 DEF PollTimer, appVars
  <2>2. loop' = [loop EXCEPT ![watch].pollFails = 0] \/ loop' = [loop EXCEPT ![watch].poll = TRUE]
    BY <1>13 DEF PollTimer
  <2>3. /\ loop' \in [Watches -> Loops]
        /\ loop'[watch].timer = loop[watch].timer /\ loop'[watch].cut = loop[watch].cut
        /\ loop'[watch].testing = loop[watch].testing
    <3>1. CASE loop' = [loop EXCEPT ![watch].pollFails = 0]
      BY <1>0, <2>1, <3>1 DEF Loops
    <3>2. CASE loop' = [loop EXCEPT ![watch].poll = TRUE]
      BY <1>0, <2>1, <3>2 DEF Loops
    <3> QED BY <2>2, <3>1, <3>2
  <2>4. watch # 0 => GoesOn(watch, loop'[watch], reconnect')
    BY <1>0, <2>1, <2>3 DEF GoesOn
  <2> QED BY <1>0, <2>1, <2>3, <2>4, StayKeeps
<1>14. ASSUME NEW w \in Watches, PollAnswer(w) PROVE Chain'
  <2> DEFINE fails == IF up THEN 0 ELSE IF loop[w].pollFails < 2 THEN loop[w].pollFails + 1 ELSE 2
             kept == IF w = watch THEN fails ELSE 0
             l == [loop EXCEPT ![w].poll = FALSE, ![w].pollFails = kept]
  <2>1. SetTunOk(tunOk /\ fails < 2, l, gate) /\ UNCHANGED reconnect
    BY <1>14 DEF PollAnswer
  <2>2. fails \in Nat /\ kept \in Nat
    BY <1>0 DEF Loops
  <2> HIDE DEF fails, kept
  <2>3. /\ l \in [Watches -> Loops]
        /\ \A v \in Watches : /\ l[v].timer = loop[v].timer /\ l[v].cut = loop[v].cut
                              /\ l[v].testing = loop[v].testing
    BY <1>0, <2>2 DEF Loops
  <2> HIDE DEF l
  <2>4. watch # 0 => GoesOn(watch, l[watch], reconnect')
    BY <1>0, <2>1, <2>3 DEF GoesOn
  <2>5. (tunOk /\ fails < 2) \in BOOLEAN
    BY <1>0
  <2> QED BY <1>0, <2>1, <2>3, <2>4, <2>5, RenderKeeps DEF SetTunOk
<1>15. CASE UNCHANGED connVars
  BY <1>15, <1>s DEF connVars, appVars
<1> QED
  BY <1>1, <1>2, <1>3, <1>4, <1>5, <1>6, <1>7, <1>8, <1>9, <1>10, <1>11, <1>12, <1>13, <1>14, <1>15
     DEF ConnNext, Watching, Reconnects, Polling

(***************************************************************************)
(* The chain of checks of a running watch (runCheck, triggerReconnect)     *)
(* never breaks, with any number of watches, gates and checks under way,   *)
(* but for the third failure that meets a reconnect of the popover.        *)
(***************************************************************************)
THEOREM ChecksNeverStop == ConnSpec => []ChecksGoOn
<1>1. Chain => ChecksGoOn
  BY DEF Chain, ChecksGoOn, GoesOn
<1> QED BY <1>1, ChainInit, ChainStep, PTL DEF ConnSpec

=============================================================================
