----------------------------- MODULE CanBus_proofs -----------------------------
(***************************************************************************)
(* Proofs about CanBus, for any number of buses, piles and frames.         *)
(*                                                                         *)
(* A frame goes through the socket and the thread of its bus and then      *)
(* through the event queue that all buses share. The inductive invariant   *)
(* says that in each of the three places, and from each to the next, the   *)
(* frames of a pile are in the order they were sent, and none has been     *)
(* handled; and that the bus of a pile whose command is not on it yet is   *)
(* still to be written to, unless it has failed.                           *)
(***************************************************************************)
EXTENDS CanBus, SequenceTheorems, TLAPS

-----------------------------------------------------------------------------
(* Sequences *)

\* Appending keeps the elements of a sequence and puts one behind them.
LEMMA AppendFacts ==
  ASSUME NEW S, NEW s \in Seq(S), NEW e \in S
  PROVE  /\ Append(s, e) \in Seq(S)
         /\ Len(Append(s, e)) = Len(s) + 1
         /\ DOMAIN Append(s, e) = DOMAIN s \union {Len(s) + 1}
         /\ DOMAIN s = 1 .. Len(s) /\ Len(s) \in Nat
         /\ \A i \in DOMAIN s : Append(s, e)[i] = s[i]
         /\ Append(s, e)[Len(s) + 1] = e
         /\ s \o <<e>> = Append(s, e)
OBVIOUS

\* A sequence is its head and what its tail holds.
LEMMA TailFacts ==
  ASSUME NEW S, NEW s \in Seq(S), s # <<>>
  PROVE  /\ Head(s) \in S /\ Head(s) = s[1] /\ 1 \in DOMAIN s
         /\ Tail(s) \in Seq(S) /\ Len(Tail(s)) = Len(s) - 1
         /\ \A i \in DOMAIN Tail(s) : i + 1 \in DOMAIN s /\ Tail(s)[i] = s[i + 1]
         /\ \A j \in DOMAIN s : j = 1 \/ (j - 1 \in DOMAIN Tail(s) /\ Tail(s)[j - 1] = s[j])
         /\ DOMAIN s \subseteq Nat /\ DOMAIN Tail(s) \subseteq Nat \ {0}
OBVIOUS

\* A sequence of one element is that element.
LEMMA SingleFacts ==
  ASSUME NEW S, NEW s \in Seq(S), s # <<>>, Len(s) <= 1
  PROVE  /\ s = <<Head(s)>> /\ Head(s) \in S /\ Head(s) = s[1]
         /\ DOMAIN s = {1}
<1>1. Len(s) = 1
  <2>1. Len(s) \in Nat \ {0}
    BY EmptySeq
  <2> QED
    BY <2>1
<1>2. DOMAIN s = 1 .. 1 /\ 1 .. 1 = {1}
  BY <1>1
<1>3. Head(s) = s[1] /\ Head(s) \in S
  BY <1>1
<1>4. <<Head(s)>> \in Seq(S) /\ Len(<<Head(s)>>) = 1 /\ <<Head(s)>>[1] = s[1]
  BY <1>3
<1>5. s = <<Head(s)>>
  BY <1>1, <1>4, SeqEqual
<1> QED
  BY <1>2, <1>3, <1>5

-----------------------------------------------------------------------------
(* The inductive invariant *)

\* The variables that TypeOK describes pointwise are functions.
Shape ==
  /\ socket \in [BusSet -> Seq(Frame)]
  /\ msg \in [BusSet -> Seq(Frame)]
  /\ handled \in [Piles -> Nat]
  /\ issued \in [Piles -> Nat]
  /\ onBus \in [Piles -> Nat]
  /\ Len(command) <= 1

Increasing(s) ==
  \A i, j \in DOMAIN s : i < j /\ s[i].pile = s[j].pile => s[i].no < s[j].no

\* The frames of s were sent before those of t.
Before(s, t) ==
  \A i \in DOMAIN s, j \in DOMAIN t : s[i].pile = t[j].pile => s[i].no < t[j].no

\* The numbers of the frames of s are between two numbers of their piles: the
\* last frame that was handled and the last one that was sent.
Between(s, low, high) ==
  \A i \in DOMAIN s : low[s[i].pile] < s[i].no /\ s[i].no <= high[s[i].pile]

Waiting(s) == Between(s, handled, sent)

OfBus(s, b) == \A i \in DOMAIN s : BusOf[s[i].pile] = b

FrameInv ==
  /\ Increasing(events) /\ Waiting(events)
  /\ \A b \in BusSet :
       /\ OfBus(msg[b], b) /\ OfBus(socket[b], b)
       /\ Waiting(msg[b]) /\ Waiting(socket[b])
       /\ Increasing(socket[b])
       /\ Before(events, msg[b])
       /\ Before(events, socket[b])
       /\ Before(msg[b], socket[b])

\* The last command for pile p is being written and bus b is still to come.
StillTo(p, b) == command = <<p>> /\ \E i \in DOMAIN todo : todo[i] = b

ServedInv ==
  /\ BusSet \ up \subseteq failed
  /\ pausing => todo # <<>> /\ Head(todo) \in failed
  /\ \A p \in Piles :
       BusOf[p] \in m_initialized \ failed => onBus[p] = issued[p] \/ StillTo(p, BusOf[p])

IInv == TypeOK /\ Shape /\ FrameInv /\ ServedInv

\* Initially nothing is under way.
LEMMA InitInv == Init => IInv
<1> SUFFICES ASSUME Init PROVE IInv
  OBVIOUS
<1> USE DEF Init
<1>1. /\ \A b \in BusSet : socket[b] = <<>> /\ msg[b] = <<>>
      /\ \A p \in Piles : sent[p] = 0 /\ handled[p] = 0 /\ issued[p] = 0 /\ onBus[p] = 0
  OBVIOUS
<1>2. DOMAIN <<>> = {}
  OBVIOUS
<1>3. TypeOK
  <2>1. /\ m_initialized \in SUBSET BusSet /\ up \in SUBSET BusSet
        /\ failed \in SUBSET BusSet /\ failures \in 0 .. MaxFailures
    BY BoundAssumption
  <2>2. sent \in [Piles -> 0 .. MaxFrames]
    BY BoundAssumption
  <2>3. \A b \in BusSet :
          /\ socket[b] \in Seq(Frame) /\ Len(socket[b]) <= SocketSize
          /\ msg[b] \in Seq(Frame) /\ Len(msg[b]) <= 1
          /\ \A i \in DOMAIN socket[b] : BusOf[socket[b][i].pile] = b
    BY <1>1, BoundAssumption
  <2>4. \A p \in Piles :
          /\ handled[p] \in 0 .. sent[p]
          /\ onBus[p] \in 0 .. issued[p]
          /\ issued[p] \in 0 .. MaxCommands[p]
    BY <1>1, BoundAssumption
  <2>5. events \in Seq(Frame) /\ command \in Seq(Piles) /\ todo \in Seq(BusSet)
    OBVIOUS
  <2>6. (command = <<>>) = (todo = <<>>)
    BY Zenon
  <2>7. pausing \in BOOLEAN
    OBVIOUS
  <2> HIDE DEF Init
  <2> QED
    BY <2>1, <2>2, <2>3, <2>4, <2>5, <2>6, <2>7 DEF TypeOK
<1>4. Shape
  BY DEF Shape
<1>5. FrameInv
  BY <1>1, <1>2 DEF FrameInv, Increasing, Before, Waiting, Between, OfBus
<1>6. ServedInv
  BY <1>1 DEF ServedInv
<1> QED
  BY <1>3, <1>4, <1>5, <1>6 DEF IInv

-----------------------------------------------------------------------------
(* Order and sequences *)

\* A frame is put behind frames.
LEMMA OrderAppend ==
  ASSUME NEW s \in Seq(Frame), NEW f \in Frame
  PROVE  /\ Increasing(s) /\ Before(s, <<f>>) => Increasing(Append(s, f))
         /\ \A r \in Seq(Frame) :
              /\ Before(r, s) /\ Before(r, <<f>>) => Before(r, Append(s, f))
              /\ Before(s, r) /\ Before(<<f>>, r) => Before(Append(s, f), r)
         /\ \A b : OfBus(s, b) /\ OfBus(<<f>>, b) => OfBus(Append(s, f), b)
         /\ \A low, high :
              Between(s, low, high) /\ Between(<<f>>, low, high)
                => Between(Append(s, f), low, high)
<1> DEFINE t == Append(s, f)
<1>1. /\ DOMAIN t = DOMAIN s \union {Len(s) + 1}
      /\ DOMAIN s = 1 .. Len(s) /\ Len(s) \in Nat
      /\ \A i \in DOMAIN s : t[i] = s[i]
      /\ t[Len(s) + 1] = f
  BY AppendFacts
<1>2. DOMAIN <<f>> = {1} /\ <<f>>[1] = f
  OBVIOUS
<1> HIDE DEF t
<1>3. ASSUME Increasing(s), Before(s, <<f>>)
      PROVE  Increasing(t)
  <2> SUFFICES ASSUME NEW i \in DOMAIN t, NEW j \in DOMAIN t, i < j, t[i].pile = t[j].pile
               PROVE  t[i].no < t[j].no
    BY DEF Increasing
  <2>1. i \in DOMAIN s /\ t[i] = s[i]
    BY <1>1
  <2>2. CASE j \in DOMAIN s
    BY <1>1, <1>3, <2>1, <2>2 DEF Increasing
  <2>3. CASE j = Len(s) + 1
    <3>1. t[j] = <<f>>[1] /\ 1 \in DOMAIN <<f>>
      BY <1>1, <1>2, <2>3
    <3> QED
      BY <1>3, <2>1, <3>1 DEF Before
  <2> QED
    BY <1>1, <2>2, <2>3
<1>4. ASSUME NEW r \in Seq(Frame), Before(r, s), Before(r, <<f>>)
      PROVE  Before(r, t)
  <2>1. \A i \in DOMAIN r : r[i].pile = f.pile => r[i].no < f.no
    BY <1>2, <1>4 DEF Before
  <2> QED
    BY <1>1, <1>4, <2>1 DEF Before
<1>5. ASSUME NEW r \in Seq(Frame), Before(s, r), Before(<<f>>, r)
      PROVE  Before(t, r)
  <2>1. \A i \in DOMAIN r : f.pile = r[i].pile => f.no < r[i].no
    BY <1>2, <1>5 DEF Before
  <2> QED
    BY <1>1, <1>5, <2>1 DEF Before
<1>6. \A b : OfBus(s, b) /\ OfBus(<<f>>, b) => OfBus(t, b)
  BY <1>1, <1>2 DEF OfBus
<1>7. \A low, high :
        Between(s, low, high) /\ Between(<<f>>, low, high) => Between(t, low, high)
  BY <1>1, <1>2 DEF Between
<1> QED
  BY <1>3, <1>4, <1>5, <1>6, <1>7 DEF t

\* A frame is taken from the front of frames.
LEMMA OrderTail ==
  ASSUME NEW s \in Seq(Frame), s # <<>>
  PROVE  /\ Increasing(s) => Increasing(Tail(s)) /\ Before(<<Head(s)>>, Tail(s))
         /\ \A r \in Seq(Frame) :
              /\ Before(r, s) => Before(r, <<Head(s)>>) /\ Before(r, Tail(s))
              /\ Before(s, r) => Before(<<Head(s)>>, r) /\ Before(Tail(s), r)
         /\ \A b : OfBus(s, b) => OfBus(<<Head(s)>>, b) /\ OfBus(Tail(s), b)
         /\ \A low, high :
              Between(s, low, high)
                => Between(<<Head(s)>>, low, high) /\ Between(Tail(s), low, high)
<1> DEFINE t == Tail(s)
           h == <<Head(s)>>
<1>1. /\ 1 \in DOMAIN s /\ DOMAIN s \subseteq Nat /\ DOMAIN t \subseteq Nat \ {0}
      /\ \A i \in DOMAIN t : i + 1 \in DOMAIN s /\ t[i] = s[i + 1]
  BY TailFacts
<1>2. DOMAIN h = {1} /\ h[1] = s[1]
  BY TailFacts
<1> HIDE DEF t, h
<1>3. ASSUME Increasing(s) PROVE Increasing(t) /\ Before(h, t)
  <2>1. ASSUME NEW i \in DOMAIN t, NEW j \in DOMAIN t, i < j, t[i].pile = t[j].pile
        PROVE  t[i].no < t[j].no
    <3>1. i + 1 < j + 1 /\ i + 1 \in DOMAIN s /\ j + 1 \in DOMAIN s
      BY <1>1, <2>1
    <3> QED
      BY <1>1, <1>3, <2>1, <3>1 DEF Increasing
  <2>2. ASSUME NEW j \in DOMAIN t, s[1].pile = t[j].pile
        PROVE  s[1].no < t[j].no
    <3>1. 1 < j + 1 /\ j + 1 \in DOMAIN s
      BY <1>1
    <3> QED
      BY <1>1, <1>3, <2>2, <3>1 DEF Increasing
  <2> QED
    BY <1>2, <2>1, <2>2 DEF Increasing, Before
<1>4. ASSUME NEW r \in Seq(Frame)
      PROVE  /\ Before(r, s) => Before(r, h) /\ Before(r, t)
             /\ Before(s, r) => Before(h, r) /\ Before(t, r)
  BY <1>1, <1>2 DEF Before
<1>5. \A b : OfBus(s, b) => OfBus(h, b) /\ OfBus(t, b)
  BY <1>1, <1>2 DEF OfBus
<1>6. \A low, high : Between(s, low, high) => Between(h, low, high) /\ Between(t, low, high)
  BY <1>1, <1>2 DEF Between
<1> QED
  BY <1>3, <1>4, <1>5, <1>6 DEF t, h

\* Nothing is before or after no frames.
LEMMA OrderEmpty ==
  /\ \A r : Before(r, <<>>) /\ Before(<<>>, r)
  /\ \A b : OfBus(<<>>, b)
  /\ \A low, high : Between(<<>>, low, high)
<1>1. DOMAIN <<>> = {}
  OBVIOUS
<1> QED
  BY <1>1 DEF Before, OfBus, Between

-----------------------------------------------------------------------------
(* Frames *)

\* Steps that keep the frames where they are keep the invariant of the frames.
LEMMA FramesKept == FrameInv /\ UNCHANGED frameVars => FrameInv'
BY DEF FrameInv, frameVars, Increasing, Before, Waiting, Between, OfBus

\* A pile sends: its new frame comes behind all frames of the pile.
LEMMA PileSendsFrames ==
  ASSUME IInv, NEW p \in Piles, PileSends(p)
  PROVE  FrameInv'
<1> DEFINE b == BusOf[p]
<1>0. /\ sent \in [Piles -> 0 .. MaxFrames] /\ handled[p] \in 0 .. sent[p]
      /\ handled \in [Piles -> Nat] /\ MaxFrames \in Nat
      /\ socket \in [BusSet -> Seq(Frame)] /\ msg \in [BusSet -> Seq(Frame)]
      /\ events \in Seq(Frame)
  BY BoundAssumption DEF IInv, TypeOK, Shape
<1>1. /\ b \in BusSet /\ sent[p] \in Nat /\ handled[p] \in Nat /\ handled[p] <= sent[p]
      /\ sent' = [sent EXCEPT ![p] = sent[p] + 1] /\ sent'[p] = sent[p] + 1
      /\ sent[p] + 1 \in 1 .. MaxFrames
      /\ \A q \in Piles : sent[q] \in Nat /\ sent'[q] \in Nat /\ sent[q] <= sent'[q]
      /\ UNCHANGED <<handled, events, msg>>
  BY <1>0, BusAssumption DEF PileSends
<1>2. ASSUME NEW s \in Seq(Frame), Between(s, handled, sent)
      PROVE  /\ Between(s, handled, sent')
             /\ \A i \in DOMAIN s : s[i].pile = p => s[i].no < sent[p] + 1
  <2>1. \A i \in DOMAIN s : s[i].pile \in Piles /\ s[i].no \in Nat
    <3>1. \A i \in DOMAIN s : s[i] \in Frame
      BY <1>2
    <3> QED
      BY <3>1 DEF Frame
  <2> QED
    BY <1>0, <1>1, <1>2, <2>1 DEF Between
<1>3. /\ Between(events, handled, sent')
      /\ \A c \in BusSet : Between(msg[c], handled, sent') /\ Between(socket[c], handled, sent')
  BY <1>0, <1>2 DEF IInv, FrameInv, Waiting
<1>4. /\ Increasing(events)
      /\ \A c \in BusSet : /\ OfBus(msg[c], c) /\ OfBus(socket[c], c)
                           /\ Increasing(socket[c])
                           /\ Before(events, msg[c]) /\ Before(events, socket[c])
                           /\ Before(msg[c], socket[c])
  BY DEF IInv, FrameInv
<1>5. SUFFICES \A c \in BusSet : /\ OfBus(socket'[c], c) /\ Increasing(socket'[c])
                                 /\ Between(socket'[c], handled, sent')
                                 /\ Before(events, socket'[c]) /\ Before(msg[c], socket'[c])
  BY <1>1, <1>3, <1>4
  DEF FrameInv, Waiting, Increasing, Before, OfBus, Between
<1>6. CASE UNCHANGED socket
  BY <1>3, <1>4, <1>6
<1>7. ASSUME NEW data \in BOOLEAN,
             socket' = [socket EXCEPT ![b] =
                          Append(@, [pile |-> p, no |-> sent'[p], data |-> data])],
             NEW c \in BusSet
      PROVE  /\ OfBus(socket'[c], c) /\ Increasing(socket'[c])
             /\ Between(socket'[c], handled, sent')
             /\ Before(events, socket'[c]) /\ Before(msg[c], socket'[c])
  <2>1. CASE c # b
    BY <1>0, <1>3, <1>4, <1>7, <2>1
  <2>2. CASE c = b
    <3> DEFINE f == [pile |-> p, no |-> sent[p] + 1, data |-> data]
               s == socket[b]
    <3>1. f \in Frame /\ f.pile = p /\ f.no = sent[p] + 1
      BY <1>1 DEF Frame
    <3>2. socket'[c] = Append(s, f) /\ s \in Seq(Frame)
      BY <1>0, <1>1, <1>7, <2>2
    <3> HIDE DEF f
    <3>3. ASSUME NEW t \in Seq(Frame), Between(t, handled, sent)
          PROVE  Before(t, <<f>>)
      BY <1>2, <3>1, <3>3 DEF Before
    <3>4. Before(s, <<f>>) /\ Before(events, <<f>>) /\ Before(msg[b], <<f>>)
      BY <1>0, <1>1, <3>3 DEF IInv, FrameInv, Waiting
    <3>5. OfBus(<<f>>, b) /\ Between(<<f>>, handled, sent')
      BY <1>1, <3>1 DEF OfBus, Between
    <3>6. OfBus(Append(s, f), b) /\ Increasing(Append(s, f))
      BY <1>1, <1>4, <3>1, <3>2, <3>4, <3>5, OrderAppend
    <3>7. Between(Append(s, f), handled, sent')
      BY <1>1, <1>3, <3>1, <3>2, <3>5, OrderAppend
    <3>8. ASSUME NEW r \in Seq(Frame), Before(r, s), Before(r, <<f>>)
          PROVE  Before(r, Append(s, f))
      BY <3>1, <3>2, <3>8, OrderAppend
    <3>9. Before(events, Append(s, f)) /\ Before(msg[b], Append(s, f))
      BY <1>0, <1>1, <1>4, <3>4, <3>8
    <3> QED
      BY <2>2, <3>2, <3>6, <3>7, <3>9
  <2> QED
    BY <2>1, <2>2
<1> QED
  BY <1>6, <1>7 DEF PileSends

\* The parts of the invariant that the next proofs need of one bus.
LEMMA BusFacts ==
  ASSUME IInv, NEW b \in BusSet
  PROVE  /\ socket[b] \in Seq(Frame) /\ msg[b] \in Seq(Frame) /\ events \in Seq(Frame)
         /\ Len(msg[b]) <= 1
         /\ OfBus(msg[b], b) /\ OfBus(socket[b], b)
         /\ Between(msg[b], handled, sent) /\ Between(socket[b], handled, sent)
         /\ Between(events, handled, sent) /\ Increasing(events)
         /\ Increasing(socket[b])
         /\ Before(events, msg[b]) /\ Before(events, socket[b])
         /\ Before(msg[b], socket[b])
BY DEF IInv, TypeOK, Shape, FrameInv, Waiting

\* The invariant of the frames after a step, from its parts.
LEMMA FramesAfter ==
  ASSUME Increasing(events'), Between(events', handled', sent'),
         \A b \in BusSet :
           /\ OfBus(msg'[b], b) /\ OfBus(socket'[b], b)
           /\ Between(msg'[b], handled', sent') /\ Between(socket'[b], handled', sent')
           /\ Increasing(socket'[b])
           /\ Before(events', msg'[b]) /\ Before(events', socket'[b])
           /\ Before(msg'[b], socket'[b])
  PROVE  FrameInv'
BY DEF FrameInv, Waiting, Increasing, Before, OfBus, Between

\* A thread reads: the frame it takes was the first of its socket.
LEMMA GetMsgFrames ==
  ASSUME IInv, NEW b \in BusSet, GetMsg(b)
  PROVE  FrameInv'
<1> DEFINE s == socket[b]
<1>1. /\ s # <<>> /\ s \in Seq(Frame)
      /\ msg'[b] = <<Head(s)>> /\ socket'[b] = Tail(s)
      /\ \A c \in BusSet : c # b => msg'[c] = msg[c] /\ socket'[c] = socket[c]
      /\ UNCHANGED <<sent, events, handled>>
  BY DEF GetMsg, IInv, Shape
<1>2. /\ events \in Seq(Frame) /\ OfBus(s, b) /\ Between(s, handled, sent) /\ Increasing(s)
      /\ Before(events, s)
  BY BusFacts
<1>3. /\ OfBus(<<Head(s)>>, b) /\ OfBus(Tail(s), b)
      /\ Between(<<Head(s)>>, handled, sent) /\ Between(Tail(s), handled, sent)
      /\ Increasing(Tail(s)) /\ Before(<<Head(s)>>, Tail(s))
  BY <1>1, <1>2, OrderTail
<1>4. Before(events, <<Head(s)>>) /\ Before(events, Tail(s))
  BY <1>1, <1>2, OrderTail
<1>5. ASSUME NEW c \in BusSet
      PROVE  /\ OfBus(msg'[c], c) /\ OfBus(socket'[c], c)
             /\ Between(msg'[c], handled, sent) /\ Between(socket'[c], handled, sent)
             /\ Increasing(socket'[c])
             /\ Before(events, msg'[c]) /\ Before(events, socket'[c])
             /\ Before(msg'[c], socket'[c])
  <2>1. CASE c = b
    BY <1>1, <1>3, <1>4, <2>1
  <2>2. CASE c # b
    BY <1>1, <2>2, BusFacts
  <2> QED
    BY <2>1, <2>2
<1>6. Increasing(events) /\ Between(events, handled, sent)
  BY BusFacts
<1> QED
  BY <1>1, <1>5, <1>6, FramesAfter

\* A thread passes its frame on: the event queue has no later frame of the
\* pile, and the other buses have no frame of the pile at all.
LEMMA PassOnFrames ==
  ASSUME IInv, NEW b \in BusSet, PassOn(b)
  PROVE  FrameInv'
<1> DEFINE m == Head(msg[b])
<1>1. /\ msg[b] # <<>> /\ msg'[b] = <<>>
      /\ \A c \in BusSet : c # b => msg'[c] = msg[c]
      /\ UNCHANGED <<sent, socket, handled>>
  BY DEF PassOn, IInv, Shape
<1>2. msg[b] = <<m>> /\ m \in Frame
  BY <1>1, BusFacts, SingleFacts
<1> HIDE DEF m
<1>3. events' = events \/ events' = Append(events, m)
  <2>1. events' = events \/ events' = events \o <<m>>
    BY <1>2 DEF PassOn, Emit
  <2> QED
    BY <1>2, <2>1, BusFacts, AppendFacts
<1>4. Increasing(events') /\ Between(events', handled, sent)
  <2>1. Increasing(events) /\ Between(events, handled, sent) /\ events \in Seq(Frame)
    BY BusFacts
  <2>2. Before(events, <<m>>) /\ Between(<<m>>, handled, sent)
    BY <1>2, BusFacts
  <2>3. Increasing(Append(events, m))
    BY <1>2, <2>1, <2>2, OrderAppend
  <2>4. Between(Append(events, m), handled, sent)
    BY <1>2, <2>1, <2>2, OrderAppend
  <2> QED
    BY <1>3, <2>1, <2>3, <2>4
<1>5. ASSUME NEW c \in BusSet, NEW r \in Seq(Frame), OfBus(r, c), Before(events, r),
             c # b \/ Before(<<m>>, r)
      PROVE  Before(events', r)
  <2>1. CASE c = b
    BY <1>2, <1>3, <1>5, <2>1, BusFacts, OrderAppend
  <2>2. CASE c # b
    <3>1. BusOf[m.pile] = b
      <4>1. OfBus(<<m>>, b)
        BY <1>2, BusFacts
      <4> QED
        BY <4>1 DEF OfBus
    <3>2. Before(<<m>>, r)
      BY <1>5, <2>2, <3>1 DEF OfBus, Before
    <3> QED
      BY <1>2, <1>3, <1>5, <3>2, BusFacts, OrderAppend
  <2> QED
    BY <2>1, <2>2
<1>6. ASSUME NEW c \in BusSet
      PROVE  /\ OfBus(msg'[c], c) /\ OfBus(socket'[c], c)
             /\ Between(msg'[c], handled, sent) /\ Between(socket'[c], handled, sent)
             /\ Increasing(socket'[c])
             /\ Before(events', msg'[c]) /\ Before(events', socket'[c])
             /\ Before(msg'[c], socket'[c])
  <2>1. CASE c = b
    <3>1. Before(events', socket[b])
      <4>1. Before(<<m>>, socket[b])
        BY <1>2, BusFacts
      <4> QED
        BY <1>5, <4>1, BusFacts
    <3> QED
      BY <1>1, <2>1, <3>1, OrderEmpty, BusFacts
  <2>2. CASE c # b
    <3>1. Before(events', msg[c]) /\ Before(events', socket[c])
      BY <1>5, <2>2, BusFacts
    <3> QED
      BY <1>1, <2>2, <3>1, BusFacts
  <2> QED
    BY <2>1, <2>2
<1> QED
  BY <1>1, <1>4, <1>6, FramesAfter

\* The event loop handles the first frame of the queue: all other frames of
\* its pile are later ones.
LEMMA SetDataFrames ==
  ASSUME IInv, SetData
  PROVE  /\ FrameInv'
         /\ Head(events) \in Frame
         /\ handled[Head(events).pile] < Head(events).no
         /\ Head(events).no <= sent[Head(events).pile]
<1> DEFINE h == Head(events)
<1>1. /\ events # <<>> /\ events \in Seq(Frame) /\ Increasing(events)
      /\ Between(events, handled, sent) /\ handled \in [Piles -> Nat]
  BY DEF SetData, IInv, TypeOK, Shape, FrameInv, Waiting
<1>2. h \in Frame
  BY <1>1, TailFacts
<1>3. /\ Increasing(Tail(events)) /\ Before(<<h>>, Tail(events))
      /\ Between(<<h>>, handled, sent) /\ Between(Tail(events), handled, sent)
  BY <1>1, OrderTail
<1>4. /\ handled' = [handled EXCEPT ![h.pile] = h.no]
      /\ events' = Tail(events)
      /\ UNCHANGED <<sent, socket, msg>>
  BY DEF SetData
<1> HIDE DEF h
<1>5. h.pile \in Piles /\ h.no \in Nat
  BY <1>2 DEF Frame
<1>6. handled[h.pile] < h.no /\ h.no <= sent[h.pile]
  BY <1>3 DEF Between
<1>7. ASSUME NEW r \in Seq(Frame), Between(r, handled, sent), Before(<<h>>, r)
      PROVE  Between(r, handled', sent)
  <2>1. \A i \in DOMAIN r : h.pile = r[i].pile => h.no < r[i].no
    BY <1>7 DEF Before
  <2>2. \A i \in DOMAIN r : r[i].pile \in Piles
    <3>1. \A i \in DOMAIN r : r[i] \in Frame
      BY <1>7
    <3> QED
      BY <3>1 DEF Frame
  <2> QED
    BY <1>1, <1>4, <1>5, <1>7, <2>1, <2>2 DEF Between
<1>8. ASSUME NEW b \in BusSet
      PROVE  /\ Between(msg[b], handled', sent) /\ Between(socket[b], handled', sent)
             /\ Before(Tail(events), msg[b]) /\ Before(Tail(events), socket[b])
  <2>1. /\ msg[b] \in Seq(Frame) /\ socket[b] \in Seq(Frame)
        /\ Before(events, msg[b]) /\ Before(events, socket[b])
        /\ Between(msg[b], handled, sent) /\ Between(socket[b], handled, sent)
    BY BusFacts
  <2>2. /\ Before(<<h>>, msg[b]) /\ Before(Tail(events), msg[b])
        /\ Before(<<h>>, socket[b]) /\ Before(Tail(events), socket[b])
    BY <1>1, <2>1, OrderTail DEF h
  <2> QED
    BY <1>7, <2>1, <2>2
<1>9. Tail(events) \in Seq(Frame)
  BY <1>1, TailFacts
<1>10. Between(Tail(events), handled', sent)
  BY <1>3, <1>7, <1>9
<1>11. FrameInv'
  BY <1>3, <1>4, <1>8, <1>10, BusFacts, FramesAfter
<1> QED
  BY <1>2, <1>6, <1>11 DEF h

\* Every step keeps the frames of each pile in order.
LEMMA FrameNext == IInv /\ [Next]_vars => FrameInv'
<1> SUFFICES ASSUME IInv, [Next]_vars PROVE FrameInv'
  OBVIOUS
<1>1. ASSUME NEW b \in BusSet, BusFails(b) \/ BusReturns(b) PROVE FrameInv'
  BY <1>1, FramesKept DEF BusFails, BusReturns, IInv
<1>2. ASSUME NEW b \in BusSet, GetMsg(b) \/ PassOn(b) PROVE FrameInv'
  BY <1>2, GetMsgFrames, PassOnFrames
<1>3. ASSUME NEW p \in Piles, PileSends(p) PROVE FrameInv'
  BY <1>3, PileSendsFrames
<1>4. ASSUME NEW p \in Piles, SendMsgToPile(p) PROVE FrameInv'
  BY <1>4, FramesKept DEF SendMsgToPile, IInv
<1>5. CASE SetData
  BY <1>5, SetDataFrames
<1>6. CASE SendReplyData \/ SendFails \/ PauseEnds \/ UNCHANGED vars
  BY <1>6, FramesKept DEF SendReplyData, SendFails, PauseEnds, vars, IInv
<1> QED
  BY <1>1, <1>2, <1>3, <1>4, <1>5, <1>6 DEF Next

-----------------------------------------------------------------------------
(* Types *)

\* The part of the types that is about frames.
FrameTypes ==
  /\ sent \in [Piles -> 0 .. MaxFrames]
  /\ socket \in [BusSet -> Seq(Frame)]
  /\ msg \in [BusSet -> Seq(Frame)]
  /\ \A b \in BusSet : Len(socket[b]) <= SocketSize /\ Len(msg[b]) <= 1
  /\ events \in Seq(Frame)
  /\ handled \in [Piles -> Nat]
  /\ \A p \in Piles : handled[p] <= sent[p]

\* The part that is about commands.
SendTypes ==
  /\ issued \in [Piles -> Nat] /\ onBus \in [Piles -> Nat]
  /\ \A p \in Piles : onBus[p] <= issued[p] /\ issued[p] <= MaxCommands[p]
  /\ command \in Seq(Piles) /\ Len(command) <= 1
  /\ todo \in Seq(BusSet)
  /\ command = <<>> <=> todo = <<>>
  /\ pausing \in BOOLEAN

BusTypes ==
  /\ m_initialized \in SUBSET BusSet
  /\ up \in SUBSET BusSet
  /\ failed \in SUBSET BusSet
  /\ failures \in 0 .. MaxFailures

\* The three parts make up the types.
LEMMA TypeParts ==
  FrameInv => (TypeOK /\ Shape <=> FrameTypes /\ SendTypes /\ BusTypes)
<1> SUFFICES ASSUME FrameInv
             PROVE  TypeOK /\ Shape <=> FrameTypes /\ SendTypes /\ BusTypes
  OBVIOUS
<1> USE BoundAssumption
<1>1. ASSUME TypeOK, Shape PROVE FrameTypes /\ SendTypes /\ BusTypes
  <2>1. \A p \in Piles : handled[p] <= sent[p] /\ onBus[p] <= issued[p]
                           /\ issued[p] <= MaxCommands[p]
    BY <1>1 DEF TypeOK
  <2>2. command = <<>> <=> todo = <<>>
    <3>1. (command = <<>>) = (todo = <<>>)
      BY <1>1 DEF TypeOK
    <3> QED
      BY <3>1
  <2>3. FrameTypes
    BY <1>1, <2>1 DEF TypeOK, Shape, FrameTypes
  <2>4. SendTypes
    BY <1>1, <2>1, <2>2 DEF TypeOK, Shape, SendTypes
  <2>5. BusTypes
    BY <1>1 DEF TypeOK, BusTypes
  <2> QED
    BY <2>3, <2>4, <2>5
<1>2. ASSUME FrameTypes, SendTypes, BusTypes PROVE TypeOK /\ Shape
  <2>1. Shape
    BY <1>2 DEF FrameTypes, SendTypes, Shape
  <2>2. \A b \in BusSet :
          /\ socket[b] \in Seq(Frame) /\ Len(socket[b]) <= SocketSize
          /\ msg[b] \in Seq(Frame) /\ Len(msg[b]) <= 1
          /\ \A i \in DOMAIN socket[b] : BusOf[socket[b][i].pile] = b
    BY <1>2 DEF FrameTypes, FrameInv, OfBus
  <2>3. \A p \in Piles :
          /\ handled[p] \in 0 .. sent[p]
          /\ onBus[p] \in 0 .. issued[p]
          /\ issued[p] \in 0 .. MaxCommands[p]
    BY <1>2 DEF FrameTypes, SendTypes
  <2>4. (command = <<>>) = (todo = <<>>)
    BY <1>2 DEF SendTypes
  <2> QED
    BY <1>2, <2>1, <2>2, <2>3, <2>4 DEF FrameTypes, SendTypes, BusTypes, TypeOK
<1> QED
  BY <1>1, <1>2

\* Every step keeps the types of the frames.
LEMMA FrameTypesNext == IInv /\ [Next]_vars => FrameTypes'
<1> SUFFICES ASSUME IInv, [Next]_vars PROVE FrameTypes'
  OBVIOUS
<1>1. FrameTypes
  BY TypeParts DEF IInv
<1>2. ASSUME UNCHANGED frameVars PROVE FrameTypes'
  BY <1>1, <1>2 DEF FrameTypes, frameVars
<1>3. ASSUME NEW p \in Piles, PileSends(p) PROVE FrameTypes'
  <2> DEFINE b == BusOf[p]
  <2>1. /\ sent' \in [Piles -> 0 .. MaxFrames]
        /\ \A q \in Piles : sent[q] <= sent'[q]
        /\ sent[p] + 1 \in 1 .. MaxFrames
    BY <1>1, <1>3, BoundAssumption DEF PileSends, FrameTypes
  <2>2. /\ socket' \in [BusSet -> Seq(Frame)]
        /\ \A c \in BusSet : Len(socket'[c]) <= SocketSize
    <3>1. CASE UNCHANGED socket
      BY <1>1, <3>1 DEF FrameTypes
    <3>2. ASSUME NEW data \in BOOLEAN, Len(socket[b]) < SocketSize,
                 socket' = [socket EXCEPT ![b] =
                              Append(@, [pile |-> p, no |-> sent'[p], data |-> data])]
          PROVE  /\ socket' \in [BusSet -> Seq(Frame)]
                 /\ \A c \in BusSet : Len(socket'[c]) <= SocketSize
      <4>1. [pile |-> p, no |-> sent'[p], data |-> data] \in Frame
        BY <1>1, <1>3, <2>1 DEF PileSends, FrameTypes, Frame
      <4>2. b \in BusSet /\ socket[b] \in Seq(Frame)
        BY <1>1, BusAssumption DEF FrameTypes
      <4> HIDE DEF b
      <4>3. /\ socket' \in [BusSet -> Seq(Frame)]
            /\ Len(socket'[b]) = Len(socket[b]) + 1
            /\ \A c \in BusSet : c # b => socket'[c] = socket[c]
            /\ Len(socket[b]) \in Nat
        BY <1>1, <3>2, <4>1, <4>2, AppendFacts DEF FrameTypes
      <4> QED
        BY <1>1, <3>2, <4>2, <4>3, BoundAssumption DEF FrameTypes
    <3> QED
      BY <1>3, <3>1, <3>2 DEF PileSends
  <2>3. UNCHANGED <<msg, events, handled>>
    BY <1>3 DEF PileSends
  <2>4. \A q \in Piles : handled[q] <= sent'[q]
    BY <1>1, <2>1, BoundAssumption DEF FrameTypes
  <2> QED
    BY <1>1, <2>1, <2>2, <2>3, <2>4 DEF FrameTypes
<1>4. ASSUME NEW b \in BusSet, GetMsg(b) PROVE FrameTypes'
  <2>1. /\ socket[b] \in Seq(Frame) /\ socket[b] # <<>>
        /\ msg' = [msg EXCEPT ![b] = <<Head(socket[b])>>]
        /\ socket' = [socket EXCEPT ![b] = Tail(socket[b])]
        /\ UNCHANGED <<sent, events, handled>>
    BY <1>1, <1>4 DEF GetMsg, FrameTypes
  <2>2. /\ Tail(socket[b]) \in Seq(Frame) /\ Len(Tail(socket[b])) <= Len(socket[b])
        /\ Len(socket[b]) \in Nat /\ Len(Tail(socket[b])) \in Nat
        /\ Head(socket[b]) \in Frame
    BY <2>1, TailFacts, LenProperties
  <2>3. <<Head(socket[b])>> \in Seq(Frame) /\ Len(<<Head(socket[b])>>) = 1
    BY <2>2
  <2>4. /\ socket' \in [BusSet -> Seq(Frame)] /\ msg' \in [BusSet -> Seq(Frame)]
        /\ \A c \in BusSet : Len(socket'[c]) <= SocketSize /\ Len(msg'[c]) <= 1
    BY <1>1, <2>1, <2>2, <2>3, BoundAssumption DEF FrameTypes
  <2> QED
    BY <1>1, <2>1, <2>4 DEF FrameTypes
<1>5. ASSUME NEW b \in BusSet, PassOn(b) PROVE FrameTypes'
  <2>1. events' \in Seq(Frame)
    <3>1. events' = events \/ events' = events \o msg[b]
      BY <1>5 DEF PassOn, Emit
    <3>2. events \in Seq(Frame) /\ msg[b] \in Seq(Frame)
      BY <1>1 DEF FrameTypes
    <3>3. events \o msg[b] \in Seq(Frame)
      BY <3>2, ConcatProperties
    <3> QED
      BY <3>1, <3>2, <3>3
  <2>2. msg' \in [BusSet -> Seq(Frame)] /\ \A c \in BusSet : Len(msg'[c]) <= 1
    BY <1>1, <1>5 DEF PassOn, FrameTypes
  <2>3. UNCHANGED <<sent, socket, handled>>
    BY <1>5 DEF PassOn
  <2> QED
    BY <1>1, <2>1, <2>2, <2>3 DEF FrameTypes
<1>6. CASE SetData
  <2>1. Tail(events) \in Seq(Frame)
    BY <1>1, <1>6, TailFacts DEF FrameTypes, SetData
  <2>2. Head(events).pile \in Piles /\ Head(events).no \in Nat
    BY <1>6, SetDataFrames DEF Frame
  <2>3. handled' \in [Piles -> Nat] /\ \A p \in Piles : handled'[p] <= sent[p]
    BY <1>1, <1>6, <2>2, SetDataFrames DEF SetData, FrameTypes
  <2> QED
    BY <1>1, <1>6, <2>1, <2>3 DEF SetData, FrameTypes
<1>7. CASE \/ \E b \in BusSet : BusFails(b) \/ BusReturns(b)
           \/ \E p \in Piles : SendMsgToPile(p)
           \/ SendReplyData \/ SendFails \/ PauseEnds
           \/ UNCHANGED vars
  BY <1>2, <1>7 DEF BusFails, BusReturns, SendMsgToPile, SendReplyData, SendFails, PauseEnds,
                    vars
<1> QED
  BY <1>3, <1>4, <1>5, <1>6, <1>7 DEF Next

\* Returning from sendReplyData keeps a bus to write to as long as a command is
\* being written.
LEMMA ReturnTypes ==
  ASSUME SendTypes, ~Idle, Return
  PROVE  /\ command' \in Seq(Piles) /\ Len(command') <= 1
         /\ todo' \in Seq(BusSet)
         /\ command' = <<>> <=> todo' = <<>>
         /\ todo # <<>> /\ Head(command) \in Piles /\ Head(todo) \in BusSet
<1>1. /\ todo # <<>> /\ command # <<>>
      /\ todo \in Seq(BusSet) /\ command \in Seq(Piles)
  BY DEF SendTypes, Idle
<1>2. Tail(todo) \in Seq(BusSet) /\ Head(todo) \in BusSet
  BY <1>1, TailFacts
<1>3. Head(command) \in Piles
  BY <1>1, TailFacts
<1>4. command' \in {<<>>, command}
  BY DEF Return
<1> QED
  BY <1>1, <1>2, <1>3, <1>4 DEF Return, SendTypes

\* Every step keeps the types of the commands.
LEMMA SendTypesNext == IInv /\ [Next]_vars => SendTypes'
<1> SUFFICES ASSUME IInv, [Next]_vars PROVE SendTypes'
  OBVIOUS
<1>1. SendTypes
  BY TypeParts DEF IInv
<1>2. ASSUME UNCHANGED sendVars PROVE SendTypes'
  BY <1>1, <1>2 DEF SendTypes, sendVars
<1>3. ASSUME NEW p \in Piles, SendMsgToPile(p) PROVE SendTypes'
  <2>1. /\ issued' \in [Piles -> Nat]
        /\ \A q \in Piles : onBus[q] <= issued'[q] /\ issued'[q] <= MaxCommands[q]
    <3>1. /\ issued' = [issued EXCEPT ![p] = issued[p] + 1]
          /\ issued[p] < MaxCommands[p]
      BY <1>3 DEF SendMsgToPile
    <3>2. /\ issued \in [Piles -> Nat] /\ onBus \in [Piles -> Nat]
          /\ MaxCommands \in [Piles -> Nat]
          /\ \A q \in Piles : onBus[q] <= issued[q] /\ issued[q] <= MaxCommands[q]
      BY <1>1, BoundAssumption DEF SendTypes
    <3> QED
      BY <3>1, <3>2
  <2>2. command' = <<p>> /\ <<p>> \in Seq(Piles) /\ Len(<<p>>) = 1 /\ <<p>> # <<>>
    BY <1>3 DEF SendMsgToPile
  <2>3. todo' = Buses /\ Buses \in Seq(BusSet) /\ Buses # <<>>
    <3>1. \E i \in DOMAIN Buses : Buses[i] = BusOf[p]
      BY BusAssumption DEF BusSet
    <3> QED
      BY <1>3, <3>1, BusAssumption DEF SendMsgToPile
  <2> QED
    BY <1>1, <1>3, <2>1, <2>2, <2>3 DEF SendMsgToPile, SendTypes
<1>4. CASE SendReplyData
  <2>1. SendTypes /\ ~Idle /\ Return /\ UNCHANGED <<issued, pausing>>
    BY <1>1, <1>4 DEF SendReplyData
  <2>2. onBus' \in [Piles -> Nat] /\ \A q \in Piles : onBus'[q] <= issued[q]
    <3>1. /\ onBus \in [Piles -> Nat] /\ issued \in [Piles -> Nat]
          /\ \A q \in Piles : onBus[q] <= issued[q]
      BY <1>1 DEF SendTypes
    <3>2. PICK p \in Piles : p = Head(command)
      BY <2>1, ReturnTypes
    <3>3. onBus' = onBus \/ onBus' = [onBus EXCEPT ![p] = issued[p]]
      BY <1>4, <3>2 DEF SendReplyData, Write
    <3> QED
      BY <3>1, <3>2, <3>3
  <2> QED
    BY <2>1, <2>2, ReturnTypes DEF SendTypes
<1>5. CASE SendFails
  BY <1>1, <1>5 DEF SendFails, SendTypes
<1>6. CASE PauseEnds
  <2>1. ~Idle
    BY <1>1, <1>6 DEF PauseEnds, IInv, ServedInv, SendTypes, Idle
  <2>2. Return /\ pausing' = FALSE /\ UNCHANGED <<issued, onBus>>
    BY <1>6 DEF PauseEnds, AfterPause
  <2> QED
    BY <1>1, <2>1, <2>2, ReturnTypes DEF SendTypes
<1>7. CASE \/ \E b \in BusSet : BusFails(b) \/ BusReturns(b) \/ GetMsg(b) \/ PassOn(b)
           \/ \E p \in Piles : PileSends(p)
           \/ SetData
           \/ UNCHANGED vars
  BY <1>2, <1>7 DEF BusFails, BusReturns, GetMsg, PassOn, PileSends, SetData, vars
<1> QED
  BY <1>3, <1>4, <1>5, <1>6, <1>7 DEF Next

\* Every step keeps the types of the buses.
LEMMA BusTypesNext == IInv /\ [Next]_vars => BusTypes'
<1> SUFFICES ASSUME IInv, [Next]_vars PROVE BusTypes'
  OBVIOUS
<1>1. BusTypes
  BY TypeParts DEF IInv
<1>2. ASSUME NEW b \in BusSet, BusFails(b) PROVE BusTypes'
  BY <1>1, <1>2, BoundAssumption DEF BusFails, BusTypes
<1>3. ASSUME NEW b \in BusSet, BusReturns(b) PROVE BusTypes'
  BY <1>1, <1>3 DEF BusReturns, BusTypes
<1>4. ASSUME UNCHANGED busVars PROVE BusTypes'
  BY <1>1, <1>4 DEF busVars, BusTypes
<1>5. CASE \/ \E b \in BusSet : GetMsg(b) \/ PassOn(b)
           \/ \E p \in Piles : PileSends(p) \/ SendMsgToPile(p)
           \/ SetData \/ SendReplyData \/ SendFails \/ PauseEnds
           \/ UNCHANGED vars
  BY <1>4, <1>5 DEF GetMsg, PassOn, PileSends, SendMsgToPile, SetData, SendReplyData,
                    SendFails, PauseEnds, vars
<1> QED
  BY <1>2, <1>3, <1>5 DEF Next

-----------------------------------------------------------------------------
(* Commands *)

\* After the return from sendReplyData for one bus, the others are still to come.
LEMMA StillAfterReturn ==
  ASSUME SendTypes, ~Idle, Return, NEW p \in Piles, NEW b \in BusSet,
         StillTo(p, b), b # Head(todo)
  PROVE  StillTo(p, b)'
<1>1. todo \in Seq(BusSet) /\ todo # <<>>
  BY ReturnTypes DEF SendTypes
<1>2. PICK i \in DOMAIN todo : todo[i] = b
  BY DEF StillTo
<1>3. i - 1 \in DOMAIN Tail(todo) /\ Tail(todo)[i - 1] = b
  BY <1>1, <1>2, TailFacts
<1>4. Tail(todo) # <<>>
  BY <1>3
<1>5. todo' = Tail(todo) /\ command' = command
  BY <1>4 DEF Return
<1> QED
  BY <1>3, <1>5 DEF StillTo

\* Every step keeps the bus of an unwritten command to be written to.
LEMMA ServedNext == IInv /\ [Next]_vars => ServedInv'
<1> SUFFICES ASSUME IInv, [Next]_vars PROVE ServedInv'
  OBVIOUS
<1>1. /\ SendTypes
      /\ BusSet \ up \subseteq failed
      /\ pausing => todo # <<>> /\ Head(todo) \in failed
      /\ \A p \in Piles :
           BusOf[p] \in m_initialized \ failed
             => onBus[p] = issued[p] \/ StillTo(p, BusOf[p])
      /\ \A p \in Piles : BusOf[p] \in BusSet
  BY TypeParts, BusAssumption DEF IInv, ServedInv
<1>2. ASSUME NEW b \in BusSet, BusFails(b) \/ BusReturns(b) PROVE ServedInv'
  <2>1. /\ BusSet \ up' \subseteq failed' /\ failed \subseteq failed'
        /\ UNCHANGED <<m_initialized, issued, onBus, command, todo, pausing>>
    BY <1>1, <1>2 DEF BusFails, BusReturns, sendVars
  <2>2. \A p \in Piles :
          StillTo(p, BusOf[p]) => StillTo(p, BusOf[p])'
    BY <2>1 DEF StillTo
  <2> QED
    BY <1>1, <2>1, <2>2 DEF ServedInv
<1>3. ASSUME UNCHANGED <<busVars, sendVars>> PROVE ServedInv'
  <2>1. UNCHANGED <<up, failed, m_initialized, issued, onBus, command, todo, pausing>>
    BY <1>3 DEF busVars, sendVars
  <2> QED
    BY <1>1, <2>1 DEF ServedInv, StillTo
<1>4. ASSUME NEW p \in Piles, SendMsgToPile(p) PROVE ServedInv'
  <2>1. /\ command = <<>> /\ command' = <<p>> /\ todo' = Buses
        /\ \A q \in Piles : q # p => issued'[q] = issued[q]
        /\ UNCHANGED <<up, failed, m_initialized, onBus, pausing>>
    BY <1>1, <1>4 DEF SendMsgToPile, Idle, busVars, SendTypes
  <2>2. ~pausing
    BY <1>1, <2>1 DEF SendTypes
  <2>3. ASSUME NEW q \in Piles, BusOf[q] \in m_initialized \ failed
        PROVE  onBus'[q] = issued'[q] \/ StillTo(q, BusOf[q])'
    <3>1. CASE q = p
      <4>1. \E i \in DOMAIN Buses : Buses[i] = BusOf[q]
        BY <1>1 DEF BusSet
      <4> QED
        BY <2>1, <3>1, <4>1 DEF StillTo
    <3>2. CASE q # p
      <4>1. ~StillTo(q, BusOf[q])
        BY <2>1 DEF StillTo
      <4> QED
        BY <1>1, <2>1, <2>3, <3>2, <4>1
    <3> QED
      BY <3>1, <3>2
  <2> QED
    BY <1>1, <2>1, <2>2, <2>3 DEF ServedInv
<1>5. CASE SendReplyData
  <2>1. /\ ~Idle /\ Return /\ Write(Head(todo)) /\ ~pausing
        /\ UNCHANGED <<up, failed, m_initialized, issued, pausing>>
    BY <1>5 DEF SendReplyData, busVars
  <2>2. onBus \in [Piles -> Nat]
    BY <1>1 DEF SendTypes
  <2>3. ASSUME NEW p \in Piles, BusOf[p] \in m_initialized \ failed
        PROVE  onBus'[p] = issued[p] \/ StillTo(p, BusOf[p])'
    <3>1. CASE onBus[p] = issued[p]
      BY <2>1, <2>2, <3>1 DEF Write
    <3>2. CASE StillTo(p, BusOf[p]) /\ BusOf[p] # Head(todo)
      BY <1>1, <2>1, <3>2, StillAfterReturn
    <3>3. CASE StillTo(p, BusOf[p]) /\ BusOf[p] = Head(todo)
      <4>1. Head(command) = p
        BY <3>3 DEF StillTo
      <4>2. BusOf[p] \in up \intersect m_initialized
        BY <1>1, <2>3
      <4>3. onBus' = [onBus EXCEPT ![p] = issued[p]]
        BY <2>1, <3>3, <4>1, <4>2 DEF Write
      <4> QED
        BY <2>2, <4>3
    <3> QED
      BY <1>1, <2>3, <3>1, <3>2, <3>3
  <2> QED
    BY <1>1, <2>1, <2>3 DEF ServedInv
<1>6. CASE SendFails
  <2>1. /\ ~Idle /\ Head(todo) \in m_initialized \ up
        /\ UNCHANGED <<up, failed, m_initialized, issued, command, todo, onBus>>
    BY <1>6 DEF SendFails, WriteError, busVars
  <2>2. todo # <<>> /\ Head(todo) \in BusSet
    <3>1. todo # <<>> /\ todo \in Seq(BusSet)
      BY <1>1, <2>1 DEF SendTypes, Idle
    <3> QED
      BY <3>1, TailFacts
  <2>3. Head(todo) \in failed
    BY <1>1, <2>1, <2>2
  <2>4. \A p \in Piles : StillTo(p, BusOf[p]) => StillTo(p, BusOf[p])'
    BY <2>1 DEF StillTo
  <2> QED
    BY <1>1, <2>1, <2>2, <2>3, <2>4 DEF ServedInv
<1>7. CASE PauseEnds
  <2>1. /\ pausing /\ Return /\ pausing' = FALSE
        /\ UNCHANGED <<up, failed, m_initialized, issued, onBus>>
    BY <1>7 DEF PauseEnds, AfterPause, busVars
  <2>2. ~Idle /\ Head(todo) \in failed
    BY <1>1, <2>1 DEF SendTypes, Idle
  <2>3. ASSUME NEW p \in Piles, BusOf[p] \in m_initialized \ failed
        PROVE  onBus[p] = issued[p] \/ StillTo(p, BusOf[p])'
    BY <1>1, <2>1, <2>2, <2>3, StillAfterReturn
  <2> QED
    BY <1>1, <2>1, <2>3 DEF ServedInv
<1>8. CASE \/ \E b \in BusSet : GetMsg(b) \/ PassOn(b)
           \/ \E p \in Piles : PileSends(p)
           \/ SetData
           \/ UNCHANGED vars
  BY <1>3, <1>8 DEF GetMsg, PassOn, PileSends, SetData, vars
<1> QED
  BY <1>2, <1>4, <1>5, <1>6, <1>7, <1>8 DEF Next

-----------------------------------------------------------------------------
(* Theorems *)

\* The parts make up the types after a step, too.
LEMMA TypePartsNext ==
  (FrameInv /\ FrameTypes /\ SendTypes /\ BusTypes)' => (TypeOK /\ Shape)'
<1>1. FrameInv /\ FrameTypes /\ SendTypes /\ BusTypes => TypeOK /\ Shape
  BY TypeParts
<1> QED
  BY <1>1, PTL

\* Every step keeps the invariant.
LEMMA NextInv == IInv /\ [Next]_vars => IInv'
<1> SUFFICES ASSUME IInv, [Next]_vars PROVE IInv'
  OBVIOUS
<1>1. FrameInv' /\ FrameTypes' /\ SendTypes' /\ BusTypes' /\ ServedInv'
  BY FrameNext, FrameTypesNext, SendTypesNext, BusTypesNext, ServedNext
<1>2. (TypeOK /\ Shape)'
  BY <1>1, TypePartsNext
<1> QED
  BY <1>1, <1>2 DEF IInv

\* The invariant of CanBus is inductive: it holds in every state that startSystem,
\* the bus threads and the event loop can reach.
THEOREM BusInductive == Spec => []IInv
BY InitInv, NextInv, PTL DEF Spec

\* Every variable keeps its type: a thread holds at most one frame and only
\* frames of its bus, no pile's handled frames overtake its sent ones.
THEOREM BusTypeCorrect == Spec => []TypeOK
<1>1. IInv => TypeOK
  BY DEF IInv
<1> QED
  BY <1>1, BusInductive, PTL

\* sendMsgToPile: whatever buses are missing, fail and return, a command for a
\* pile whose own bus always worked is on that bus when the event loop is free.
THEOREM HealthyBusServed == Spec => []OtherBusServed
<1>1. IInv => OtherBusServed
  <2> SUFFICES ASSUME IInv, NEW p \in Piles, Idle, BusOf[p] \in m_initialized \ failed
               PROVE  onBus[p] = issued[p]
    BY DEF OtherBusServed
  <2>1. ~StillTo(p, BusOf[p])
    BY DEF StillTo, Idle
  <2> QED
    BY <2>1 DEF IInv, ServedInv
<1> QED
  BY <1>1, BusInductive, PTL

-----------------------------------------------------------------------------
(* The refinement *)

\* Initially nothing was sent or issued.
LEMMA LinkInit == Init => Link!Init
BY DEF Init, Link!Init

\* Every step is a step of the link or leaves its variables alone.
LEMMA LinkNext == IInv /\ [Next]_vars => [Link!Next]_(Link!vars)
<1> SUFFICES ASSUME IInv, [Next]_vars PROVE [Link!Next]_(Link!vars)
  OBVIOUS
<1>1. FrameTypes /\ SendTypes
  BY TypeParts DEF IInv
<1>2. ASSUME NEW p \in Piles, PileSends(p) PROVE Link!PileSends(p)
  BY <1>2 DEF PileSends, sendVars, Link!PileSends
<1>3. ASSUME NEW p \in Piles, SendMsgToPile(p) PROVE Link!Issue(p)
  BY <1>3 DEF SendMsgToPile, frameVars, Link!Issue
<1>4. ASSUME SetData PROVE \E p \in Piles : Link!Handle(p)
  <2> DEFINE p == Head(events).pile
             n == Head(events).no
  <2>1. /\ p \in Piles /\ n \in Nat /\ handled[p] < n /\ n <= sent[p]
        /\ handled[p] \in Nat /\ sent[p] \in Nat
    <3>1. p \in Piles /\ n \in Nat /\ handled[p] < n /\ n <= sent[p]
      BY <1>4, SetDataFrames DEF Frame
    <3> QED
      BY <1>1, <3>1, BoundAssumption DEF FrameTypes
  <2>2. /\ handled' = [handled EXCEPT ![p] = n]
        /\ UNCHANGED <<sent, issued, onBus>>
    BY <1>4 DEF SetData, sendVars
  <2> HIDE DEF p, n
  <2>3. n \in handled[p] + 1 .. sent[p]
    BY <2>1
  <2> QED
    BY <2>1, <2>2, <2>3 DEF Link!Handle
<1>5. ASSUME SendReplyData
      PROVE  (\E p \in Piles : Link!PutOnBus(p)) \/ UNCHANGED Link!vars
  <2>1. /\ ~Idle /\ Return /\ Write(Head(todo))
        /\ UNCHANGED <<sent, handled, issued>>
    BY <1>5 DEF SendReplyData, frameVars
  <2>2. PICK p \in Piles : p = Head(command)
    BY <1>1, <2>1, ReturnTypes
  <2>3. onBus' = onBus \/ onBus' = [onBus EXCEPT ![p] = issued[p]]
    BY <2>1, <2>2 DEF Write
  <2>4. /\ onBus \in [Piles -> Nat] /\ onBus[p] \in Nat /\ issued[p] \in Nat
        /\ onBus[p] <= issued[p]
    BY <1>1 DEF SendTypes
  <2>5. CASE onBus' = onBus
    BY <2>1, <2>5 DEF Link!vars
  <2>6. CASE onBus' = [onBus EXCEPT ![p] = issued[p]] /\ onBus[p] = issued[p]
    <3>1. onBus' = onBus
      BY <2>4, <2>6
    <3> QED
      BY <2>1, <3>1 DEF Link!vars
  <2>7. CASE onBus' = [onBus EXCEPT ![p] = issued[p]] /\ onBus[p] # issued[p]
    <3>1. issued[p] \in onBus[p] + 1 .. issued[p]
      BY <2>4, <2>7
    <3> QED
      BY <2>1, <2>7, <3>1 DEF Link!PutOnBus
  <2> QED
    BY <2>3, <2>5, <2>6, <2>7
<1>6. CASE \/ \E b \in BusSet : BusFails(b) \/ BusReturns(b) \/ GetMsg(b) \/ PassOn(b)
           \/ SendFails \/ PauseEnds
           \/ UNCHANGED vars
  BY <1>6 DEF BusFails, BusReturns, GetMsg, PassOn, SendFails, PauseEnds, frameVars, sendVars,
              vars, Link!vars
<1> QED
  BY <1>2, <1>3, <1>4, <1>5, <1>6 DEF Next, Link!Next

\* What every other module assumes of the frames holds over any number of buses
\* with their threads and one event loop: the frames of a pile are handled at
\* most once and in the order they were sent, and the commands for a pile
\* reach its bus at most once and in the order they were issued.
THEOREM BusesAreALink == Spec => ImplementsLink
<1>1. Spec => Link!Init /\ [][Link!Next]_(Link!vars)
  BY LinkInit, LinkNext, BusInductive, PTL DEF Spec
<1> QED
  BY <1>1 DEF ImplementsLink, Link!Spec
=============================================================================
