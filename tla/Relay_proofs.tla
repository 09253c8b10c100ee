---------------------------- MODULE Relay_proofs ----------------------------
(***************************************************************************)
(* Proofs about Relay for every set of connections, names and files and    *)
(* every limit: who owns an inbox, what may leave it, what it may hold,    *)
(* and what a client may conclude from an answer.                          *)
(***************************************************************************)
EXTENDS Relay, Induction, SequenceTheorems

-----------------------------------------------------------------------------
(* The inductive invariant *)

\* Types of the server's shared and local state.
ServerTypes ==
    /\ handler \in [Conns -> HandlerStates]
    /\ registered \subseteq Conns
    /\ users \subseteq Users
    /\ inbox \in [Users -> Seq(Containers)]
    /\ holding \in [Conns -> Containers \cup {None}]

Holds(c) == handler[c] \in {"delivering", "acknowledging"}

\* From the moment it is announced until it is acknowledged, a container stays
\* first in its inbox.
HoldingInv ==
    \A c \in Conns : Holds(c) => /\ inbox[UserOf[c]] # <<>>
                                 /\ holding[c] = Head(inbox[UserOf[c]])

IInv == ServerTypes /\ OneHandlerPerInbox /\ HoldingInv

\* A connection that was not opened has no coroutine yet.
CallerInv ==
    /\ caller \in [Conns -> CallerStates]
    /\ \A c \in Conns : caller[c] = "off" => handler[c] = "none"

Serving == HandlerStates \ {"none", "registration", "ended"}

Good == IInv' /\ GrowsOrLosesSent

-----------------------------------------------------------------------------
(* What the steps do to the inboxes *)

\* A coroutine that holds a container has the inbox of its name to itself.
LEMMA SoleOwner ==
    ASSUME IInv, NEW c \in Conns, NEW d \in Conns,
           handler[c] \in Serving, handler[d] \in Serving, UserOf[c] = UserOf[d]
    PROVE  /\ c = d
           /\ c \in registered
           /\ UserOf[c] \in users
BY ConnsAssumption DEF IInv, ServerTypes, OneHandlerPerInbox, Serving

\* While the inboxes stay as they are nothing leaves them.
LEMMA UnchangedOrder ==
    ASSUME IInv, UNCHANGED inbox
    PROVE  GrowsOrLosesSent
<1>1. SUFFICES ASSUME NEW c \in registered \cap registered'
               PROVE  inbox'[UserOf[c]] = inbox[UserOf[c]] \o <<>>
  BY Zenon DEF GrowsOrLosesSent
<1>2. inbox[UserOf[c]] \in Seq(Containers)
  BY ConnsAssumption DEF IInv, ServerTypes
<1>3. QED
  BY <1>2, ConcatEmptySeq

\* The steps of clients, and the answers that change nothing on the server.
LEMMA UnseenStep ==
    ASSUME IInv, UNCHANGED <<handler, registered, users, inbox, holding>>
    PROVE  Good
<1>1. GrowsOrLosesSent
  BY UnchangedOrder
<1>2. ServerTypes' /\ OneHandlerPerInbox' /\ HoldingInv'
  BY DEF IInv, ServerTypes, OneHandlerPerInbox, HoldingInv, Holds
<1>3. QED
  BY <1>1, <1>2 DEF Good, IInv

\* A coroutine goes on to its next await and leaves the inboxes alone; it only
\* announces a container by holding it.
LEMMA MoveStep ==
    ASSUME IInv, NEW c \in Conns, NEW state \in HandlerStates,
           GoesTo(c, state),
           UNCHANGED <<registered, users, inbox, holding>>,
           handler[c] \in Serving <=> state \in Serving,
           state \in {"delivering", "acknowledging"} => Holds(c)
    PROVE  Good
<1>1. GrowsOrLosesSent
  BY UnchangedOrder
<1>2. ServerTypes'
  BY DEF IInv, ServerTypes, GoesTo
<1>3. OneHandlerPerInbox'
  BY DEF IInv, ServerTypes, OneHandlerPerInbox, GoesTo, Serving
<1>4. HoldingInv'
  BY DEF IInv, ServerTypes, HoldingInv, Holds, GoesTo
<1>5. QED
  BY <1>1, <1>2, <1>3, <1>4 DEF Good, IInv

\* A registration takes a free name and its empty inbox.
LEMMA RegisterStep ==
    ASSUME IInv, NEW c \in Conns, Register(c)
    PROVE  Good
<1> USE DEF IInv, ServerTypes, Register, Takes, Has, GoesTo
<1>1. GrowsOrLosesSent
  BY UnchangedOrder
<1>2. ServerTypes'
  BY ConnsAssumption DEF HandlerStates
<1>3. OneHandlerPerInbox'
  BY ConnsAssumption DEF OneHandlerPerInbox
<1>4. HoldingInv'
  BY DEF HoldingInv, Holds
<1>5. QED
  BY <1>1, <1>2, <1>3, <1>4 DEF Good

\* The finally block takes away the inbox of its own coroutine and no other.
LEMMA EndsStep ==
    ASSUME IInv, NEW c \in Conns, Ends(c)
    PROVE  Good
<1> USE DEF IInv, ServerTypes, Ends, GoesTo
<1>1. ServerTypes'
  BY ConnsAssumption, EmptySeq DEF HandlerStates
<1>2. \A d \in registered \cap registered' : inbox'[UserOf[d]] = inbox[UserOf[d]]
  BY ConnsAssumption DEF OneHandlerPerInbox
<1>3. OneHandlerPerInbox'
  BY ConnsAssumption DEF OneHandlerPerInbox
<1>4. HoldingInv'
  <2> SUFFICES ASSUME NEW d \in Conns, Holds(d)'
               PROVE  /\ inbox'[UserOf[d]] # <<>>
                      /\ holding'[d] = Head(inbox'[UserOf[d]])
    BY DEF HoldingInv
  <2>1. d # c /\ Holds(d)
    BY DEF Holds
  <2>2. d \in registered \cap registered'
    BY <2>1 DEF OneHandlerPerInbox, Holds
  <2>3. holding'[d] = holding[d]
    BY <2>1
  <2>4. QED
    BY <1>2, <2>1, <2>2, <2>3 DEF HoldingInv
<1>5. GrowsOrLosesSent
  <2> SUFFICES ASSUME NEW d \in registered \cap registered'
               PROVE  inbox'[UserOf[d]] = inbox[UserOf[d]] \o <<>>
    BY Zenon DEF GrowsOrLosesSent
  <2>1. inbox[UserOf[d]] \in Seq(Containers)
    BY ConnsAssumption
  <2>2. QED
    BY <1>2, <2>1, ConcatEmptySeq
<1>6. QED
  BY <1>1, <1>3, <1>4, <1>5 DEF Good

\* A deposit goes behind whatever is being delivered.
LEMMA DepositStep ==
    ASSUME IInv, NEW c \in Conns, Deposit(c)
    PROVE  Good
<1> USE DEF IInv, ServerTypes
<1> DEFINE u == recipient[c]
           f == Arrived(c).file
<1>1. /\ u \in users /\ u \in Users /\ f \in Containers
      /\ handler[c] = "container"
      /\ handler' = [handler EXCEPT ![c] = "idle"]
      /\ inbox' = [inbox EXCEPT ![u] = Append(@, f)]
      /\ UNCHANGED <<registered, users, holding>>
  BY DEF Deposit, Takes, Has, IsContainer, GoesTo
<1> HIDE DEF u, f
<1>2. /\ inbox[u] \in Seq(Containers)
      /\ Append(inbox[u], f) \in Seq(Containers)
      /\ Append(inbox[u], f) # <<>>
      /\ Append(inbox[u], f) = inbox[u] \o <<f>>
      /\ inbox[u] # <<>> => Head(Append(inbox[u], f)) = Head(inbox[u])
  BY <1>1, AppendProperties, AppendIsConcat, HeadTailAppend
<1>3. ServerTypes'
  BY <1>1, <1>2 DEF HandlerStates
<1>4. OneHandlerPerInbox'
  BY <1>1 DEF OneHandlerPerInbox
<1>5. HoldingInv'
  BY <1>1, <1>2, ConnsAssumption DEF HoldingInv, Holds
<1>6. GrowsOrLosesSent
  <2> SUFFICES ASSUME NEW d \in registered \cap registered'
               PROVE  \E more \in {<<>>} \cup {<<g>> : g \in Containers} :
                          inbox'[UserOf[d]] = inbox[UserOf[d]] \o more
    BY Zenon DEF GrowsOrLosesSent
  <2>1. UserOf[d] \in Users /\ inbox[UserOf[d]] \in Seq(Containers)
    BY ConnsAssumption
  <2>2. CASE UserOf[d] = u
    <3>1. inbox'[UserOf[d]] = inbox[UserOf[d]] \o <<f>>
      BY <1>1, <1>2, <2>1, <2>2
    <3>2. <<f>> \in {<<g>> : g \in Containers}
      BY <1>1
    <3>3. QED
      BY <3>1, <3>2
  <2>3. CASE UserOf[d] # u
    <3>1. inbox'[UserOf[d]] = inbox[UserOf[d]]
      BY <1>1, <2>1, <2>3
    <3>2. inbox[UserOf[d]] \o <<>> = inbox[UserOf[d]]
      BY <2>1, ConcatEmptySeq
    <3>3. QED
      BY <3>1, <3>2
  <2>4. QED
    BY <2>2, <2>3
<1>7. QED
  BY <1>3, <1>4, <1>5, <1>6 DEF Good

\* A container is held from its announcement on.
LEMMA AnnounceStep ==
    ASSUME IInv, NEW c \in Conns, Announce(c)
    PROVE  Good
<1> USE DEF IInv, ServerTypes, Announce, Takes, Has, GoesTo
<1>1. GrowsOrLosesSent
  BY UnchangedOrder
<1>2. Head(inbox[UserOf[c]]) \in Containers
  BY ConnsAssumption, HeadTailProperties
<1>3. ServerTypes'
  BY <1>2 DEF HandlerStates
<1>4. OneHandlerPerInbox'
  BY DEF OneHandlerPerInbox
<1>5. HoldingInv'
  BY DEF HoldingInv, Holds
<1>6. QED
  BY <1>1, <1>3, <1>4, <1>5 DEF Good

\* The container an acknowledgement removes is the one that was sent.
LEMMA AcknowledgeStep ==
    ASSUME IInv, NEW c \in Conns, Acknowledge(c)
    PROVE  Good
<1> USE DEF IInv, ServerTypes
<1> DEFINE u == UserOf[c]
<1>1. /\ handler[c] = "acknowledging"
      /\ handler' = [handler EXCEPT ![c] = "idle"]
      /\ inbox' = [inbox EXCEPT ![u] = Tail(@)]
      /\ UNCHANGED <<registered, users, holding>>
  BY DEF Acknowledge, Takes, Has, GoesTo
<1>2. u \in users /\ u \in Users /\ c \in registered
  BY <1>1, SoleOwner, ConnsAssumption DEF Serving, HandlerStates
<1>3. /\ inbox[u] \in Seq(Containers) /\ inbox[u] # <<>>
      /\ holding[c] = Head(inbox[u])
  BY <1>1, <1>2 DEF HoldingInv, Holds
<1>4. /\ Tail(inbox[u]) \in Seq(Containers)
      /\ inbox[u] = <<holding[c]>> \o Tail(inbox[u])
  BY <1>3, HeadTailProperties
<1>5. \A d \in registered : d # c => UserOf[d] # u
  BY <1>2 DEF OneHandlerPerInbox
<1>6. ServerTypes'
  BY <1>1, <1>4 DEF HandlerStates
<1>7. OneHandlerPerInbox'
  BY <1>1, <1>2 DEF OneHandlerPerInbox
<1>8. HoldingInv'
  BY <1>1, <1>2, <1>5, ConnsAssumption DEF HoldingInv, Holds, OneHandlerPerInbox
<1>9. GrowsOrLosesSent
  <2> SUFFICES ASSUME NEW d \in registered \cap registered'
               PROVE  \/ inbox'[UserOf[d]] = inbox[UserOf[d]] \o <<>>
                      \/ /\ handler[d] = "acknowledging"
                         /\ inbox[UserOf[d]] = <<holding[d]>> \o inbox'[UserOf[d]]
    BY Zenon DEF GrowsOrLosesSent
  <2>1. UserOf[d] \in Users /\ inbox[UserOf[d]] \in Seq(Containers)
    BY ConnsAssumption
  <2>2. CASE d = c
    BY <1>1, <1>2, <1>4, <2>2
  <2>3. CASE d # c
    BY <1>1, <1>5, <2>1, <2>3, ConcatEmptySeq
  <2>4. QED
    BY <2>2, <2>3
<1>10. QED
  BY <1>6, <1>7, <1>8, <1>9 DEF Good

-----------------------------------------------------------------------------
(* All steps *)

\* Every step of a coroutine keeps the invariant and the order of the inboxes.
LEMMA HandlerPreserves ==
    ASSUME IInv, NEW c \in Conns, HandlerStep(c) \/ HandlerTimeout(c)
    PROVE  Good
<1>1. CASE Register(c)
  BY <1>1, RegisterStep
<1>2. CASE RefuseName(c) \/ RecipientGone(c) \/ Garbled(c) \/ Disconnected(c) \/ HandlerTimeout(c)
  BY <1>2, EndsStep DEF RefuseName, RecipientGone, Garbled, Disconnected, HandlerTimeout
<1>3. CASE ReadSend(c)
  <2>1. \E state \in {"container", "skipping"} : GoesTo(c, state)
    BY <1>3 DEF ReadSend
  <2>2. handler[c] = "idle" /\ UNCHANGED <<registered, users, inbox, holding>>
    BY <1>3 DEF ReadSend, Takes, Has
  <2>3. QED
    BY <2>1, <2>2, MoveStep DEF Serving, HandlerStates
<1>4. CASE SkipContainer(c) \/ RefuseContainer(c) \/ IgnoreAnswer(c)
  <2>1. /\ GoesTo(c, "idle")
        /\ handler[c] \in {"skipping", "container", "acknowledging"}
        /\ UNCHANGED <<registered, users, inbox, holding>>
    BY <1>4 DEF SkipContainer, RefuseContainer, IgnoreAnswer, Takes, Has
  <2>2. QED
    BY <2>1, MoveStep DEF Serving, HandlerStates
<1>5. CASE Deposit(c)
  BY <1>5, DepositStep
<1>6. CASE Answer(c)
  BY <1>6, UnseenStep DEF Answer, server_vars
<1>7. CASE Announce(c)
  BY <1>7, AnnounceStep
<1>8. CASE Deliver(c)
  <2>1. /\ GoesTo(c, "acknowledging")
        /\ handler[c] = "delivering"
        /\ UNCHANGED <<registered, users, inbox, holding>>
    BY <1>8 DEF Deliver
  <2>2. QED
    BY <2>1, MoveStep DEF Serving, HandlerStates, Holds
<1>9. CASE Acknowledge(c)
  BY <1>9, AcknowledgeStep
<1>10. QED
  BY <1>1, <1>2, <1>3, <1>4, <1>5, <1>6, <1>7, <1>8, <1>9 DEF HandlerStep

\* No client reaches an inbox but through the server.
LEMMA ClientPreserves ==
    ASSUME IInv, CallerInv, NEW c \in Conns,
           ReadStep(c) \/ CallStep(c) \/ Close(c) \/ CallTimeout(c)
    PROVE  Good
<1>1. CASE Connect(c)
  <2>1. /\ GoesTo(c, "registration")
        /\ handler[c] = "none"
        /\ UNCHANGED <<registered, users, inbox, holding>>
    BY <1>1 DEF Connect, CallerInv
  <2>2. QED
    BY <1>1, <2>1, MoveStep DEF Serving, HandlerStates
<1>2. CASE ReadStep(c)
  BY <1>2, UnseenStep
     DEF ReadStep, ReadRegistration, WriteContainer, ReadSent, ReadFile, ReadContainer,
         ReadIncoming, EndOfStream, Closes, server_vars
<1>3. CASE Receive(c) \/ List(c) \/ \E u \in Users, f \in Files : Send(c, u, f)
  BY <1>3, UnseenStep DEF Receive, List, Send, server_vars
<1>4. CASE Close(c) \/ CallTimeout(c)
  BY <1>4, UnseenStep DEF Close, CallTimeout, Closes, server_vars
<1>5. QED
  BY <1>1, <1>2, <1>3, <1>4 DEF CallStep

\* A coroutine that takes a step was opened by its client.
LEMMA CallerStep == IInv /\ CallerInv /\ [Next]_vars => CallerInv'
<1> SUFFICES ASSUME IInv, CallerInv, [Next]_vars
             PROVE  CallerInv'
  OBVIOUS
<1> USE DEF IInv, ServerTypes, CallerInv
<1>1. CASE UNCHANGED vars \/ Quiet
  BY <1>1 DEF vars, server_vars, client_vars, Quiet
<1>2. ASSUME NEW c \in Conns, HandlerStep(c) \/ HandlerTimeout(c)
      PROVE  CallerInv'
  <2>1. caller' = caller
    BY <1>2 DEF HandlerStep, HandlerTimeout, Register, RefuseName, ReadSend, SkipContainer,
                RefuseContainer, RecipientGone, Deposit, Answer, Announce, Deliver,
                Acknowledge, IgnoreAnswer, Garbled, Disconnected, client_vars
  <2>2. handler[c] # "none"
    BY <1>2 DEF HandlerStep, HandlerTimeout, Register, RefuseName, ReadSend, SkipContainer,
                RefuseContainer, RecipientGone, Deposit, Answer, Announce, Deliver,
                Acknowledge, IgnoreAnswer, Garbled, Disconnected, Takes, Has, Live
  <2>3. \E state \in HandlerStates : handler' = [handler EXCEPT ![c] = state]
    <3>1. CASE Answer(c)
      BY <3>1 DEF Answer, server_vars
    <3>2. CASE ~Answer(c)
      BY <1>2, <3>2
         DEF HandlerStep, HandlerTimeout, Register, RefuseName, ReadSend, SkipContainer,
             RefuseContainer, RecipientGone, Deposit, Announce, Deliver, Acknowledge,
             IgnoreAnswer, Garbled, Disconnected, Ends, GoesTo, HandlerStates
    <3>3. QED
      BY <3>1, <3>2
  <2>4. QED
    BY <2>1, <2>2, <2>3
<1>3. ASSUME NEW c \in Conns, Connect(c)
      PROVE  CallerInv'
  BY <1>3 DEF Connect, Calling, GoesTo, CallerStates
<1>4. ASSUME NEW c \in Conns,
             ReadStep(c) \/ Receive(c) \/ List(c) \/ Close(c) \/ CallTimeout(c)
                \/ \E u \in Users, f \in Files : Send(c, u, f)
      PROVE  CallerInv'
  <2>1. handler' = handler
    BY <1>4 DEF ReadStep, ReadRegistration, WriteContainer, ReadSent, ReadFile, ReadContainer,
                ReadIncoming, EndOfStream, Closes, Receive, List, Send, Close, CallTimeout,
                server_vars
  <2>2. \E state \in CallerStates \ {"off"} : caller' = [caller EXCEPT ![c] = state]
    BY <1>4 DEF ReadStep, ReadRegistration, WriteContainer, ReadSent, ReadFile, ReadContainer,
                ReadIncoming, EndOfStream, Closes, Receive, List, Send, Call, Close,
                CallTimeout, Calling, CallerStates
  <2>3. QED
    BY <2>1, <2>2
<1>5. QED
  BY <1>1, <1>2, <1>3, <1>4 DEF Next, CallStep

\* Every step keeps the invariant and the order of the inboxes.
LEMMA AnyStep == IInv /\ CallerInv /\ [Next]_vars => Good
<1> SUFFICES ASSUME IInv, CallerInv, [Next]_vars
             PROVE  Good
  OBVIOUS
<1>1. CASE UNCHANGED vars \/ Quiet
  BY <1>1, UnseenStep DEF vars, server_vars, Quiet
<1>2. ASSUME NEW c \in Conns,
             HandlerStep(c) \/ HandlerTimeout(c)
                \/ ReadStep(c) \/ CallStep(c) \/ Close(c) \/ CallTimeout(c)
      PROVE  Good
  BY <1>2, HandlerPreserves, ClientPreserves
<1>3. QED
  BY <1>1, <1>2 DEF Next

\* Nobody is registered at first.
LEMMA InvInit == Init => IInv /\ CallerInv
BY ConnsAssumption, EmptySeq
   DEF Init, IInv, ServerTypes, OneHandlerPerInbox, HoldingInv, Holds, CallerInv,
       HandlerStates, CallerStates

\* The invariant holds in every reachable state.
LEMMA InductiveInvariant == Spec => [](IInv /\ CallerInv)
<1>1. IInv /\ CallerInv /\ [Next]_vars => (IInv /\ CallerInv)'
  BY AnyStep, CallerStep DEF Good
<1>2. QED
  BY <1>1, InvInit, PTL DEF Spec

-----------------------------------------------------------------------------
(* The limits of the inboxes *)

\* Bytes is the last of the running totals of the sizes.
LEMMA BytesTotal ==
    ASSUME NEW s \in Seq(Files),
           NEW v, v = [i \in 1..Len(s) |-> Size[s[i]]]
    PROVE  /\ \A i \in 1..Len(s) : v[i] \in Nat
           /\ \E g : /\ Totals(g, v, Len(s))
                     /\ Bytes(s) = g[Len(s)]
<1> DEFINE L == Len(s)
           Sol(g) == g = [n \in 0..L |-> IF n = 0 THEN 0 ELSE g[n - 1] + Size[s[n]]]
           total == CHOOSE g : Sol(g)
<1>1. L \in Nat /\ \A i \in 1..L : s[i] \in Files
  OBVIOUS
<1>2. \A i \in 1..L : v[i] = Size[s[i]] /\ v[i] \in Nat
  BY <1>1, FilesAssumption
<1>3. \A g : Totals(g, v, L) <=> Sol(g)
  <2> SUFFICES ASSUME NEW g
               PROVE  [n \in 0..L |-> IF n = 0 THEN 0 ELSE g[n - 1] + v[n]]
                        = [n \in 0..L |-> IF n = 0 THEN 0 ELSE g[n - 1] + Size[s[n]]]
    BY Zenon DEF Totals
  <2>1. QED
    BY <1>1, <1>2
<1>4. \E g : Sol(g)
  <2> HIDE DEF Sol, L
  <2>1. \E g : Totals(g, v, L)
    BY <1>1, <1>2, TotalsExist
  <2>2. QED
    BY <1>3, <2>1
<1>5. Sol(total)
  <2> HIDE DEF Sol
  <2>1. QED
    BY <1>4
<1>6. Totals(total, v, L)
  <2> HIDE DEF Sol, total
  <2>1. QED
    BY <1>3, <1>5
<1>7. Bytes(s) = total[L]
  BY DEF Bytes
<1>8. QED
  <2> HIDE DEF total, L
  <2>1. /\ \A i \in 1..L : v[i] \in Nat
        /\ \E g : Totals(g, v, L) /\ Bytes(s) = g[L]
    BY <1>2, <1>6, <1>7
  <2>2. QED
    BY <2>1 DEF L

\* What a container adds to the bytes and what its removal leaves.
LEMMA BytesFacts ==
    ASSUME NEW s \in Seq(Files)
    PROVE  /\ Bytes(s) \in Nat
           /\ s = <<>> => Bytes(s) = 0
           /\ \A f \in Files : Bytes(Append(s, f)) = Bytes(s) + Size[f]
           /\ s # <<>> => Bytes(Tail(s)) <= Bytes(s)
<1> DEFINE v == [i \in 1..Len(s) |-> Size[s[i]]]
           L == Len(s)
<1>1. PICK g : /\ Totals(g, v, L)
               /\ Bytes(s) = g[L]
  <2> HIDE DEF v
  <2>1. QED
    BY BytesTotal DEF v
<1>2. L \in Nat /\ \A i \in 1..L : v[i] \in Nat
  BY FilesAssumption
<1>3. \A n \in 0..L : g[n] \in Nat
  <2> HIDE DEF v, L
  <2>1. QED
    BY <1>1, <1>2, TotalsType
<1>4. Bytes(s) \in Nat
  BY <1>1, <1>2, <1>3
<1>5. s = <<>> => Bytes(s) = 0
  <2> HIDE DEF v
  <2>1. s = <<>> => L = 0
    OBVIOUS
  <2> HIDE DEF L
  <2>2. QED
    BY <1>1, <1>2, <2>1, TotalsGrow
<1>6. ASSUME NEW f \in Files
      PROVE  Bytes(Append(s, f)) = Bytes(s) + Size[f]
  <2> DEFINE t == Append(s, f)
             w == [i \in 1..Len(t) |-> Size[t[i]]]
             M == L + 1
  <2>1. /\ t \in Seq(Files) /\ Len(t) = M /\ t[M] = f /\ M \in Nat
        /\ \A i \in 1..L : t[i] = s[i]
    BY AppendProperties
  <2>2. PICK h : /\ Totals(h, w, M)
                 /\ Bytes(t) = h[M]
    <3> HIDE DEF w, t, L, M
    <3>1. QED
      BY <2>1, BytesTotal DEF w
  <2>3. /\ L <= M /\ M \in Nat /\ M = L + 1
        /\ Agree(v, w, L)
        /\ w[M] = Size[f]
    <3> HIDE DEF t
    <3>1. QED
      BY <1>2, <2>1 DEF Agree
  <2> HIDE DEF t, w, v, L, M
  <2>4. \A n \in 0..L : g[n] = h[n]
    BY <1>1, <1>2, <2>2, <2>3, TotalsAgree
  <2>5. h[M] = h[L] + w[M]
    <3>1. M \in 1..M /\ M - 1 = L
      BY <1>2, <2>3
    <3>2. QED
      BY <2>2, <2>3, <3>1, TotalsGrow
  <2>6. g[L] = h[L]
    BY <1>2, <2>4
  <2>7. QED
    BY <1>1, <2>2, <2>3, <2>5, <2>6 DEF t
<1>7. ASSUME s # <<>>
      PROVE  Bytes(Tail(s)) <= Bytes(s)
  <2> DEFINE t == Tail(s)
             w == [i \in 1..Len(t) |-> Size[t[i]]]
             M == L - 1
  <2>1. /\ t \in Seq(Files) /\ Len(t) = M /\ M \in Nat /\ M + 1 = L
        /\ \A i \in 1..M : t[i] = s[i + 1] /\ i + 1 \in 1..L
    BY <1>7, HeadTailProperties
  <2>2. PICK h : /\ Totals(h, w, M)
                 /\ Bytes(t) = h[M]
    <3> HIDE DEF w, t, M, L
    <3>1. QED
      BY <2>1, BytesTotal DEF w
  <2>3. Rest(w, v, M)
    <3> HIDE DEF t, M
    <3>1. QED
      BY <2>1 DEF Rest
  <2> HIDE DEF t, w, v
  <2>4. M + 1 \in 1..L
    BY <2>1
  <2>5. g[M + 1] = v[1] + h[M]
    <3> HIDE DEF M, L
    <3>1. L \in Nat /\ M \in Nat /\ L = M + 1
      BY <1>2, <2>1
    <3>2. \A n \in 0..M : g[n + 1] = v[1] + h[n]
      BY <1>1, <1>2, <2>2, <2>3, <3>1, TotalsTail
    <3>3. M \in 0..M
      BY <3>1
    <3>4. QED
      BY <3>2, <3>3
  <2> HIDE DEF M, L
  <2>6. 1 \in 1..L /\ v[1] \in Nat
    BY <1>2, <2>1
  <2>7. g[L] \in Nat /\ g[M + 1] = g[L]
    BY <1>2, <1>3, <2>1
  <2>8. h[M] <= g[L]
    <3>1. h[M] \in Nat
      <4>1. \A i \in 1..M : w[i] \in Nat
        <5>1. ASSUME NEW i \in 1..M
              PROVE  w[i] \in Nat
          BY <1>2, <2>1, <2>3 DEF Rest
        <5>2. QED
          BY <5>1
      <4>2. \A n \in 0..M : h[n] \in Nat
        BY <2>1, <2>2, <4>1, TotalsType
      <4>3. QED
        BY <2>1, <4>2
    <3>2. QED
      BY <2>5, <2>6, <2>7, <3>1
  <2>9. QED
    BY <1>1, <2>2, <2>8 DEF t
<1>8. QED
  BY <1>4, <1>5, <1>6, <1>7

\* An inbox within its limits.
Fits(s) == Len(s) <= MAX_INBOX_FILES /\ Bytes(s) <= MAX_INBOX_BYTES

\* Every inbox may hold its containers if the one inbox that changes may.
LEMMA OneInbox ==
    ASSUME IInv, CapacityKept, NEW u \in Users, NEW s, Fits(s), inbox' = [inbox EXCEPT ![u] = s]
    PROVE  CapacityKept'
<1> SUFFICES ASSUME NEW v \in Users
             PROVE  Fits(inbox'[v])
  BY DEF CapacityKept, Fits, InboxBytes
<1>1. CASE v = u
  BY <1>1 DEF IInv, ServerTypes
<1>2. CASE v # u
  BY <1>2 DEF IInv, ServerTypes, CapacityKept, Fits, InboxBytes
<1>3. QED
  BY <1>1, <1>2

\* What the end of a coroutine empties.
LEMMA EndsCapacity ==
    ASSUME IInv, CapacityKept, NEW c \in Conns, Ends(c)
    PROVE  CapacityKept'
<1>1. CASE c \in registered
  <2>1. <<>> \in Seq(Files) /\ Len(<<>>) = 0
    OBVIOUS
  <2>2. Bytes(<<>>) = 0
    BY <2>1, BytesFacts
  <2>3. Fits(<<>>)
    BY <2>1, <2>2, FilesAssumption DEF Fits
  <2>4. UserOf[c] \in Users /\ inbox' = [inbox EXCEPT ![UserOf[c]] = <<>>]
    BY <1>1, ConnsAssumption DEF Ends
  <2>5. QED
    BY <2>3, <2>4, OneInbox
<1>2. CASE c \notin registered
  BY <1>2 DEF Ends, CapacityKept, InboxBytes
<1>3. QED
  BY <1>1, <1>2

\* The limits are looked at when the container is put into the inbox, in the same
\* step, and not when the recipient was found.
LEMMA DepositCapacity ==
    ASSUME IInv, CapacityKept, NEW c \in Conns, Deposit(c)
    PROVE  CapacityKept'
<1> DEFINE u == recipient[c]
           f == Arrived(c).file
<1>1. /\ u \in Users /\ f \in Files
      /\ ~IsFull(u, f)
      /\ inbox' = [inbox EXCEPT ![u] = Append(inbox[u], f)]
  BY FilesAssumption DEF Deposit, IsContainer, IInv, ServerTypes
<1> HIDE DEF u, f
<1>2. inbox[u] \in Seq(Files)
  BY <1>1, FilesAssumption DEF IInv, ServerTypes
<1> DEFINE s == inbox[u]
<1>3. /\ s \in Seq(Files) /\ Len(s) \in Nat /\ Len(Append(s, f)) = Len(s) + 1
      /\ ~(Len(s) >= MAX_INBOX_FILES) /\ ~(Bytes(s) + Size[f] > MAX_INBOX_BYTES)
  BY <1>1, <1>2 DEF IsFull, InboxBytes
<1> HIDE DEF s
<1>4. Bytes(s) \in Nat /\ Bytes(Append(s, f)) = Bytes(s) + Size[f]
  BY <1>1, <1>3, BytesFacts
<1>5. Size[f] \in Nat /\ MAX_INBOX_FILES \in Nat /\ MAX_INBOX_BYTES \in Nat
  BY <1>1, FilesAssumption
<1>6. Fits(Append(s, f))
  BY <1>3, <1>4, <1>5 DEF Fits
<1>7. QED
  BY <1>1, <1>6, OneInbox DEF s

\* A container that is removed leaves fewer bytes.
LEMMA AcknowledgeCapacity ==
    ASSUME IInv, CapacityKept, NEW c \in Conns, Acknowledge(c)
    PROVE  CapacityKept'
<1> DEFINE u == UserOf[c]
           s == inbox[u]
<1>1. /\ u \in Users /\ handler[c] = "acknowledging"
      /\ inbox' = [inbox EXCEPT ![u] = Tail(s)]
  BY ConnsAssumption DEF Acknowledge, Takes, Has
<1>2. s \in Seq(Files) /\ s # <<>> /\ Fits(s)
  BY <1>1, FilesAssumption DEF IInv, ServerTypes, HoldingInv, Holds, CapacityKept, Fits, InboxBytes
<1> HIDE DEF u, s
<1>3. /\ Len(s) \in Nat /\ Len(Tail(s)) = Len(s) - 1 /\ Tail(s) \in Seq(Files)
  BY <1>2, HeadTailProperties
<1>4. /\ Bytes(s) \in Nat /\ Bytes(Tail(s)) \in Nat /\ Bytes(Tail(s)) <= Bytes(s)
  BY <1>2, <1>3, BytesFacts
<1>5. MAX_INBOX_FILES \in Nat /\ MAX_INBOX_BYTES \in Nat
  BY FilesAssumption
<1>6. Fits(Tail(s))
  BY <1>2, <1>3, <1>4, <1>5 DEF Fits
<1>7. QED
  BY <1>1, <1>6, OneInbox DEF s

\* No step makes an inbox too large.
LEMMA CapacityStep == IInv /\ CapacityKept /\ [Next]_vars => CapacityKept'
<1> SUFFICES ASSUME IInv, CapacityKept, [Next]_vars
             PROVE  CapacityKept'
  OBVIOUS
<1>1. CASE UNCHANGED inbox
  BY <1>1 DEF CapacityKept, InboxBytes
<1>2. CASE UNCHANGED vars \/ Quiet
  BY <1>1, <1>2 DEF vars, server_vars, Quiet
<1>3. ASSUME NEW c \in Conns, HandlerStep(c) \/ HandlerTimeout(c)
      PROVE  CapacityKept'
  <2>1. CASE RefuseName(c) \/ RecipientGone(c) \/ Garbled(c) \/ Disconnected(c) \/ HandlerTimeout(c)
    BY <2>1, EndsCapacity DEF RefuseName, RecipientGone, Garbled, Disconnected, HandlerTimeout
  <2>2. CASE Deposit(c)
    BY <2>2, DepositCapacity
  <2>3. CASE Acknowledge(c)
    BY <2>3, AcknowledgeCapacity
  <2>4. CASE \/ Register(c) \/ ReadSend(c) \/ SkipContainer(c) \/ RefuseContainer(c) \/ Answer(c)
             \/ Announce(c) \/ Deliver(c) \/ IgnoreAnswer(c)
    BY <1>1, <2>4 DEF Register, ReadSend, SkipContainer, RefuseContainer, Answer, Announce, Deliver,
                      IgnoreAnswer, server_vars
  <2>5. QED
    BY <1>3, <2>1, <2>2, <2>3, <2>4 DEF HandlerStep
<1>4. ASSUME NEW c \in Conns, ReadStep(c) \/ CallStep(c) \/ Close(c) \/ CallTimeout(c)
      PROVE  CapacityKept'
  BY <1>1, <1>4
     DEF ReadStep, ReadRegistration, WriteContainer, ReadSent, ReadFile, ReadContainer, ReadIncoming,
         EndOfStream, Closes, CallStep, Connect, Receive, List, Send, Close, CallTimeout, server_vars
<1>5. QED
  BY <1>2, <1>3, <1>4 DEF Next

\* Every inbox is empty at first.
LEMMA CapacityInit == Init => CapacityKept
<1>1. <<>> \in Seq(Files) /\ Len(<<>>) = 0
  OBVIOUS
<1>2. Bytes(<<>>) = 0
  BY <1>1, BytesFacts
<1>3. QED
  BY <1>1, <1>2, FilesAssumption DEF Init, CapacityKept, InboxBytes

-----------------------------------------------------------------------------
(* What a client that never gave a call up and its coroutine have said *)

\* No answer is on its way.
Silent(c) == to_client[c] = <<>>

\* The coroutine has read all that was sent.
Read(c) == to_server[c] = <<>>

\* What a client may have left unread when it closed the connection.
Requests ==
    {<<>>, <<Control("receive")>>, <<Control("list")>>}
    \cup {<<SendTo(u)>> : u \in Users} \cup {<<SendTo(u), Frame(f)>> : u \in Users, f \in Files}

\* What the call has written so far.
Asked(c, rest) ==
    \/ caller[c] = "ready" /\ rest = <<>>
    \/ caller[c] = "framing" /\ \E u \in Users : rest = <<SendTo(u)>>
    \/ caller[c] = "sending" /\ \E u \in Users : rest = <<SendTo(u), Frame(outgoing[c])>>
    \/ caller[c] = "receiving" /\ rest = <<Control("receive")>>
    \/ caller[c] = "listing" /\ rest = <<Control("list")>>
    \/ caller[c] = "closed" /\ rest \in Requests

\* The coroutine stands before rest, or does once it has read the acknowledgement
\* of a container the client has received.
Before(c, rest) ==
    \/ handler[c] = "idle" /\ to_server[c] = rest
    \/ /\ handler[c] = "acknowledging" /\ holding[c] \in received[c]
       /\ to_server[c] = <<Control("received")>> \o rest

Unopened(c) == handler[c] = "none" /\ Read(c) /\ Silent(c) /\ caller[c] = "off"

Registering(c) ==
    /\ handler[c] = "registration" /\ to_server[c] = <<Control("register")>> /\ Silent(c)
    /\ caller[c] \in {"connecting", "closed"}

Asking(c) == Silent(c) /\ \E rest \in Requests : Asked(c, rest) /\ Before(c, rest)

\* The frame that follows a send is awaited.
Transferring(c) ==
    /\ handler[c] \in {"container", "skipping"} /\ Silent(c)
    /\ \/ Read(c) /\ caller[c] \in {"framing", "closed"}
       \/ to_server[c] = <<Frame(outgoing[c])>> /\ caller[c] = "sending"
       \/ caller[c] = "closed" /\ \E f \in Files : to_server[c] = <<Frame(f)>>

Announced(c) ==
    /\ handler[c] = "delivering" /\ Read(c)
    /\ \/ Silent(c) /\ caller[c] \in {"reading", "closed"}
       \/ to_client[c] = <<Control("file")>> /\ caller[c] = "receiving"

Delivered(c) ==
    /\ handler[c] = "acknowledging" /\ Read(c)
    /\ \/ Silent(c) /\ caller[c] = "closed"
       \/ to_client[c] = <<Frame(holding[c])>> /\ caller[c] = "reading"
       \/ to_client[c] = <<Control("file"), Frame(holding[c])>> /\ caller[c] = "receiving"

Replied(c) ==
    /\ handler[c] \in {"idle", "ended"} /\ Read(c)
    /\ \/ to_client[c] = <<Control("registered")>> /\ caller[c] = "connecting"
       \/ to_client[c] = <<Control("error")>> /\ caller[c] \in {"connecting", "sending", "receiving"}
       \/ to_client[c] = <<Control("incoming")>> /\ caller[c] = "listing"
       \/ to_client[c] = <<Control("sent")>> /\ caller[c] = "sending" /\ outgoing[c] \in accepted

Gone(c) ==
    /\ handler[c] = "ended" /\ Read(c)
    /\ \/ Silent(c) /\ caller[c] # "off"
       \/ to_client[c] = <<Control("file")>> /\ caller[c] = "receiving"
       \/ \E f \in Containers :
            \/ to_client[c] = <<Frame(f)>> /\ caller[c] = "reading"
            \/ to_client[c] = <<Control("file"), Frame(f)>> /\ caller[c] = "receiving"

\* Between the two of them at most one request is open, and the streams hold what
\* belongs to it.
Conversation(c) ==
    \/ Unopened(c) \/ Registering(c) \/ Asking(c) \/ Transferring(c)
    \/ Announced(c) \/ Delivered(c) \/ Replied(c) \/ Gone(c)

\* What the two properties promise to this client.
Promises(c) == removed[c] \subseteq received[c] /\ confirmed[c] \subseteq accepted

TalkInv == \A c \in Conns \ late : Conversation(c) /\ Promises(c)

\* Types of the streams, of the clients' state and of the histories.  The server
\* sends no frame that is not a container.
Answers ==
    {Control(t) : t \in {"registered", "sent", "file", "incoming", "error"}}
    \cup {Frame(f) : f \in Containers}

TalkTypes ==
    /\ recipient \in [Conns -> Users \cup {None}]
    /\ calls \in [Conns -> Nat]
    /\ outgoing \in [Conns -> Files \cup {None}]
    /\ attempted \subseteq Files
    /\ to_server \in [Conns -> Seq(Messages)]
    /\ to_client \in [Conns -> Seq(Answers)]
    /\ accepted \subseteq Containers
    /\ confirmed \in [Conns -> SUBSET Files]
    /\ removed \in [Conns -> SUBSET Containers]
    /\ received \in [Conns -> SUBSET Containers]
    /\ late \subseteq Conns
    /\ crashed \subseteq Conns
    /\ \A c \in Conns : caller[c] \in {"framing", "sending"} => outgoing[c] \in Files

TInv == IInv /\ CallerInv /\ TalkTypes /\ TalkInv

\* Nothing that another client and its coroutine say is touched.
Private(c) ==
    /\ late \subseteq late' /\ accepted \subseteq accepted'
    /\ \A d \in Conns \ {c} :
         /\ handler'[d] = handler[d] /\ holding'[d] = holding[d] /\ caller'[d] = caller[d]
         /\ outgoing'[d] = outgoing[d] /\ to_server'[d] = to_server[d] /\ to_client'[d] = to_client[d]
         /\ received'[d] = received[d] /\ removed'[d] = removed[d] /\ confirmed'[d] = confirmed[d]

\* It is enough to look at the two that take the step.
LEMMA OthersTalk ==
    ASSUME TalkInv, NEW c \in Conns, Private(c),
           c \in late' \/ (Conversation(c)' /\ Promises(c)')
    PROVE  TalkInv'
<1> SUFFICES ASSUME NEW d \in Conns \ late', d # c
             PROVE  Conversation(d)' /\ Promises(d)'
  BY DEF TalkInv
<1>1. /\ handler'[d] = handler[d] /\ holding'[d] = holding[d] /\ caller'[d] = caller[d]
      /\ outgoing'[d] = outgoing[d] /\ to_server'[d] = to_server[d] /\ to_client'[d] = to_client[d]
      /\ received'[d] = received[d] /\ removed'[d] = removed[d] /\ confirmed'[d] = confirmed[d]
      /\ accepted \subseteq accepted'
  BY DEF Private
<1>2. Conversation(d) /\ Promises(d)
  BY DEF TalkInv, Private
<1>3. Promises(d)'
  BY <1>1, <1>2 DEF Promises
<1>4. Conversation(d)'
  <2>1. \A rest : Asked(d, rest)' <=> Asked(d, rest)
    BY <1>1 DEF Asked
  <2>2. \A rest : Before(d, rest)' <=> Before(d, rest)
    BY <1>1 DEF Before
  <2>3. (Silent(d)' <=> Silent(d)) /\ (Read(d)' <=> Read(d))
    BY <1>1 DEF Silent, Read
  <2>4. Asking(d)' <=> Asking(d)
    BY <2>1, <2>2, <2>3 DEF Asking
  <2>5. /\ Unopened(d)' <=> Unopened(d)
        /\ Registering(d)' <=> Registering(d)
        /\ Transferring(d)' <=> Transferring(d)
    BY <1>1, <2>3 DEF Unopened, Registering, Transferring
  <2>6. /\ Announced(d)' <=> Announced(d)
        /\ Delivered(d)' <=> Delivered(d)
        /\ Gone(d)' <=> Gone(d)
    BY <1>1, <2>3 DEF Announced, Delivered, Gone
  <2>7. Replied(d) => Replied(d)'
    BY <1>1, <2>3 DEF Replied
  <2>8. QED
    BY <1>2, <2>4, <2>5, <2>6, <2>7 DEF Conversation
<1>5. QED
  BY <1>3, <1>4

-----------------------------------------------------------------------------
(* The streams *)

\* A message before others.
LEMMA Ahead ==
    ASSUME NEW S, NEW x \in S, NEW rest \in Seq(S)
    PROVE  /\ <<x>> \o rest \in Seq(S) /\ <<x>> \o rest # <<>>
           /\ Head(<<x>> \o rest) = x /\ Tail(<<x>> \o rest) = rest
           /\ \A m \in S : Append(<<x>> \o rest, m) = <<x>> \o Append(rest, m)
<1> DEFINE a == <<x>> \o rest
<1>1. <<x>> \in Seq(S) /\ Len(<<x>>) = 1 /\ Len(rest) \in Nat
  OBVIOUS
<1>2. a \in Seq(S) /\ a # <<>> /\ Head(a) = x /\ Tail(a) = rest
  <2>1. /\ a \in Seq(S) /\ Len(a) = 1 + Len(rest)
        /\ a[1] = x /\ \A i \in 1..Len(rest) : a[i + 1] = rest[i]
    <3>1. a \in Seq(S) /\ Len(a) = 1 + Len(rest)
      BY <1>1, ConcatProperties
    <3>2. \A i \in 1..1 + Len(rest) : a[i] = IF i <= 1 THEN <<x>>[i] ELSE rest[i - 1]
      BY <1>1, ConcatProperties
    <3>3. QED
      BY <1>1, <3>1, <3>2
  <2> HIDE DEF a
  <2>2. a # <<>>
    BY <1>1, <2>1
  <2>3. /\ Head(a) = x /\ Tail(a) \in Seq(S) /\ Len(Tail(a)) = Len(rest)
        /\ \A i \in 1..Len(rest) : Tail(a)[i] = rest[i]
    BY <1>1, <2>1, <2>2, HeadTailProperties
  <2>4. Tail(a) = rest
    BY <2>3, SeqEqual
  <2>5. QED
    BY <2>1, <2>2, <2>3, <2>4
<1>3. ASSUME NEW m \in S
      PROVE  Append(<<x>> \o rest, m) = <<x>> \o Append(rest, m)
  <2>1. rest \o <<m>> = Append(rest, m) /\ (<<x>> \o rest) \o <<m>> = Append(<<x>> \o rest, m)
    BY <1>2, AppendIsConcat
  <2>2. (<<x>> \o rest) \o <<m>> = <<x>> \o (rest \o <<m>>)
    BY <1>1, ConcatAssociative
  <2>3. QED
    BY <2>1, <2>2
<1>4. QED
  BY <1>2, <1>3

\* Two messages, the second of which was written or read separately.
LEMMA Pair ==
    ASSUME NEW x, NEW y
    PROVE  /\ Append(<<x>>, y) = <<x, y>> /\ Append(<<>>, x) = <<x>>
           /\ Tail(<<x, y>>) = <<y>> /\ Head(<<x, y>>) = x
           /\ Tail(<<x>>) = <<>> /\ Head(<<x>>) = x
<1> DEFINE S == {x, y}
           a == Append(<<x>>, y)
<1>1. <<x>> \in Seq(S) /\ <<x, y>> \in Seq(S) /\ Len(<<x>>) = 1
  OBVIOUS
<1>2. a \in Seq(S) /\ Len(a) = 2 /\ a[1] = x /\ a[2] = y
  BY <1>1, AppendProperties
<1>3. a = <<x, y>>
  <2> HIDE DEF a, S
  <2>1. Len(<<x, y>>) = 2 /\ \A i \in 1..2 : a[i] = <<x, y>>[i]
    BY <1>2
  <2>2. QED
    BY <1>1, <1>2, <2>1, SeqEqual
<1>4. Append(<<>>, x) = <<x>> /\ Tail(<<x>>) = <<>> /\ Head(<<x>>) = x /\ Head(<<x, y>>) = x
  OBVIOUS
<1>5. Tail(<<x, y>>) = <<y>>
  OBVIOUS
<1>6. QED
  BY <1>3, <1>4, <1>5

\* Every message of the model is one.
LEMMA MessageTypes ==
    /\ \A t \in {"register", "receive", "list", "received"} : Control(t) \in Messages
    /\ \A u \in Users : SendTo(u) \in Messages
    /\ \A f \in Files : Frame(f) \in Messages
    /\ Requests \subseteq Seq(Messages)
    /\ \A t \in {"registered", "sent", "file", "incoming", "error"} : Control(t) \in Answers
    /\ \A f \in Containers : Frame(f) \in Answers
<1>1. /\ \A t \in {"register", "receive", "list", "received"} : Control(t) \in Messages
      /\ \A u \in Users : SendTo(u) \in Messages
      /\ \A f \in Files : Frame(f) \in Messages
  BY DEF Messages
<1>2. ASSUME NEW rest \in Requests
      PROVE  rest \in Seq(Messages)
  <2>1. CASE rest \in {<<>>, <<Control("receive")>>, <<Control("list")>>}
    <3>1. Control("receive") \in Messages /\ Control("list") \in Messages
      BY <1>1
    <3>2. <<>> \in Seq(Messages) /\ <<Control("receive")>> \in Seq(Messages) /\ <<Control("list")>> \in Seq(Messages)
      BY <3>1
    <3>3. QED
      BY <2>1, <3>2
  <2>2. CASE \E u \in Users : rest = <<SendTo(u)>>
    BY <1>1, <2>2
  <2>3. CASE \E u \in Users, f \in Files : rest = <<SendTo(u), Frame(f)>>
    <3>1. PICK u \in Users, f \in Files : rest = <<SendTo(u), Frame(f)>>
      BY <2>3
    <3>2. SendTo(u) \in Messages /\ Frame(f) \in Messages
      BY <1>1
    <3>3. QED
      BY <3>1, <3>2
  <2>4. QED
    BY <2>1, <2>2, <2>3 DEF Requests
<1>3. /\ \A t \in {"registered", "sent", "file", "incoming", "error"} : Control(t) \in Answers
      /\ \A f \in Containers : Frame(f) \in Answers
  BY DEF Answers
<1>4. QED
  BY <1>1, <1>2, <1>3

\* A coroutine takes the first message.
LEMMA TakesFacts ==
    ASSUME TalkTypes, NEW c \in Conns, NEW state, Takes(c, state)
    PROVE  /\ handler[c] = state /\ to_server[c] # <<>> /\ Arrived(c) \in Messages
           /\ to_server' \in [Conns -> Seq(Messages)]
           /\ to_server'[c] = Tail(to_server[c])
           /\ \A d \in Conns \ {c} : to_server'[d] = to_server[d]
<1>1. /\ handler[c] = state /\ to_server[c] # <<>> /\ to_server[c] \in Seq(Messages)
      /\ to_server' = [to_server EXCEPT ![c] = Tail(to_server[c])]
      /\ to_server \in [Conns -> Seq(Messages)]
  BY DEF Takes, Has, TalkTypes
<1>2. Head(to_server[c]) \in Messages /\ Tail(to_server[c]) \in Seq(Messages)
  BY <1>1, HeadTailProperties
<1>3. QED
  BY <1>1, <1>2 DEF Arrived

\* A coroutine answers.
LEMMA ReplyFacts ==
    ASSUME TalkTypes, NEW c \in Conns, NEW m \in Answers, Reply(c, m)
    PROVE  /\ to_client' \in [Conns -> Seq(Answers)]
           /\ to_client'[c] = IF caller[c] = "closed" THEN to_client[c] ELSE Append(to_client[c], m)
           /\ \A d \in Conns \ {c} : to_client'[d] = to_client[d]
<1>1. to_client \in [Conns -> Seq(Answers)] /\ to_client[c] \in Seq(Answers)
  BY DEF TalkTypes
<1>2. Append(to_client[c], m) \in Seq(Answers)
  BY <1>1
<1>3. QED
  BY <1>1, <1>2 DEF Reply

\* The coroutine goes on to its next await.
LEMMA GoesFacts ==
    ASSUME IInv, NEW c \in Conns, NEW state, GoesTo(c, state)
    PROVE  handler'[c] = state /\ \A d \in Conns \ {c} : handler'[d] = handler[d]
BY DEF IInv, ServerTypes, GoesTo

\* The client goes on in its call.
LEMMA CallingFacts ==
    ASSUME CallerInv, NEW c \in Conns, NEW state, Calling(c, state)
    PROVE  caller'[c] = state /\ \A d \in Conns \ {c} : caller'[d] = caller[d]
BY DEF CallerInv, Calling

\* A client writes a message.
LEMMA WritesFacts ==
    ASSUME TalkTypes, NEW c \in Conns, NEW m \in Messages, Writes(c, m)
    PROVE  /\ to_server' \in [Conns -> Seq(Messages)]
           /\ to_server'[c] = IF handler[c] = "ended" THEN to_server[c] ELSE Append(to_server[c], m)
           /\ \A d \in Conns \ {c} : to_server'[d] = to_server[d]
<1>1. to_server \in [Conns -> Seq(Messages)] /\ to_server[c] \in Seq(Messages)
  BY DEF TalkTypes
<1>2. Append(to_server[c], m) \in Seq(Messages)
  BY <1>1
<1>3. QED
  BY <1>1, <1>2 DEF Writes

\* A client reads an answer.
LEMMA ReadsFacts ==
    ASSUME TalkTypes, NEW c \in Conns, NEW state, Reads(c, state)
    PROVE  /\ caller[c] = state /\ to_client[c] # <<>> /\ Answered(c) \in Answers
           /\ to_client' \in [Conns -> Seq(Answers)]
           /\ to_client'[c] = Tail(to_client[c])
           /\ \A d \in Conns \ {c} : to_client'[d] = to_client[d]
<1>1. /\ caller[c] = state /\ to_client[c] # <<>> /\ to_client[c] \in Seq(Answers)
      /\ to_client' = [to_client EXCEPT ![c] = Tail(to_client[c])]
      /\ to_client \in [Conns -> Seq(Answers)]
  BY DEF Reads, TalkTypes
<1>2. Head(to_client[c]) \in Answers /\ Tail(to_client[c]) \in Seq(Answers)
  BY <1>1, HeadTailProperties
<1>3. QED
  BY <1>1, <1>2 DEF Answered

-----------------------------------------------------------------------------
(* The steps of a coroutine *)

\* What a step of a coroutine leaves alone.
Local(c) ==
    /\ UNCHANGED <<client_vars, client_history>>
    /\ \A d \in Conns \ {c} : /\ handler'[d] = handler[d] /\ holding'[d] = holding[d]
                              /\ to_server'[d] = to_server[d] /\ to_client'[d] = to_client[d]
                              /\ removed'[d] = removed[d]

\* The types of what it may change.
LocalTypes ==
    /\ recipient' \in [Conns -> Users \cup {None}]
    /\ to_server' \in [Conns -> Seq(Messages)]
    /\ to_client' \in [Conns -> Seq(Answers)]
    /\ accepted \subseteq accepted' /\ accepted' \subseteq Containers
    /\ removed' \in [Conns -> SUBSET Containers]
    /\ crashed' \subseteq Conns

Talks == TalkTypes' /\ TalkInv'

\* A step of a coroutine keeps the conversation if its own goes on.
LEMMA LocalStep ==
    ASSUME TInv, NEW c \in Conns, Local(c), LocalTypes,
           c \notin late => Conversation(c)' /\ removed'[c] \subseteq received[c]
    PROVE  Talks
<1>1. /\ caller' = caller /\ calls' = calls /\ outgoing' = outgoing /\ attempted' = attempted
      /\ confirmed' = confirmed /\ received' = received /\ late' = late
  BY DEF Local, client_vars, client_history
<1>2. TalkTypes'
  BY <1>1 DEF TInv, TalkTypes, LocalTypes
<1>3. Private(c)
  BY <1>1 DEF Private, Local, LocalTypes
<1>4. ASSUME c \notin late
      PROVE  Promises(c)'
  <2>1. confirmed[c] \subseteq accepted
    BY <1>4 DEF TInv, TalkInv, Promises
  <2>2. QED
    BY <1>1, <1>4, <2>1 DEF Promises, LocalTypes
<1>5. QED
  BY <1>1, <1>2, <1>3, <1>4, OthersTalk DEF Talks, TInv

\* Where a coroutine stands tells what its client does.
LEMMA Standing ==
    ASSUME TInv, NEW c \in Conns \ late
    PROVE  /\ handler[c] = "idle" /\ ~Read(c) =>
                Silent(c) /\ Asked(c, to_server[c]) /\ to_server[c] \in Requests
           /\ handler[c] = "acknowledging" /\ ~Read(c) =>
                /\ Silent(c) /\ holding[c] \in received[c]
                /\ \E rest \in Requests : Asked(c, rest) /\ to_server[c] = <<Control("received")>> \o rest
           /\ handler[c] = "acknowledging" => caller[c] \in {"reading", "receiving"} \/ Silent(c)
           /\ handler[c] = "registration" => Registering(c)
           /\ handler[c] \in {"container", "skipping"} => Transferring(c)
           /\ handler[c] = "delivering" => Announced(c)
           /\ removed[c] \subseteq received[c]
<1>1. Conversation(c) /\ removed[c] \subseteq received[c]
  BY DEF TInv, TalkInv, Promises
<1>2. CASE handler[c] = "idle" /\ ~Read(c)
  BY <1>1, <1>2 DEF Conversation, Unopened, Registering, Asking, Transferring, Announced, Delivered,
                    Replied, Gone, Before
<1>3. CASE handler[c] = "acknowledging"
  BY <1>1, <1>3 DEF Conversation, Unopened, Registering, Asking, Transferring, Announced, Delivered,
                    Replied, Gone, Before
<1>4. CASE handler[c] \notin {"idle", "acknowledging"}
  BY <1>1, <1>4 DEF Conversation, Unopened, Registering, Asking, Transferring, Announced, Delivered,
                    Replied, Gone, Before
<1>5. QED
  BY <1>1, <1>2, <1>3, <1>4

\* The name is registered.
LEMMA RegisterTalk ==
    ASSUME TInv, NEW c \in Conns, Register(c)
    PROVE  Talks
<1>1. /\ handler[c] = "registration" /\ to_server' \in [Conns -> Seq(Messages)]
      /\ to_server'[c] = Tail(to_server[c])
      /\ \A d \in Conns \ {c} : to_server'[d] = to_server[d]
  BY TakesFacts DEF TInv, Register
<1>2. /\ to_client' \in [Conns -> Seq(Answers)]
      /\ to_client'[c] = IF caller[c] = "closed" THEN to_client[c]
                         ELSE Append(to_client[c], Control("registered"))
      /\ \A d \in Conns \ {c} : to_client'[d] = to_client[d]
  BY ReplyFacts, MessageTypes DEF TInv, Register
<1>3. handler'[c] = "idle" /\ \A d \in Conns \ {c} : handler'[d] = handler[d]
  BY GoesFacts DEF TInv, Register
<1>4. Local(c)
  BY <1>1, <1>2, <1>3 DEF Local, Register, server_history
<1>5. LocalTypes
  BY <1>1, <1>2 DEF LocalTypes, TInv, TalkTypes, Register, server_history
<1>6. ASSUME c \notin late
      PROVE  Conversation(c)' /\ removed'[c] \subseteq received[c]
  <2>1. Registering(c) /\ removed[c] \subseteq received[c]
    BY <1>1, <1>6, Standing
  <2>2. /\ to_server'[c] = <<>> /\ caller'[c] = caller[c] /\ removed' = removed
        /\ IF caller[c] = "closed" THEN to_client'[c] = <<>>
           ELSE caller[c] = "connecting" /\ to_client'[c] = <<Control("registered")>>
    BY <1>1, <1>2, <2>1 DEF Registering, Silent, Register, client_vars, server_history
  <2>3. Asking(c)' \/ Replied(c)'
    BY <1>3, <2>1, <2>2 DEF Registering, Asking, Replied, Asked, Before, Requests, Silent, Read
  <2>4. QED
    BY <2>1, <2>2, <2>3 DEF Conversation
<1>7. QED
  BY <1>4, <1>5, <1>6, LocalStep

\* The coroutine ends: nothing more is read, what was answered still arrives.
LEMMA EndsTalk ==
    ASSUME TInv, NEW c \in Conns, Ends(c), handler[c] # "none",
           UNCHANGED <<client_vars, accepted, removed, client_history>>,
           crashed' \subseteq Conns,
           \/ UNCHANGED to_client
           \/ handler[c] = "registration" /\ Reply(c, Control("error"))
    PROVE  Talks
<1>1. handler'[c] = "ended" /\ \A d \in Conns \ {c} : handler'[d] = handler[d]
  BY GoesFacts DEF TInv, Ends
<1>2. /\ recipient' = [recipient EXCEPT ![c] = None] /\ holding' = [holding EXCEPT ![c] = None]
      /\ to_server' = [to_server EXCEPT ![c] = <<>>]
  BY DEF Ends
<1>3. /\ to_client' \in [Conns -> Seq(Answers)]
      /\ \A d \in Conns \ {c} : to_client'[d] = to_client[d]
      /\ \/ to_client'[c] = to_client[c]
         \/ /\ handler[c] = "registration" /\ caller[c] # "closed"
            /\ to_client'[c] = Append(to_client[c], Control("error"))
  <2>1. CASE UNCHANGED to_client
    BY <2>1 DEF TInv, TalkTypes
  <2>2. CASE handler[c] = "registration" /\ Reply(c, Control("error"))
    <3>1. /\ to_client' \in [Conns -> Seq(Answers)]
          /\ to_client'[c] = IF caller[c] = "closed" THEN to_client[c]
                             ELSE Append(to_client[c], Control("error"))
          /\ \A d \in Conns \ {c} : to_client'[d] = to_client[d]
      BY <2>2, ReplyFacts, MessageTypes DEF TInv
    <3>2. QED
      BY <2>2, <3>1
  <2>3. QED
    BY <2>1, <2>2
<1>4. Local(c)
  BY <1>1, <1>2, <1>3 DEF Local, TInv, IInv, ServerTypes, TalkTypes
<1>5. LocalTypes
  <2>1. <<>> \in Seq(Messages)
    OBVIOUS
  <2>2. QED
    BY <1>2, <1>3, <2>1 DEF LocalTypes, TInv, TalkTypes
<1>6. ASSUME c \notin late
      PROVE  Conversation(c)' /\ removed'[c] \subseteq received[c]
  <2>1. Conversation(c) /\ removed[c] \subseteq received[c]
    BY <1>6, Standing DEF TInv, TalkInv
  <2> SUFFICES Conversation(c)'
    BY <2>1
  <2>2. to_server'[c] = <<>> /\ caller'[c] = caller[c] /\ outgoing' = outgoing /\ accepted' = accepted
    BY <1>2 DEF TInv, TalkTypes, client_vars
  <2>3. ASSUME Silent(c), to_client'[c] = to_client[c], caller[c] # "off"
        PROVE  Conversation(c)'
    BY <1>1, <2>2, <2>3 DEF Conversation, Gone, Silent, Read
  <2>4. CASE handler[c] = "registration"
    <3>1. Registering(c)
      BY <1>6, <2>4, Standing
    <3>2. CASE to_client'[c] = to_client[c]
      BY <2>3, <3>1, <3>2 DEF Registering
    <3>3. CASE caller[c] # "closed" /\ to_client'[c] = Append(to_client[c], Control("error"))
      <4>1. caller[c] = "connecting" /\ to_client'[c] = <<Control("error")>>
        BY <3>1, <3>3 DEF Registering, Silent
      <4>2. QED
        BY <1>1, <2>2, <4>1 DEF Conversation, Replied, Read
    <3>4. QED
      BY <1>3, <3>2, <3>3
  <2>5. CASE handler[c] # "registration"
    <3>1. to_client'[c] = to_client[c]
      BY <1>3, <2>5
    <3>2. CASE Asking(c) \/ Transferring(c)
      BY <2>3, <3>1, <3>2 DEF Asking, Transferring, Asked
    <3>3. CASE Announced(c)
      BY <1>1, <2>2, <2>3, <3>1, <3>3 DEF Conversation, Announced, Gone, Silent, Read
    <3>4. CASE Delivered(c)
      <4>1. holding[c] \in Containers
        BY <3>4, ConnsAssumption, HeadTailProperties
           DEF Delivered, TInv, IInv, ServerTypes, HoldingInv, Holds
      <4>2. QED
        BY <1>1, <2>2, <2>3, <3>1, <3>4, <4>1 DEF Conversation, Delivered, Gone, Silent, Read
    <3>5. CASE Replied(c)
      BY <1>1, <2>2, <3>1, <3>5 DEF Conversation, Replied, Read
    <3>6. CASE Gone(c)
      BY <1>1, <2>2, <3>1, <3>6 DEF Conversation, Gone, Silent, Read
    <3>7. QED
      BY <2>1, <2>5, <3>2, <3>3, <3>4, <3>5, <3>6 DEF Conversation, Unopened, Registering
  <2>6. QED
    BY <2>1, <2>4, <2>5
<1>7. QED
  BY <1>4, <1>5, <1>6, LocalStep

\* The first message of a request tells what the client waits for.
LEMMA FirstMessage ==
    ASSUME NEW c, NEW s, Asked(c, s), s # <<>>
    PROVE  \/ /\ Head(s).type = "send" /\ Tail(s) = <<>>
              /\ caller[c] \in {"framing", "closed"}
           \/ /\ Head(s).type = "send"
              /\ \/ caller[c] = "sending" /\ Tail(s) = <<Frame(outgoing[c])>>
                 \/ caller[c] = "closed" /\ \E f \in Files : Tail(s) = <<Frame(f)>>
           \/ /\ Head(s).type = "list" /\ Tail(s) = <<>>
              /\ caller[c] \in {"listing", "closed"}
           \/ /\ Head(s).type = "receive" /\ Tail(s) = <<>>
              /\ caller[c] \in {"receiving", "closed"}
<1>1. CASE caller[c] = "closed" /\ s \in {<<Control("receive")>>, <<Control("list")>>}
  <2>1. CASE s = <<Control("receive")>>
    BY <1>1, <2>1 DEF Control
  <2>2. CASE s = <<Control("list")>>
    BY <1>1, <2>2 DEF Control
  <2>3. QED
    BY <1>1, <2>1, <2>2
<1>2. CASE caller[c] = "closed" /\ \E u \in Users : s = <<SendTo(u)>>
  BY <1>2 DEF SendTo
<1>3. CASE caller[c] = "closed" /\ \E u \in Users, f \in Files : s = <<SendTo(u), Frame(f)>>
  <2>1. PICK u \in Users, f \in Files : s = <<SendTo(u), Frame(f)>>
    BY <1>3
  <2>2. Head(s).type = "send" /\ Tail(s) = <<Frame(f)>>
    BY <2>1 DEF SendTo
  <2>3. QED
    BY <1>3, <2>2
<1>4. CASE caller[c] = "framing" /\ \E u \in Users : s = <<SendTo(u)>>
  BY <1>4 DEF SendTo
<1>5. CASE caller[c] = "sending" /\ \E u \in Users : s = <<SendTo(u), Frame(outgoing[c])>>
  <2>1. PICK u \in Users : s = <<SendTo(u), Frame(outgoing[c])>>
    BY <1>5
  <2>2. Head(s).type = "send" /\ Tail(s) = <<Frame(outgoing[c])>>
    BY <2>1 DEF SendTo
  <2>3. QED
    BY <1>5, <2>2
<1>6. CASE caller[c] = "receiving" /\ s = <<Control("receive")>>
  BY <1>6 DEF Control
<1>7. CASE caller[c] = "listing" /\ s = <<Control("list")>>
  BY <1>7 DEF Control
<1>8. QED
  BY <1>1, <1>2, <1>3, <1>4, <1>5, <1>6, <1>7 DEF Asked, Requests

\* The request names a recipient.
LEMMA ReadSendTalk ==
    ASSUME TInv, NEW c \in Conns, ReadSend(c)
    PROVE  Talks
<1>1. /\ handler[c] = "idle" /\ to_server[c] # <<>> /\ Arrived(c) \in Messages
      /\ to_server' \in [Conns -> Seq(Messages)]
      /\ to_server'[c] = Tail(to_server[c])
      /\ \A d \in Conns \ {c} : to_server'[d] = to_server[d]
  BY TakesFacts DEF TInv, ReadSend
<1>2. /\ Arrived(c).type = "send" /\ recipient' = [recipient EXCEPT ![c] = Arrived(c).user]
      /\ UNCHANGED <<holding, client_vars, to_client, server_history, client_history>>
  BY DEF ReadSend
<1>3. /\ handler'[c] \in {"container", "skipping"}
      /\ \A d \in Conns \ {c} : handler'[d] = handler[d]
  <2>1. \E state \in {"container", "skipping"} : GoesTo(c, state)
    BY DEF ReadSend
  <2>2. QED
    BY <2>1, GoesFacts DEF TInv
<1>4. Arrived(c).user \in Users
  BY <1>1, <1>2 DEF Messages, Control, SendTo, Frame
<1>5. Local(c)
  BY <1>1, <1>2, <1>3 DEF Local, server_history
<1>6. LocalTypes
  BY <1>1, <1>2, <1>4 DEF LocalTypes, TInv, TalkTypes, server_history
<1>7. ASSUME c \notin late
      PROVE  Conversation(c)' /\ removed'[c] \subseteq received[c]
  <2>1. /\ Silent(c) /\ Asked(c, to_server[c]) /\ to_server[c] \in Requests
        /\ removed[c] \subseteq received[c]
    BY <1>1, <1>7, Standing DEF Read
  <2>2. /\ caller'[c] = caller[c] /\ outgoing'[c] = outgoing[c] /\ to_client'[c] = to_client[c]
        /\ removed' = removed
    BY <1>2 DEF client_vars, server_history
  <2>3. \/ caller[c] \in {"framing", "closed"} /\ to_server'[c] = <<>>
        \/ caller[c] = "sending" /\ to_server'[c] = <<Frame(outgoing[c])>>
        \/ caller[c] = "closed" /\ \E f \in Files : to_server'[c] = <<Frame(f)>>
    BY <1>1, <1>2, <2>1, FirstMessage DEF Arrived
  <2>4. Transferring(c)'
    BY <1>3, <2>1, <2>2, <2>3 DEF Transferring, Silent, Read
  <2>5. QED
    BY <2>1, <2>2, <2>4 DEF Conversation
<1>8. QED
  BY <1>5, <1>6, <1>7, LocalStep

\* An answer to the frame of a send brings the coroutine back to idle; "sent" only
\* if the container is in an inbox.
LEMMA FrameTalk ==
    ASSUME TInv, NEW c \in Conns, NEW answer \in {"sent", "error"},
           Takes(c, "container") \/ Takes(c, "skipping"),
           Reply(c, Control(answer)), GoesTo(c, "idle"),
           UNCHANGED <<recipient, holding, client_vars, removed, crashed, client_history>>,
           accepted \subseteq accepted' /\ accepted' \subseteq Containers,
           answer = "sent" => Arrived(c).file \in accepted'
    PROVE  Talks
<1>1. /\ handler[c] \in {"container", "skipping"} /\ to_server[c] # <<>>
      /\ to_server' \in [Conns -> Seq(Messages)]
      /\ to_server'[c] = Tail(to_server[c])
      /\ \A d \in Conns \ {c} : to_server'[d] = to_server[d]
  BY TakesFacts DEF TInv
<1>2. /\ to_client' \in [Conns -> Seq(Answers)]
      /\ to_client'[c] = IF caller[c] = "closed" THEN to_client[c] ELSE Append(to_client[c], Control(answer))
      /\ \A d \in Conns \ {c} : to_client'[d] = to_client[d]
  BY ReplyFacts, MessageTypes DEF TInv
<1>3. handler'[c] = "idle" /\ \A d \in Conns \ {c} : handler'[d] = handler[d]
  BY GoesFacts DEF TInv
<1>4. Local(c)
  BY <1>1, <1>2, <1>3 DEF Local
<1>5. LocalTypes
  BY <1>1, <1>2 DEF LocalTypes, TInv, TalkTypes
<1>6. ASSUME c \notin late
      PROVE  Conversation(c)' /\ removed'[c] \subseteq received[c]
  <2>1. Transferring(c) /\ removed[c] \subseteq received[c]
    BY <1>1, <1>6, Standing
  <2>2. caller'[c] = caller[c] /\ outgoing'[c] = outgoing[c] /\ removed' = removed
    BY DEF client_vars
  <2>3. CASE caller[c] = "closed"
    <3>1. PICK f \in Files : to_server[c] = <<Frame(f)>>
      BY <1>1, <2>1, <2>3 DEF Transferring, Read
    <3>2. to_server'[c] = <<>> /\ to_client'[c] = <<>>
      BY <1>1, <1>2, <2>1, <2>3, <3>1 DEF Transferring, Silent
    <3>3. Asking(c)'
      BY <1>3, <2>2, <2>3, <3>2 DEF Asking, Asked, Before, Requests, Silent
    <3>4. QED
      BY <2>1, <2>2, <3>3 DEF Conversation
  <2>4. CASE caller[c] # "closed"
    <3>1. caller[c] = "sending" /\ to_server[c] = <<Frame(outgoing[c])>>
      BY <1>1, <2>1, <2>4 DEF Transferring, Read
    <3>2. to_server'[c] = <<>> /\ to_client'[c] = <<Control(answer)>>
      BY <1>1, <1>2, <2>1, <2>4, <3>1 DEF Transferring, Silent
    <3>3. Arrived(c).file = outgoing[c]
      BY <3>1 DEF Arrived, Frame
    <3>4. Replied(c)'
      BY <1>3, <2>2, <3>1, <3>2, <3>3 DEF Replied, Read
    <3>5. QED
      BY <2>1, <2>2, <3>4 DEF Conversation
  <2>5. QED
    BY <2>3, <2>4
<1>7. QED
  BY <1>4, <1>5, <1>6, LocalStep

\* list, and receive while the inbox is empty.
LEMMA AnswerTalk ==
    ASSUME TInv, NEW c \in Conns, Answer(c)
    PROVE  Talks
<1>1. /\ handler[c] = "idle" /\ to_server[c] # <<>>
      /\ to_server' \in [Conns -> Seq(Messages)]
      /\ to_server'[c] = Tail(to_server[c])
      /\ \A d \in Conns \ {c} : to_server'[d] = to_server[d]
  BY TakesFacts DEF TInv, Answer
<1>2. PICK answer \in {"incoming", "error"} :
        /\ Reply(c, Control(answer))
        /\ \/ Arrived(c).type = "list" /\ answer = "incoming"
           \/ Arrived(c).type \in {"receive", "received"} /\ answer = "error"
  BY DEF Answer
<1>3. /\ to_client' \in [Conns -> Seq(Answers)]
      /\ to_client'[c] = IF caller[c] = "closed" THEN to_client[c] ELSE Append(to_client[c], Control(answer))
      /\ \A d \in Conns \ {c} : to_client'[d] = to_client[d]
  BY <1>2, ReplyFacts, MessageTypes DEF TInv
<1>4. UNCHANGED <<handler, holding, recipient, client_vars, accepted, removed, crashed, client_history>>
  BY DEF Answer, server_vars, server_history
<1>5. Local(c)
  BY <1>1, <1>3, <1>4 DEF Local
<1>6. LocalTypes
  BY <1>1, <1>3, <1>4 DEF LocalTypes, TInv, TalkTypes
<1>7. ASSUME c \notin late
      PROVE  Conversation(c)' /\ removed'[c] \subseteq received[c]
  <2>1. /\ Silent(c) /\ Asked(c, to_server[c]) /\ to_server[c] \in Requests
        /\ removed[c] \subseteq received[c]
    BY <1>1, <1>7, Standing DEF Read
  <2>2. caller'[c] = caller[c] /\ handler'[c] = "idle" /\ removed' = removed
    BY <1>1, <1>4 DEF client_vars
  <2>3. \/ answer = "incoming" /\ caller[c] \in {"listing", "closed"}
        \/ answer = "error" /\ caller[c] \in {"receiving", "closed"}
    BY <1>1, <1>2, <2>1, FirstMessage DEF Arrived
  <2>4. to_server'[c] = <<>>
    BY <1>1, <1>2, <2>1, FirstMessage DEF Arrived
  <2>5. CASE caller[c] = "closed"
    <3>1. to_client'[c] = <<>>
      BY <1>3, <2>1, <2>5 DEF Silent
    <3>2. Asking(c)'
      BY <2>2, <2>4, <2>5, <3>1 DEF Asking, Asked, Before, Requests, Silent
    <3>3. QED
      BY <2>1, <2>2, <3>2 DEF Conversation
  <2>6. CASE caller[c] # "closed"
    <3>1. to_client'[c] = <<Control(answer)>>
      BY <1>3, <2>1, <2>6 DEF Silent
    <3>2. Replied(c)'
      BY <2>2, <2>3, <2>4, <2>6, <3>1 DEF Replied, Read
    <3>3. QED
      BY <2>1, <2>2, <3>2 DEF Conversation
  <2>7. QED
    BY <2>5, <2>6
<1>8. QED
  BY <1>5, <1>6, <1>7, LocalStep

\* The oldest container is announced.
LEMMA AnnounceTalk ==
    ASSUME TInv, NEW c \in Conns, Announce(c)
    PROVE  Talks
<1>1. /\ handler[c] = "idle" /\ to_server[c] # <<>>
      /\ to_server' \in [Conns -> Seq(Messages)]
      /\ to_server'[c] = Tail(to_server[c])
      /\ \A d \in Conns \ {c} : to_server'[d] = to_server[d]
  BY TakesFacts DEF TInv, Announce
<1>2. /\ to_client' \in [Conns -> Seq(Answers)]
      /\ to_client'[c] = IF caller[c] = "closed" THEN to_client[c] ELSE Append(to_client[c], Control("file"))
      /\ \A d \in Conns \ {c} : to_client'[d] = to_client[d]
  BY ReplyFacts, MessageTypes DEF TInv, Announce
<1>3. handler'[c] = "delivering" /\ \A d \in Conns \ {c} : handler'[d] = handler[d]
  BY GoesFacts DEF TInv, Announce
<1>4. /\ UNCHANGED <<recipient, client_vars, accepted, removed, crashed, client_history>>
      /\ \A d \in Conns \ {c} : holding'[d] = holding[d]
  BY DEF Announce, server_history, TInv, IInv, ServerTypes
<1>5. Local(c)
  BY <1>1, <1>2, <1>3, <1>4 DEF Local
<1>6. LocalTypes
  BY <1>1, <1>2, <1>4 DEF LocalTypes, TInv, TalkTypes
<1>7. ASSUME c \notin late
      PROVE  Conversation(c)' /\ removed'[c] \subseteq received[c]
  <2>1. /\ Silent(c) /\ Asked(c, to_server[c]) /\ removed[c] \subseteq received[c]
    BY <1>1, <1>7, Standing DEF Read
  <2>2. caller'[c] = caller[c] /\ removed' = removed
    BY <1>4 DEF client_vars
  <2>3. caller[c] \in {"receiving", "closed"} /\ to_server'[c] = <<>>
    BY <1>1, <2>1, FirstMessage DEF Arrived, Announce
  <2>4. IF caller[c] = "closed" THEN to_client'[c] = <<>> ELSE to_client'[c] = <<Control("file")>>
    BY <1>2, <2>1 DEF Silent
  <2>5. Announced(c)'
    BY <1>3, <2>2, <2>3, <2>4 DEF Announced, Silent, Read
  <2>6. QED
    BY <2>1, <2>2, <2>5 DEF Conversation
<1>8. QED
  BY <1>5, <1>6, <1>7, LocalStep

\* The container follows its announcement.
LEMMA DeliverTalk ==
    ASSUME TInv, NEW c \in Conns, Deliver(c)
    PROVE  Talks
<1>1. handler[c] = "delivering" /\ holding[c] \in Containers
  BY ConnsAssumption, HeadTailProperties DEF Deliver, TInv, IInv, ServerTypes, HoldingInv, Holds
<1>2. /\ to_client' \in [Conns -> Seq(Answers)]
      /\ to_client'[c] = IF caller[c] = "closed" THEN to_client[c] ELSE Append(to_client[c], Frame(holding[c]))
      /\ \A d \in Conns \ {c} : to_client'[d] = to_client[d]
  BY <1>1, ReplyFacts, MessageTypes DEF TInv, Deliver
<1>3. handler'[c] = "acknowledging" /\ \A d \in Conns \ {c} : handler'[d] = handler[d]
  BY GoesFacts DEF TInv, Deliver
<1>4. UNCHANGED <<recipient, holding, to_server, client_vars, accepted, removed, crashed, client_history>>
  BY DEF Deliver, server_history
<1>5. Local(c)
  BY <1>2, <1>3, <1>4 DEF Local
<1>6. LocalTypes
  BY <1>2, <1>4 DEF LocalTypes, TInv, TalkTypes
<1>7. ASSUME c \notin late
      PROVE  Conversation(c)' /\ removed'[c] \subseteq received[c]
  <2>1. Announced(c) /\ removed[c] \subseteq received[c]
    BY <1>1, <1>7, Standing
  <2>2. /\ caller'[c] = caller[c] /\ removed' = removed /\ to_server'[c] = <<>>
        /\ holding'[c] = holding[c]
    BY <1>4, <2>1 DEF client_vars, Announced, Read
  <2>3. \/ caller[c] = "closed" /\ to_client'[c] = <<>>
        \/ caller[c] = "reading" /\ to_client'[c] = <<Frame(holding[c])>>
        \/ caller[c] = "receiving" /\ to_client'[c] = <<Control("file"), Frame(holding[c])>>
    <3>1. CASE to_client[c] = <<>> /\ caller[c] \in {"reading", "closed"}
      BY <1>2, <3>1
    <3>2. CASE to_client[c] = <<Control("file")>> /\ caller[c] = "receiving"
      <4>1. to_client'[c] = Append(<<Control("file")>>, Frame(holding[c]))
        BY <1>2, <3>2
      <4>2. QED
        BY <3>2, <4>1, Pair
    <3>3. QED
      BY <2>1, <3>1, <3>2 DEF Announced, Silent
  <2>4. Delivered(c)'
    BY <1>3, <2>2, <2>3 DEF Delivered, Silent, Read
  <2>5. QED
    BY <2>1, <2>2, <2>4 DEF Conversation
<1>8. QED
  BY <1>5, <1>6, <1>7, LocalStep

\* The acknowledgement is there only once the client has the container that the
\* coroutine holds, and that one is removed.
LEMMA AcknowledgeTalk ==
    ASSUME TInv, NEW c \in Conns, Acknowledge(c)
    PROVE  Talks
<1>1. /\ handler[c] = "acknowledging" /\ to_server[c] # <<>>
      /\ to_server' \in [Conns -> Seq(Messages)]
      /\ to_server'[c] = Tail(to_server[c])
      /\ \A d \in Conns \ {c} : to_server'[d] = to_server[d]
  BY TakesFacts DEF TInv, Acknowledge
<1>2. handler'[c] = "idle" /\ \A d \in Conns \ {c} : handler'[d] = handler[d]
  BY GoesFacts DEF TInv, Acknowledge
<1>3. holding[c] = Head(inbox[UserOf[c]]) /\ holding[c] \in Containers
  BY <1>1, ConnsAssumption, HeadTailProperties DEF TInv, IInv, ServerTypes, HoldingInv, Holds
<1>4. /\ removed' = [removed EXCEPT ![c] = @ \cup {holding[c]}]
      /\ UNCHANGED <<recipient, holding, to_client, client_vars, accepted, crashed, client_history>>
  BY <1>3 DEF Acknowledge
<1>5. removed' \in [Conns -> SUBSET Containers] /\ removed'[c] = removed[c] \cup {holding[c]}
      /\ \A d \in Conns \ {c} : removed'[d] = removed[d]
  BY <1>3, <1>4 DEF TInv, TalkTypes
<1>6. Local(c)
  BY <1>1, <1>2, <1>4, <1>5 DEF Local
<1>7. LocalTypes
  BY <1>1, <1>4, <1>5 DEF LocalTypes, TInv, TalkTypes
<1>8. ASSUME c \notin late
      PROVE  Conversation(c)' /\ removed'[c] \subseteq received[c]
  <2>1. /\ Silent(c) /\ holding[c] \in received[c] /\ removed[c] \subseteq received[c]
        /\ \E rest \in Requests : Asked(c, rest) /\ to_server[c] = <<Control("received")>> \o rest
    BY <1>1, <1>8, Standing DEF Read
  <2>2. PICK rest \in Requests : Asked(c, rest) /\ to_server[c] = <<Control("received")>> \o rest
    BY <2>1
  <2>3. to_server'[c] = rest
    BY <1>1, <2>2, MessageTypes, Ahead
  <2>4. caller'[c] = caller[c] /\ outgoing'[c] = outgoing[c] /\ to_client'[c] = to_client[c]
    BY <1>4 DEF client_vars
  <2>5. Asked(c, rest)' /\ Before(c, rest)' /\ Silent(c)'
    BY <1>2, <2>1, <2>2, <2>3, <2>4 DEF Asked, Before, Silent
  <2>6. Asking(c)'
    BY <2>2, <2>5 DEF Asking, Requests
  <2>7. QED
    BY <1>5, <2>1, <2>6 DEF Conversation
<1>9. QED
  BY <1>6, <1>7, <1>8, LocalStep

\* Only a client that gave a call up can have written another message instead.
LEMMA IgnoreTalk ==
    ASSUME TInv, NEW c \in Conns, IgnoreAnswer(c)
    PROVE  Talks
<1>1. /\ handler[c] = "acknowledging" /\ to_server[c] # <<>>
      /\ to_server' \in [Conns -> Seq(Messages)]
      /\ to_server'[c] = Tail(to_server[c])
      /\ \A d \in Conns \ {c} : to_server'[d] = to_server[d]
  BY TakesFacts DEF TInv, IgnoreAnswer
<1>2. handler'[c] = "idle" /\ \A d \in Conns \ {c} : handler'[d] = handler[d]
  BY GoesFacts DEF TInv, IgnoreAnswer
<1>3. UNCHANGED <<recipient, holding, to_client, client_vars, accepted, removed, crashed, client_history>>
  BY DEF IgnoreAnswer, server_history
<1>4. Local(c)
  BY <1>1, <1>2, <1>3 DEF Local
<1>5. LocalTypes
  BY <1>1, <1>3 DEF LocalTypes, TInv, TalkTypes
<1>6. c \in late
  <2> SUFFICES ASSUME c \notin late
               PROVE  FALSE
    OBVIOUS
  <2>1. \E rest \in Requests : to_server[c] = <<Control("received")>> \o rest
    BY <1>1, Standing DEF Read
  <2>2. PICK rest \in Requests : to_server[c] = <<Control("received")>> \o rest
    BY <2>1
  <2>3. Arrived(c) = Control("received")
    BY <2>2, MessageTypes, Ahead DEF Arrived
  <2>4. QED
    BY <2>3 DEF IgnoreAnswer, Control
<1>7. QED
  BY <1>4, <1>5, <1>6, LocalStep

\* Every step of a coroutine keeps to the conversation.
LEMMA CoroutineTalk ==
    ASSUME TInv, NEW c \in Conns, HandlerStep(c) \/ HandlerTimeout(c)
    PROVE  Talks
<1>1. CASE Register(c) \/ ReadSend(c) \/ Answer(c) \/ Announce(c) \/ Deliver(c) \/ Acknowledge(c) \/ IgnoreAnswer(c)
  BY <1>1, RegisterTalk, ReadSendTalk, AnswerTalk, AnnounceTalk, DeliverTalk, AcknowledgeTalk, IgnoreTalk
<1>2. CASE RefuseName(c)
  BY <1>2, EndsTalk DEF RefuseName, Has, server_history, TInv, TalkTypes
<1>3. CASE RecipientGone(c)
  BY <1>3, EndsTalk DEF RecipientGone, Has, TInv, TalkTypes
<1>4. CASE Garbled(c) \/ Disconnected(c) \/ HandlerTimeout(c)
  BY <1>4, EndsTalk DEF Garbled, Disconnected, HandlerTimeout, Has, Live, server_history, TInv, TalkTypes
<1>5. CASE SkipContainer(c)
  BY <1>5, FrameTalk DEF SkipContainer, server_history, TInv, TalkTypes
<1>6. CASE RefuseContainer(c)
  BY <1>6, FrameTalk DEF RefuseContainer, server_history, TInv, TalkTypes
<1>7. CASE Deposit(c)
  <2>1. /\ Takes(c, "container") /\ Arrived(c).file \in Containers
        /\ accepted' = accepted \cup {Arrived(c).file}
        /\ Reply(c, Control("sent")) /\ GoesTo(c, "idle")
        /\ UNCHANGED <<recipient, holding, client_vars, removed, crashed, client_history>>
    BY <1>7 DEF Deposit, IsContainer
  <2>2. accepted \subseteq accepted' /\ accepted' \subseteq Containers /\ Arrived(c).file \in accepted'
    BY <2>1 DEF TInv, TalkTypes
  <2>3. QED
    BY <2>1, <2>2, FrameTalk
<1>8. QED
  BY <1>1, <1>2, <1>3, <1>4, <1>5, <1>6, <1>7 DEF HandlerStep

-----------------------------------------------------------------------------
(* The steps of a client *)

\* What a step of a client leaves alone.
Outside(c) ==
    /\ UNCHANGED <<recipient, holding, accepted, removed, crashed>>
    /\ \A d \in Conns \ {c} :
         /\ handler'[d] = handler[d] /\ caller'[d] = caller[d] /\ outgoing'[d] = outgoing[d]
         /\ to_server'[d] = to_server[d] /\ to_client'[d] = to_client[d]
         /\ received'[d] = received[d] /\ confirmed'[d] = confirmed[d]

\* The types of what it may change.
OutsideTypes(c) ==
    /\ calls' \in [Conns -> Nat]
    /\ outgoing' \in [Conns -> Files \cup {None}]
    /\ attempted' \subseteq Files
    /\ to_server' \in [Conns -> Seq(Messages)]
    /\ to_client' \in [Conns -> Seq(Answers)]
    /\ confirmed' \in [Conns -> SUBSET Files]
    /\ received' \in [Conns -> SUBSET Containers]
    /\ late \subseteq late' /\ late' \subseteq Conns
    /\ caller'[c] \in {"framing", "sending"} => outgoing'[c] \in Files

\* A step of a client keeps the conversation if its own goes on.
LEMMA OutsideStep ==
    ASSUME TInv, NEW c \in Conns, Outside(c), OutsideTypes(c),
           c \in late' \/ (Conversation(c)' /\ Promises(c)')
    PROVE  Talks
<1>1. TalkTypes'
  BY DEF TInv, TalkTypes, Outside, OutsideTypes
<1>2. Private(c)
  BY DEF Private, Outside, OutsideTypes
<1>3. QED
  BY <1>1, <1>2, OthersTalk DEF Talks, TInv

\* A client that gave no call up keeps what was promised to it.
LEMMA Kept ==
    ASSUME TInv, NEW c \in Conns \ late
    PROVE  /\ Conversation(c) /\ removed[c] \subseteq received[c] /\ confirmed[c] \subseteq accepted
           /\ caller[c] = "off" => Unopened(c)
           /\ caller[c] = "framing" => Asking(c) \/ Transferring(c) \/ Gone(c)
           /\ caller[c] = "ready" => Asking(c) \/ Gone(c)
           /\ ~Silent(c) => Announced(c) \/ Delivered(c) \/ Replied(c) \/ Gone(c)
<1>1. Conversation(c) /\ removed[c] \subseteq received[c] /\ confirmed[c] \subseteq accepted
  BY DEF TInv, TalkInv, Promises
<1>2. caller[c] = "off" => Unopened(c)
  BY <1>1 DEF Conversation, Registering, Asking, Asked, Transferring, Announced, Delivered, Replied, Gone
<1>3. caller[c] = "framing" => Asking(c) \/ Transferring(c) \/ Gone(c)
  BY <1>1 DEF Conversation, Unopened, Registering, Announced, Delivered, Replied
<1>4. caller[c] = "ready" => Asking(c) \/ Gone(c)
  BY <1>1 DEF Conversation, Unopened, Registering, Transferring, Announced, Delivered, Replied
<1>5. ~Silent(c) => Announced(c) \/ Delivered(c) \/ Replied(c) \/ Gone(c)
  BY <1>1 DEF Conversation, Unopened, Registering, Asking, Transferring
<1>6. QED
  BY <1>1, <1>2, <1>3, <1>4, <1>5

\* A connection is opened.
LEMMA ConnectTalk ==
    ASSUME TInv, NEW c \in Conns, Connect(c)
    PROVE  Talks
<1>1. /\ caller[c] = "off" /\ handler[c] = "none"
      /\ handler'[c] = "registration" /\ \A d \in Conns \ {c} : handler'[d] = handler[d]
  BY GoesFacts DEF Connect, TInv, CallerInv
<1>2. caller'[c] = "connecting" /\ \A d \in Conns \ {c} : caller'[d] = caller[d]
  BY CallingFacts DEF Connect, TInv
<1>3. /\ to_server' \in [Conns -> Seq(Messages)]
      /\ to_server'[c] = Append(to_server[c], Control("register"))
      /\ \A d \in Conns \ {c} : to_server'[d] = to_server[d]
  BY <1>1, WritesFacts, MessageTypes DEF Connect, TInv
<1>4. UNCHANGED <<recipient, holding, accepted, removed, crashed, calls, outgoing, attempted, to_client, client_history>>
  BY DEF Connect, server_history
<1>5. Outside(c)
  BY <1>1, <1>2, <1>3, <1>4 DEF Outside, client_history
<1>6. OutsideTypes(c)
  BY <1>2, <1>3, <1>4 DEF OutsideTypes, TInv, TalkTypes, client_history
<1>7. ASSUME c \notin late
      PROVE  Conversation(c)' /\ Promises(c)'
  <2>1. Unopened(c) /\ removed[c] \subseteq received[c] /\ confirmed[c] \subseteq accepted
    BY <1>1, <1>7, Kept
  <2>2. to_server'[c] = <<Control("register")>> /\ to_client'[c] = <<>>
    BY <1>3, <1>4, <2>1, Pair DEF Unopened, Silent, Read
  <2>3. Registering(c)'
    BY <1>1, <1>2, <2>2 DEF Registering, Silent
  <2>4. QED
    BY <1>4, <2>1, <2>3 DEF Conversation, Promises, client_history
<1>8. QED
  BY <1>4, <1>5, <1>6, <1>7, OutsideStep DEF client_history

\* A call is made: the coroutine will read its first message after all others.
LEMMA CallTalk ==
    ASSUME TInv, NEW c \in Conns, NEW m \in Messages, NEW state,
           Call(c, m, state),
           UNCHANGED <<server_vars, to_client, server_history, client_history>>,
           attempted' \subseteq Files,
           outgoing' \in [Conns -> Files \cup {None}],
           \A d \in Conns \ {c} : outgoing'[d] = outgoing[d],
           \/ state = "framing" /\ outgoing'[c] \in Files /\ \E u \in Users : m = SendTo(u)
           \/ state = "receiving" /\ m = Control("receive")
           \/ state = "listing" /\ m = Control("list")
    PROVE  Talks
<1>1. /\ caller[c] = "ready" /\ calls' \in [Conns -> Nat]
      /\ caller'[c] = state /\ \A d \in Conns \ {c} : caller'[d] = caller[d]
  BY CallingFacts DEF Call, TInv, TalkTypes
<1>2. /\ to_server' \in [Conns -> Seq(Messages)]
      /\ to_server'[c] = IF handler[c] = "ended" THEN to_server[c] ELSE Append(to_server[c], m)
      /\ \A d \in Conns \ {c} : to_server'[d] = to_server[d]
  BY WritesFacts DEF Call, TInv
<1>3. UNCHANGED <<handler, recipient, holding, accepted, removed, crashed, to_client, confirmed, received, late>>
  BY DEF server_vars, server_history, client_history
<1>4. Outside(c)
  BY <1>1, <1>2, <1>3 DEF Outside
<1>5. OutsideTypes(c)
  BY <1>1, <1>2, <1>3 DEF OutsideTypes, TInv, TalkTypes
<1>6. ASSUME c \notin late
      PROVE  Conversation(c)' /\ Promises(c)'
  <2>1. /\ Asking(c) \/ Gone(c)
        /\ removed[c] \subseteq received[c] /\ confirmed[c] \subseteq accepted
    BY <1>1, <1>6, Kept
  <2>2. Promises(c)'
    BY <1>3, <2>1 DEF Promises
  <2>3. CASE Asking(c)
    <3>1. Silent(c) /\ Before(c, <<>>)
      BY <1>1, <2>3 DEF Asking, Asked
    <3>2. Append(<<>>, m) = <<m>> /\ Append(<<Control("received")>> \o <<>>, m) = <<Control("received")>> \o <<m>>
      BY MessageTypes, Ahead, Pair
    <3>3. Before(c, <<m>>)'
      BY <1>2, <1>3, <3>1, <3>2 DEF Before
    <3>4. <<m>> \in Requests /\ Asked(c, <<m>>)'
      BY <1>1 DEF Requests, Asked
    <3>5. Asking(c)'
      BY <1>3, <3>1, <3>3, <3>4 DEF Asking, Silent, Requests
    <3>6. QED
      BY <2>2, <3>5 DEF Conversation
  <2>4. CASE Gone(c)
    <3>1. Gone(c)'
      BY <1>1, <1>2, <1>3, <2>4 DEF Gone, Silent, Read
    <3>2. QED
      BY <2>2, <3>1 DEF Conversation
  <2>5. QED
    BY <2>1, <2>3, <2>4
<1>7. QED
  BY <1>3, <1>4, <1>5, <1>6, OutsideStep

\* The frame follows the send.
LEMMA WriteContainerTalk ==
    ASSUME TInv, NEW c \in Conns, WriteContainer(c)
    PROVE  Talks
<1>1. /\ caller[c] = "framing" /\ outgoing[c] \in Files
      /\ caller'[c] = "sending" /\ \A d \in Conns \ {c} : caller'[d] = caller[d]
  BY CallingFacts DEF WriteContainer, TInv, TalkTypes
<1>2. /\ to_server' \in [Conns -> Seq(Messages)]
      /\ to_server'[c] = IF handler[c] = "ended" THEN to_server[c]
                         ELSE Append(to_server[c], Frame(outgoing[c]))
      /\ \A d \in Conns \ {c} : to_server'[d] = to_server[d]
  BY <1>1, WritesFacts, MessageTypes DEF WriteContainer, TInv
<1>3. UNCHANGED <<handler, recipient, holding, accepted, removed, crashed, calls, outgoing, attempted, to_client,
                  confirmed, received, late>>
  BY DEF WriteContainer, server_vars, server_history, client_history
<1>4. Outside(c)
  BY <1>1, <1>2, <1>3 DEF Outside
<1>5. OutsideTypes(c)
  BY <1>1, <1>2, <1>3 DEF OutsideTypes, TInv, TalkTypes
<1>6. ASSUME c \notin late
      PROVE  Conversation(c)' /\ Promises(c)'
  <2>1. /\ Asking(c) \/ Transferring(c) \/ Gone(c)
        /\ removed[c] \subseteq received[c] /\ confirmed[c] \subseteq accepted
    BY <1>1, <1>6, Kept
  <2>2. Promises(c)'
    BY <1>3, <2>1 DEF Promises
  <2> DEFINE m == Frame(outgoing[c])
  <2>3. m \in Messages
    BY <1>1, MessageTypes
  <2>4. CASE Asking(c)
    <3>1. PICK u \in Users : Silent(c) /\ Before(c, <<SendTo(u)>>)
      BY <1>1, <2>4 DEF Asking, Asked
    <3>2. /\ Append(<<SendTo(u)>>, m) = <<SendTo(u), m>>
          /\ Append(<<Control("received")>> \o <<SendTo(u)>>, m) = <<Control("received")>> \o <<SendTo(u), m>>
      <4>1. SendTo(u) \in Messages /\ Control("received") \in Messages
        BY MessageTypes
      <4>2. <<SendTo(u)>> \in Seq(Messages)
        BY <4>1
      <4>3. Append(<<SendTo(u)>>, m) = <<SendTo(u), m>>
        BY Pair
      <4>4. Append(<<Control("received")>> \o <<SendTo(u)>>, m)
              = <<Control("received")>> \o Append(<<SendTo(u)>>, m)
        BY <2>3, <4>1, <4>2, Ahead
      <4>5. QED
        BY <4>3, <4>4
    <3>3. Before(c, <<SendTo(u), m>>)'
      BY <1>2, <1>3, <3>1, <3>2 DEF Before
    <3>4. <<SendTo(u), m>> \in Requests /\ Asked(c, <<SendTo(u), m>>)'
      BY <1>1, <1>3 DEF Requests, Asked
    <3>5. Asking(c)'
      BY <1>3, <3>1, <3>3, <3>4 DEF Asking, Silent, Requests
    <3>6. QED
      BY <2>2, <3>5 DEF Conversation
  <2>5. CASE Transferring(c)
    <3>1. to_server[c] = <<>> /\ Silent(c) /\ handler[c] \in {"container", "skipping"}
      BY <1>1, <2>5 DEF Transferring, Read
    <3>2. to_server'[c] = <<m>>
      BY <1>2, <3>1, Pair
    <3>3. Transferring(c)'
      BY <1>1, <1>3, <3>1, <3>2 DEF Transferring, Silent
    <3>4. QED
      BY <2>2, <3>3 DEF Conversation
  <2>6. CASE Gone(c)
    <3>1. Gone(c)'
      BY <1>1, <1>2, <1>3, <2>6 DEF Gone, Silent, Read
    <3>2. QED
      BY <2>2, <3>1 DEF Conversation
  <2>7. QED
    BY <2>1, <2>4, <2>5, <2>6
<1>7. QED
  BY <1>3, <1>4, <1>5, <1>6, OutsideStep

\* An answer is read: the request is done with, or its container is awaited.
LEMMA HeardTalk ==
    ASSUME TInv, NEW c \in Conns, NEW state, NEW next,
           Reads(c, state), Calling(c, next),
           UNCHANGED <<server_vars, calls, outgoing, attempted, to_server, server_history, received, late>>,
           confirmed' \in [Conns -> SUBSET Files],
           \A d \in Conns \ {c} : confirmed'[d] = confirmed[d],
           c \in late \/ confirmed'[c] \subseteq accepted,
           \/ state = "connecting" /\ next = IF Answered(c).type = "registered" THEN "ready" ELSE "closed"
           \/ state \in {"sending", "listing"} /\ next = "ready"
           \/ state = "receiving" /\ next = IF Answered(c).type = "file" THEN "reading" ELSE "ready"
    PROVE  Talks
<1>1. /\ caller[c] = state /\ to_client[c] # <<>> /\ to_client' \in [Conns -> Seq(Answers)]
      /\ to_client'[c] = Tail(to_client[c])
      /\ \A d \in Conns \ {c} : to_client'[d] = to_client[d]
  BY ReadsFacts DEF TInv
<1>2. caller'[c] = next /\ \A d \in Conns \ {c} : caller'[d] = caller[d]
  BY CallingFacts DEF TInv
<1>3. UNCHANGED <<handler, recipient, holding, accepted, removed, crashed, calls, outgoing, attempted, to_server,
                  received, late>>
  BY DEF server_vars, server_history
<1>4. Outside(c)
  BY <1>1, <1>2, <1>3 DEF Outside
<1>5. OutsideTypes(c)
  BY <1>1, <1>2, <1>3 DEF OutsideTypes, TInv, TalkTypes
<1>6. ASSUME c \notin late
      PROVE  Conversation(c)' /\ Promises(c)'
  <2>1. /\ Announced(c) \/ Delivered(c) \/ Replied(c) \/ Gone(c)
        /\ removed[c] \subseteq received[c]
    BY <1>1, <1>6, Kept DEF Silent
  <2>2. Promises(c)'
    BY <1>3, <1>6, <2>1 DEF Promises
  <2> SUFFICES Conversation(c)'
    BY <2>2
  <2>3. \A t : Answered(c) = Control(t) => Answered(c).type = t
    BY DEF Control
  <2>4. ASSUME to_client[c] = <<Control("file")>> \/ \E f : to_client[c] = <<Control("file"), Frame(f)>>,
               state = "receiving"
        PROVE  next = "reading"
    BY <2>3, <2>4 DEF Answered
  <2>5. CASE Announced(c)
    <3>1. to_client[c] = <<Control("file")>> /\ state = "receiving"
      BY <1>1, <2>5 DEF Announced, Silent
    <3>2. next = "reading" /\ to_client'[c] = <<>>
      BY <1>1, <2>4, <3>1
    <3>3. Announced(c)'
      BY <1>2, <1>3, <2>5, <3>2 DEF Announced, Silent, Read
    <3>4. QED
      BY <3>3 DEF Conversation
  <2>6. CASE Delivered(c)
    <3>1. to_client[c] = <<Control("file"), Frame(holding[c])>> /\ state = "receiving"
      BY <1>1, <2>6 DEF Delivered, Silent
    <3>2. next = "reading" /\ to_client'[c] = <<Frame(holding[c])>>
      BY <1>1, <2>4, <3>1, Pair
    <3>3. Delivered(c)'
      BY <1>2, <1>3, <2>6, <3>2 DEF Delivered, Read
    <3>4. QED
      BY <3>3 DEF Conversation
  <2>7. CASE Replied(c)
    <3>1. to_client'[c] = <<>> /\ handler'[c] \in {"idle", "ended"} /\ to_server'[c] = <<>>
      <4>1. \E m : to_client[c] = <<m>>
        BY <2>7 DEF Replied
      <4>2. to_client'[c] = <<>>
        BY <1>1, <4>1, Pair
      <4>3. QED
        BY <1>3, <2>7, <4>2 DEF Replied, Read
    <3>2. next \in {"ready", "closed"}
      <4>1. \E t \in {"registered", "error", "incoming", "sent"} : Answered(c) = Control(t)
        BY <2>7 DEF Replied, Answered
      <4>2. Answered(c).type # "file"
        BY <2>3, <4>1
      <4>3. QED
        BY <4>2
    <3>3. CASE handler'[c] = "idle"
      <4>1. Asking(c)'
        BY <1>2, <3>1, <3>2, <3>3 DEF Asking, Asked, Before, Requests, Silent
      <4>2. QED
        BY <4>1 DEF Conversation
    <3>4. CASE handler'[c] = "ended"
      <4>1. Gone(c)'
        BY <1>2, <3>1, <3>2, <3>4 DEF Gone, Silent, Read
      <4>2. QED
        BY <4>1 DEF Conversation
    <3>5. QED
      BY <3>1, <3>3, <3>4
  <2>8. CASE Gone(c)
    <3>1. handler'[c] = "ended" /\ to_server'[c] = <<>> /\ state = "receiving"
      BY <1>1, <1>3, <2>8 DEF Gone, Silent, Read
    <3>2. \/ to_client[c] = <<Control("file")>> /\ to_client'[c] = <<>>
          \/ \E f \in Containers : to_client[c] = <<Control("file"), Frame(f)>> /\ to_client'[c] = <<Frame(f)>>
      <4>1. CASE to_client[c] = <<Control("file")>>
        BY <1>1, <4>1, Pair
      <4>2. ASSUME NEW f \in Containers, to_client[c] = <<Control("file"), Frame(f)>>
            PROVE  to_client'[c] = <<Frame(f)>>
        BY <1>1, <4>2, Pair
      <4>3. QED
        BY <1>1, <2>8, <3>1, <4>1, <4>2 DEF Gone, Silent
    <3>3. next = "reading"
      BY <2>4, <3>1, <3>2
    <3>4. Gone(c)'
      BY <1>2, <3>1, <3>2, <3>3 DEF Gone, Silent, Read
    <3>5. QED
      BY <3>4 DEF Conversation
  <2>9. QED
    BY <2>1, <2>5, <2>6, <2>7, <2>8
<1>7. QED
  BY <1>3, <1>4, <1>5, <1>6, OutsideStep

\* send() returns: the container is in the inbox of its recipient.
LEMMA ReadSentTalk ==
    ASSUME TInv, NEW c \in Conns, ReadSent(c)
    PROVE  Talks
<1>1. caller[c] = "sending" /\ to_client[c] # <<>>
  BY ReadsFacts DEF TInv, ReadSent
<1>2. outgoing[c] \in Files /\ confirmed \in [Conns -> SUBSET Files]
  BY <1>1 DEF TInv, TalkTypes
<1>3. /\ confirmed' \in [Conns -> SUBSET Files]
      /\ \A d \in Conns \ {c} : confirmed'[d] = confirmed[d]
      /\ confirmed'[c] = IF Answered(c).type = "sent" THEN confirmed[c] \cup {outgoing[c]} ELSE confirmed[c]
  BY <1>2 DEF ReadSent
<1>4. ASSUME c \notin late, Answered(c).type = "sent"
      PROVE  outgoing[c] \in accepted
  <2>1. Announced(c) \/ Delivered(c) \/ Replied(c) \/ Gone(c)
    BY <1>1, <1>4, Kept DEF Silent
  <2>2. Replied(c)
    BY <1>1, <2>1 DEF Announced, Delivered, Gone, Silent
  <2>3. CASE to_client[c] = <<Control("error")>>
    BY <1>4, <2>3 DEF Answered, Control
  <2>4. QED
    BY <1>1, <2>2, <2>3 DEF Replied
<1>5. c \in late \/ confirmed'[c] \subseteq accepted
  BY <1>3, <1>4, Kept
<1>6. QED
  BY <1>3, <1>5, HeardTalk DEF ReadSent

\* The other answers.
LEMMA ReadTalk ==
    ASSUME TInv, NEW c \in Conns, ReadRegistration(c) \/ ReadFile(c) \/ ReadIncoming(c)
    PROVE  Talks
<1>1. UNCHANGED <<server_vars, calls, outgoing, attempted, to_server, server_history,
                  confirmed, received, late>>
  BY DEF ReadRegistration, ReadFile, ReadIncoming, client_history
<1>2. /\ confirmed' \in [Conns -> SUBSET Files]
      /\ \A d \in Conns \ {c} : confirmed'[d] = confirmed[d]
      /\ c \in late \/ confirmed'[c] \subseteq accepted
  BY <1>1, Kept DEF TInv, TalkTypes
<1>3. CASE ReadRegistration(c)
  BY <1>1, <1>2, <1>3, HeardTalk DEF ReadRegistration
<1>4. CASE ReadFile(c)
  BY <1>1, <1>2, <1>4, HeardTalk DEF ReadFile
<1>5. CASE ReadIncoming(c)
  BY <1>1, <1>2, <1>5, HeardTalk DEF ReadIncoming
<1>6. QED
  BY <1>3, <1>4, <1>5

\* The client has the container its coroutine holds, and acknowledges it.
LEMMA ReadContainerTalk ==
    ASSUME TInv, NEW c \in Conns, ReadContainer(c)
    PROVE  Talks
<1>1. /\ caller[c] = "reading" /\ to_client[c] # <<>> /\ Answered(c) \in Answers
      /\ to_client' \in [Conns -> Seq(Answers)]
      /\ to_client'[c] = Tail(to_client[c])
      /\ \A d \in Conns \ {c} : to_client'[d] = to_client[d]
  BY ReadsFacts DEF TInv, ReadContainer
<1>2. caller'[c] = "ready" /\ \A d \in Conns \ {c} : caller'[d] = caller[d]
  BY CallingFacts DEF TInv, ReadContainer
<1>3. /\ to_server' \in [Conns -> Seq(Messages)]
      /\ to_server'[c] = IF handler[c] = "ended" THEN to_server[c]
                         ELSE Append(to_server[c], Control("received"))
      /\ \A d \in Conns \ {c} : to_server'[d] = to_server[d]
  BY WritesFacts, MessageTypes DEF ReadContainer, TInv
<1>4. UNCHANGED <<handler, recipient, holding, accepted, removed, crashed, calls, outgoing, attempted,
                  confirmed, late>>
  BY DEF ReadContainer, server_vars, server_history
<1>5. Answered(c).type = "frame" => Answered(c).file \in Containers
  BY <1>1 DEF Answers, Control, Frame
<1>6. /\ received' \in [Conns -> SUBSET Containers]
      /\ received[c] \subseteq received'[c]
      /\ Answered(c).type = "frame" => Answered(c).file \in received'[c]
      /\ \A d \in Conns \ {c} : received'[d] = received[d]
  BY <1>5 DEF ReadContainer, TInv, TalkTypes
<1>7. Outside(c)
  BY <1>1, <1>2, <1>3, <1>4, <1>6 DEF Outside
<1>8. OutsideTypes(c)
  BY <1>1, <1>2, <1>3, <1>4, <1>6 DEF OutsideTypes, TInv, TalkTypes
<1>9. ASSUME c \notin late
      PROVE  Conversation(c)' /\ Promises(c)'
  <2>1. /\ Announced(c) \/ Delivered(c) \/ Replied(c) \/ Gone(c)
        /\ removed[c] \subseteq received[c] /\ confirmed[c] \subseteq accepted
    BY <1>1, <1>9, Kept DEF Silent
  <2>2. Promises(c)'
    BY <1>4, <1>6, <2>1 DEF Promises
  <2>3. CASE Delivered(c)
    <3>1. to_client[c] = <<Frame(holding[c])>> /\ handler[c] = "acknowledging" /\ to_server[c] = <<>>
      BY <1>1, <2>3 DEF Delivered, Silent, Read
    <3>2. holding[c] \in received'[c]
      <4>1. Answered(c) = Frame(holding[c])
        BY <3>1 DEF Answered
      <4>2. QED
        BY <1>6, <4>1 DEF Frame
    <3>3. to_server'[c] = <<Control("received")>> \o <<>> /\ to_client'[c] = <<>>
      BY <1>1, <1>3, <3>1
    <3>4. Asking(c)'
      BY <1>2, <1>4, <3>1, <3>2, <3>3 DEF Asking, Asked, Before, Requests, Silent
    <3>5. QED
      BY <2>2, <3>4 DEF Conversation
  <2>4. CASE Gone(c)
    <3>1. handler[c] = "ended" /\ to_server[c] = <<>> /\ \E f \in Containers : to_client[c] = <<Frame(f)>>
      BY <1>1, <2>4 DEF Gone, Silent, Read
    <3>2. to_server'[c] = <<>> /\ to_client'[c] = <<>>
      BY <1>1, <1>3, <3>1
    <3>3. Gone(c)'
      BY <1>2, <1>4, <3>1, <3>2 DEF Gone, Silent, Read
    <3>4. QED
      BY <2>2, <3>3 DEF Conversation
  <2>5. QED
    BY <1>1, <2>1, <2>3, <2>4 DEF Announced, Replied, Silent
<1>10. QED
  BY <1>4, <1>7, <1>8, <1>9, OutsideStep

\* The client closes the connection: what it wrote is still read, what was
\* answered is not.
LEMMA ClosesTalk ==
    ASSUME TInv, NEW c \in Conns, caller[c] # "off", Closes(c)
    PROVE  Talks
<1>1. caller'[c] = "closed" /\ \A d \in Conns \ {c} : caller'[d] = caller[d]
  BY CallingFacts DEF TInv, Closes
<1>2. /\ UNCHANGED <<handler, recipient, holding, accepted, removed, crashed, calls, attempted, to_server,
                     confirmed, received, late>>
      /\ outgoing' = [outgoing EXCEPT ![c] = None] /\ to_client' = [to_client EXCEPT ![c] = <<>>]
  BY DEF Closes, server_vars, server_history, client_history
<1>3. Outside(c)
  BY <1>1, <1>2 DEF Outside, TInv, TalkTypes
<1>4. OutsideTypes(c)
  <2>1. <<>> \in Seq(Answers)
    OBVIOUS
  <2>2. QED
    BY <1>1, <1>2, <2>1 DEF OutsideTypes, TInv, TalkTypes
<1>5. ASSUME c \notin late
      PROVE  Conversation(c)' /\ Promises(c)'
  <2>1. /\ Conversation(c) /\ to_client'[c] = <<>>
        /\ removed[c] \subseteq received[c] /\ confirmed[c] \subseteq accepted
    BY <1>2, <1>5, Kept DEF TInv, TalkTypes
  <2>2. Promises(c)'
    BY <1>2, <2>1 DEF Promises
  <2>3. CASE Registering(c)
    <3>1. Registering(c)'
      BY <1>1, <1>2, <2>1, <2>3 DEF Registering, Silent
    <3>2. QED
      BY <2>2, <3>1 DEF Conversation
  <2>4. CASE Asking(c) \/ (Replied(c) /\ handler[c] = "idle")
    <3>1. \E rest \in Requests : Before(c, rest)
      BY <2>4 DEF Asking, Replied, Before, Read, Requests
    <3>2. PICK rest \in Requests : Before(c, rest)
      BY <3>1
    <3>3. Before(c, rest)' /\ Asked(c, rest)'
      BY <1>1, <1>2, <3>2 DEF Before, Asked, Requests
    <3>4. Asking(c)'
      BY <2>1, <3>2, <3>3 DEF Asking, Silent, Requests
    <3>5. QED
      BY <2>2, <3>4 DEF Conversation
  <2>5. CASE Transferring(c)
    <3>1. to_server[c] = <<>> \/ \E f \in Files : to_server[c] = <<Frame(f)>>
      BY <2>5 DEF Transferring, Read, TInv, TalkTypes
    <3>2. Transferring(c)'
      BY <1>1, <1>2, <2>1, <2>5, <3>1 DEF Transferring, Silent, Read
    <3>3. QED
      BY <2>2, <3>2 DEF Conversation
  <2>6. CASE Announced(c)
    <3>1. Announced(c)'
      BY <1>1, <1>2, <2>1, <2>6 DEF Announced, Silent, Read
    <3>2. QED
      BY <2>2, <3>1 DEF Conversation
  <2>7. CASE Delivered(c)
    <3>1. Delivered(c)'
      BY <1>1, <1>2, <2>1, <2>7 DEF Delivered, Silent, Read
    <3>2. QED
      BY <2>2, <3>1 DEF Conversation
  <2>8. CASE Gone(c) \/ (Replied(c) /\ handler[c] = "ended")
    <3>1. Gone(c)'
      BY <1>1, <1>2, <2>1, <2>8 DEF Gone, Replied, Silent, Read
    <3>2. QED
      BY <2>2, <3>1 DEF Conversation
  <2>9. ~Unopened(c) /\ (Replied(c) => handler[c] \in {"idle", "ended"})
    BY DEF Unopened, Replied
  <2>10. \/ Registering(c) \/ Asking(c) \/ Transferring(c) \/ Announced(c) \/ Delivered(c) \/ Gone(c)
         \/ Replied(c) /\ handler[c] \in {"idle", "ended"}
    BY <2>1, <2>9 DEF Conversation
  <2>11. QED
    BY <2>3, <2>4, <2>5, <2>6, <2>7, <2>8, <2>10
<1>6. QED
  BY <1>2, <1>3, <1>4, <1>5, OutsideStep

\* A call that was given up leaves its answer in the stream: nothing more is
\* promised to this client.
LEMMA CallTimeoutTalk ==
    ASSUME TInv, NEW c \in Conns, CallTimeout(c)
    PROVE  Talks
<1>1. caller'[c] \in {"closed", "ready"} /\ \A d \in Conns \ {c} : caller'[d] = caller[d]
  <2>1. Calling(c, "closed") \/ Calling(c, "ready")
    BY DEF CallTimeout
  <2>2. QED
    BY <2>1, CallingFacts DEF TInv
<1>2. /\ UNCHANGED <<handler, recipient, holding, accepted, removed, crashed, calls, outgoing, attempted, to_server,
                     confirmed, received>>
      /\ late' = late \cup {c}
      /\ UNCHANGED to_client \/ to_client' = [to_client EXCEPT ![c] = <<>>]
  BY DEF CallTimeout, server_vars, server_history
<1>3. Outside(c)
  BY <1>1, <1>2 DEF Outside, TInv, TalkTypes
<1>4. OutsideTypes(c)
  <2>1. <<>> \in Seq(Answers)
    OBVIOUS
  <2>2. QED
    BY <1>1, <1>2, <2>1 DEF OutsideTypes, TInv, TalkTypes
<1>5. c \in late'
  BY <1>2
<1>6. QED
  BY <1>3, <1>4, <1>5, OutsideStep

\* Every step of a client keeps to the conversation.
LEMMA ClientTalk ==
    ASSUME TInv, NEW c \in Conns,
           ReadStep(c) \/ CallStep(c) \/ Close(c) \/ CallTimeout(c)
    PROVE  Talks
<1>1. CASE ReadRegistration(c) \/ WriteContainer(c) \/ ReadSent(c) \/ ReadFile(c) \/ ReadContainer(c) \/ ReadIncoming(c)
  BY <1>1, ReadTalk, WriteContainerTalk, ReadSentTalk, ReadContainerTalk
<1>2. CASE EndOfStream(c) \/ Close(c)
  BY <1>2, ClosesTalk DEF EndOfStream, Close, Waiting
<1>3. CASE CallTimeout(c)
  BY <1>3, CallTimeoutTalk
<1>4. CASE Connect(c)
  BY <1>4, ConnectTalk
<1>5. CASE Receive(c)
  BY <1>5, CallTalk, MessageTypes DEF Receive, TInv, TalkTypes
<1>6. CASE List(c)
  BY <1>6, CallTalk, MessageTypes DEF List, TInv, TalkTypes
<1>7. ASSUME NEW u \in Users, NEW f \in Files, Send(c, u, f)
      PROVE  Talks
  <2>1. SendTo(u) \in Messages
    BY MessageTypes
  <2>2. /\ Call(c, SendTo(u), "framing")
        /\ UNCHANGED <<server_vars, to_client, server_history, client_history>>
        /\ outgoing' = [outgoing EXCEPT ![c] = f] /\ attempted' = attempted \cup {f}
    BY <1>7 DEF Send
  <2>3. /\ attempted' \subseteq Files /\ outgoing' \in [Conns -> Files \cup {None}]
        /\ outgoing'[c] \in Files /\ \A d \in Conns \ {c} : outgoing'[d] = outgoing[d]
    BY <2>2 DEF TInv, TalkTypes
  <2>4. QED
    BY <2>1, <2>2, <2>3, CallTalk
<1>8. QED
  BY <1>1, <1>2, <1>3, <1>4, <1>5, <1>6, <1>7 DEF ReadStep, CallStep

\* Every step keeps to the conversation.
LEMMA TalkStep == TInv /\ [Next]_vars => TInv'
<1> SUFFICES ASSUME TInv, [Next]_vars
             PROVE  TInv'
  OBVIOUS
<1>1. IInv' /\ CallerInv'
  BY AnyStep, CallerStep DEF TInv, Good
<1>2. CASE UNCHANGED vars \/ Quiet
  <2>1. UNCHANGED <<handler, recipient, holding, caller, calls, outgoing, attempted, to_server, to_client,
                    accepted, removed, crashed, confirmed, received, late>>
    BY <1>2 DEF Quiet, vars, server_vars, client_vars, stream_vars, server_history, client_history
  <2>2. TalkTypes'
    BY <2>1 DEF TInv, TalkTypes
  <2>3. TalkInv'
    BY <2>1 DEF TInv, TalkInv, Conversation, Promises, Unopened, Registering, Asking, Asked, Before,
                Transferring, Announced, Delivered, Replied, Gone, Silent, Read
  <2>4. QED
    BY <1>1, <2>2, <2>3 DEF TInv
<1>3. ASSUME NEW c \in Conns,
             HandlerStep(c) \/ HandlerTimeout(c)
                \/ ReadStep(c) \/ CallStep(c) \/ Close(c) \/ CallTimeout(c)
      PROVE  TInv'
  BY <1>1, <1>3, CoroutineTalk, ClientTalk DEF Talks, TInv
<1>4. QED
  BY <1>2, <1>3 DEF Next

\* Nothing has been said at first.
LEMMA TalkInit == Init => TInv
<1> SUFFICES ASSUME Init
             PROVE  TInv
  OBVIOUS
<1>1. <<>> \in Seq(Messages) /\ <<>> \in Seq(Answers)
  OBVIOUS
<1>2. TalkTypes
  BY <1>1 DEF Init, TalkTypes
<1>3. TalkInv
  <2> SUFFICES ASSUME NEW c \in Conns
               PROVE  Unopened(c) /\ Promises(c)
    BY DEF TalkInv, Conversation
  <2>1. QED
    BY DEF Init, Unopened, Promises, Silent, Read
<1>4. QED
  BY <1>2, <1>3, InvInit DEF TInv

\* The conversation is kept in every reachable state.
LEMMA TalkHolds == Spec => []TInv
BY TalkInit, TalkStep, PTL DEF Spec

-----------------------------------------------------------------------------
(* Theorems *)

\* Every name in the table belongs to one live coroutine, for any number of
\* connections that compete for it, come and go.
THEOREM OwnerTheorem == Spec => []OneHandlerPerInbox
<1>1. IInv => OneHandlerPerInbox
  BY DEF IInv
<1>2. QED
  BY <1>1, InductiveInvariant, PTL

\* An inbox that keeps its owner loses its oldest container only, and only after
\* it was sent, for any number of senders and any limits.
THEOREM OrderTheorem == Spec => LeavesOnlyWhenSent
<1>1. IInv /\ CallerInv /\ [Next]_vars => [GrowsOrLosesSent]_<<inbox, registered>>
  BY AnyStep DEF Good
<1>2. QED
  BY <1>1, InductiveInvariant, PTL DEF Spec, LeavesOnlyWhenSent

\* No inbox outgrows its limits, for any number of senders that found the
\* recipient before their containers arrived, any sizes and any limits.
THEOREM CapacityTheorem == Spec => []CapacityKept
<1>1. (IInv /\ CallerInv) /\ CapacityKept /\ [Next]_vars => CapacityKept'
  BY CapacityStep
<1>2. QED
  BY <1>1, CapacityInit, InductiveInvariant, PTL DEF Spec

\* The streams carry messages of the protocol only, no server sends a frame that
\* is not a container, and every history stays within what was sent.
THEOREM TypesHold == Spec => []TypeOK
<1>1. TInv => TypeOK
  <2> SUFFICES ASSUME TInv
               PROVE  TypeOK
    OBVIOUS
  <2>1. Answers \subseteq Messages
    BY FilesAssumption DEF Answers, Messages
  <2>2. \A s \in Seq(Answers) : s \in Seq(Messages)
    BY <2>1
  <2>3. to_client \in [Conns -> Seq(Messages)]
    BY <2>2 DEF TInv, TalkTypes
  <2>4. QED
    BY <2>3 DEF TInv, IInv, ServerTypes, CallerInv, TalkTypes, TypeOK
<1>2. QED
  BY <1>1, TalkHolds, PTL

\* A container leaves its inbox only once the recipient's receive() has returned
\* it, for any number of clients, calls and lost connections, as long as this
\* client never gave a call up.
THEOREM AcknowledgedTheorem == Spec => []AcknowledgedMeansReceived
<1>1. TInv => AcknowledgedMeansReceived
  BY DEF TInv, TalkInv, Promises, AcknowledgedMeansReceived
<1>2. QED
  BY <1>1, TalkHolds, PTL

\* send() returns only for a container that the relay put into an inbox, as long
\* as this client never gave a call up.
THEOREM SentTheorem == Spec => []SentMeansAccepted
<1>1. TInv => SentMeansAccepted
  BY DEF TInv, TalkInv, Promises, SentMeansAccepted
<1>2. QED
  BY <1>1, TalkHolds, PTL

=============================================================================
