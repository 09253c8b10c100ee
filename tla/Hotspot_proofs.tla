--------------------------- MODULE Hotspot_proofs ---------------------------
(***************************************************************************)
(* Proofs about Hotspot for every set of devices and of worker threads,    *)
(* every combination of failures and any number of inputs: what a request  *)
(* finds and leaves in the kernel and in the stored list, and what the     *)
(* poller writes into the journal.                                         *)
(***************************************************************************)
EXTENDS Hotspot, SequenceTheorems, TLAPS

-----------------------------------------------------------------------------
(* The inductive invariant of the block list *)

ActiveRequest ==
  [at : {"apply", "store", "kick", "answer"}, op : {"block", "unblock"}, mac : Macs,
   seen : SUBSET Macs, alone : BOOLEAN]

FirewallTypes ==
  /\ table \subseteq Macs /\ stored \subseteq Macs
  /\ {firewallError, unsettled, up} \subseteq BOOLEAN
  /\ request \in [Handlers -> ActiveRequest \cup {NoRequest}]

Alone(h) == request[h].at # "none" /\ request[h].alone

\* A request that is alone has no company; without one that has company the
\* service is settled or waits for somebody to settle it.
CompanyInv ==
  /\ \A g, h \in Handlers : Alone(g) /\ request[h].at # "none" => g = h
  /\ ~unsettled => \A h \in Handlers : request[h].at # "none" => request[h].alone
  /\ ~up => \A h \in Handlers : request[h].at = "none"

\* Nobody else changes what a lonely request read and wrote.
LonelyInv ==
  \A h \in Handlers : Alone(h) =>
    /\ request[h].at \in {"apply", "store"} => request[h].seen = stored
    /\ request[h].at = "store" => table = Wanted(request[h])
    /\ request[h].at \in {"kick", "answer"} => table = stored

\* Apart from the moment between the two writes of a request, the table covers
\* the list unless the panel says otherwise.
CoverInv ==
  up /\ ~firewallError /\ ~unsettled /\ (\A h \in Handlers : request[h].at # "store")
    => stored \subseteq table

IInv == FirewallTypes /\ CompanyInv /\ LonelyInv /\ CoverInv

-----------------------------------------------------------------------------
\* Requests of the initial state and of a service that is down.
LEMMA NoRequestIsNone == NoRequest.at = "none" /\ NoRequest \notin ActiveRequest
BY DEF NoRequest, ActiveRequest

\* At first there is no request, and the table is empty like the list.
LEMMA InitIInv == Init => IInv
<1> SUFFICES ASSUME Init PROVE IInv
  OBVIOUS
<1>1. \A h \in Handlers : request[h].at = "none"
  BY NoRequestIsNone DEF Init
<1>2. FirewallTypes
  BY DEF Init, FirewallTypes
<1>3. QED
  BY <1>1, <1>2 DEF Init, IInv, CompanyInv, LonelyInv, CoverInv, Alone

\* Steps of stations and polls.
LEMMA JournalStep ==
  ASSUME IInv, UNCHANGED <<firewall, up>>
  PROVE  IInv'
BY DEF IInv, FirewallTypes, CompanyInv, LonelyInv, CoverInv, Alone, Wanted, firewall

\* A request that begins while others run is not alone, and neither are they.
LEMMA BeginStep ==
  ASSUME IInv, NEW h \in Handlers, NEW op \in {"block", "unblock"}, NEW mac \in Macs, Begin(h, op, mac)
  PROVE  IInv'
<1> DEFINE new == [at |-> "apply", op |-> op, mac |-> mac, seen |-> stored, alone |-> Active = {}]
<1>1. request[h].at = "none" /\ up /\ UNCHANGED <<table, stored, firewallError, up>>
  BY NoRequestIsNone DEF Begin
<1>2. /\ request' = [g \in Handlers |->
            IF g = h THEN new
            ELSE IF g \in Active THEN [request[g] EXCEPT !.alone = FALSE] ELSE request[g]]
      /\ unsettled' = (unsettled \/ Active # {})
  BY DEF Begin
<1>3. new \in ActiveRequest
  BY DEF IInv, FirewallTypes, ActiveRequest
<1>4. \A g \in Handlers \ {h} : g \in Active =>
        /\ request'[g] \in ActiveRequest
        /\ request'[g].at = request[g].at /\ ~request'[g].alone
        /\ request'[g].at # "none"
  <2> SUFFICES ASSUME NEW g \in Handlers \ {h}, g \in Active
               PROVE  /\ request'[g] \in ActiveRequest
                      /\ request'[g].at = request[g].at /\ ~request'[g].alone
                      /\ request'[g].at # "none"
    OBVIOUS
  <2>1. request[g] \in ActiveRequest /\ request[g].at # "none"
    BY NoRequestIsNone DEF IInv, FirewallTypes, Active
  <2>2. request'[g] = [request[g] EXCEPT !.alone = FALSE]
    BY <1>2
  <2>3. QED
    BY <2>1, <2>2 DEF ActiveRequest
<1>5. \A g \in Handlers \ {h} : g \notin Active => request'[g] = request[g] /\ request'[g].at = "none"
  BY <1>2 DEF Active
<1>6. request'[h] = new
  BY <1>2
<1>7. FirewallTypes'
  <2>1. \A g \in Handlers : request'[g] \in ActiveRequest \cup {NoRequest}
    BY <1>3, <1>4, <1>5, <1>6 DEF IInv, FirewallTypes
  <2>2. QED
    BY <1>1, <1>2, <2>1 DEF IInv, FirewallTypes
<1>8. CompanyInv'
  BY <1>1, <1>2, <1>4, <1>5, <1>6 DEF IInv, CompanyInv, Alone, Active
<1>9. LonelyInv'
  BY <1>1, <1>4, <1>5, <1>6 DEF LonelyInv, Alone
<1>10. CoverInv'
  <2> SUFFICES ASSUME up', ~firewallError', ~unsettled' PROVE stored' \subseteq table'
    BY DEF CoverInv
  <2>1. ~unsettled /\ \A g \in Handlers : request[g].at = "none"
    BY <1>2 DEF Active, IInv, FirewallTypes
  <2>2. QED
    BY <1>1, <2>1 DEF IInv, CoverInv
<1>11. QED
  BY <1>7, <1>8, <1>9, <1>10 DEF IInv

\* The steps of one request: it moves on, or is over, and the others stay.
LEMMA OthersStay ==
  ASSUME IInv, NEW h \in Handlers, NEW r, Step(h, r)
  PROVE  /\ request'[h] = r
         /\ \A g \in Handlers \ {h} : request'[g] = request[g]
         /\ r \in ActiveRequest \cup {NoRequest} => request' \in [Handlers -> ActiveRequest \cup {NoRequest}]
BY DEF IInv, FirewallTypes, Step

\* A request that moves on stays the same request, and the others stay as they are.
LEMMA MovedRequest ==
  ASSUME IInv, NEW h \in Handlers, NEW place \in {"apply", "store", "kick", "answer"},
         request[h].at # "none", Goto(h, place)
  PROVE  /\ request'[h] \in ActiveRequest
         /\ request'[h].at = place
         /\ request'[h].op = request[h].op /\ request'[h].mac = request[h].mac
         /\ request'[h].seen = request[h].seen /\ request'[h].alone = request[h].alone
         /\ \A g \in Handlers \ {h} : request'[g] = request[g]
         /\ request' \in [Handlers -> ActiveRequest \cup {NoRequest}]
<1>1. request[h] \in ActiveRequest
  BY NoRequestIsNone DEF IInv, FirewallTypes
<1>2. request' = [request EXCEPT ![h] = [request[h] EXCEPT !.at = place]]
  BY DEF Goto, Step
<1>3. [request[h] EXCEPT !.at = place] \in ActiveRequest
  BY <1>1 DEF ActiveRequest
<1>4. request'[h] = [request[h] EXCEPT !.at = place]
  BY <1>2 DEF IInv, FirewallTypes
<1>5. QED
  BY <1>1, <1>2, <1>3, <1>4 DEF IInv, FirewallTypes, ActiveRequest

\* The table is written: a lonely request has the list that it will store.
LEMMA ApplyStep == ASSUME IInv, NEW h \in Handlers, Apply(h) PROVE IInv'
<1>1. /\ request[h].at = "apply" /\ table' = Wanted(request[h]) /\ Goto(h, "store")
      /\ UNCHANGED <<stored, firewallError, unsettled, up>>
  BY DEF Apply
<1>2. /\ request'[h] \in ActiveRequest /\ request'[h].at = "store"
      /\ request'[h].op = request[h].op /\ request'[h].mac = request[h].mac
      /\ request'[h].seen = request[h].seen /\ request'[h].alone = request[h].alone
      /\ \A g \in Handlers \ {h} : request'[g] = request[g]
      /\ request' \in [Handlers -> ActiveRequest \cup {NoRequest}]
  BY <1>1, MovedRequest
<1>3. Wanted(request[h]) \subseteq Macs
  BY <1>2 DEF Wanted, ActiveRequest
<1>4. FirewallTypes'
  BY <1>1, <1>2, <1>3 DEF IInv, FirewallTypes
<1>5. CompanyInv'
  BY <1>1, <1>2 DEF IInv, CompanyInv, Alone
<1>6. Wanted(request[h])' = Wanted(request[h])
  BY <1>2 DEF Wanted
<1>7. ASSUME NEW g \in Handlers \ {h}, Alone(g)'
      PROVE  FALSE
  <2>1. Alone(g) /\ request[h].at # "none" /\ g # h
    BY <1>1, <1>2, <1>7 DEF Alone
  <2>2. QED
    BY <2>1 DEF IInv, CompanyInv
<1>8. ASSUME Alone(h)'
      PROVE  request'[h].seen = stored' /\ table' = Wanted(request[h])'
  <2>1. Alone(h) /\ request[h].seen = stored
    BY <1>1, <1>2, <1>8 DEF Alone, IInv, LonelyInv
  <2>2. QED
    BY <1>1, <1>2, <1>6, <2>1
<1>9. LonelyInv'
  BY <1>2, <1>7, <1>8 DEF LonelyInv
<1>10. CoverInv'
  BY <1>1, <1>2 DEF IInv, CoverInv
<1>11. QED
  BY <1>4, <1>5, <1>9, <1>10 DEF IInv

\* A request that ends without having written its row.
LEMMA EndStep ==
  ASSUME IInv, NEW h \in Handlers, request[h].at # "none", Step(h, NoRequest),
         table' \subseteq Macs, firewallError' \in BOOLEAN, unsettled' \in BOOLEAN,
         UNCHANGED <<stored, up>>,
         unsettled' \/ UNCHANGED <<table, firewallError, unsettled>>,
         ~unsettled' => request[h].at # "store"
  PROVE  IInv'
<1>1. /\ request'[h] = NoRequest /\ \A g \in Handlers \ {h} : request'[g] = request[g]
      /\ request' \in [Handlers -> ActiveRequest \cup {NoRequest}]
  BY OthersStay
<1>2. FirewallTypes'
  BY <1>1 DEF IInv, FirewallTypes
<1>3. CompanyInv'
  BY <1>1, NoRequestIsNone DEF IInv, CompanyInv, Alone
<1>4. \A g \in Handlers : Alone(g)' => Alone(g) /\ g # h
  BY <1>1, NoRequestIsNone DEF Alone
<1>5. LonelyInv'
  <2>1. \A g \in Handlers : ~Alone(g)'
    BY <1>4 DEF IInv, CompanyInv
  <2>2. QED
    BY <2>1 DEF LonelyInv
<1>6. CoverInv'
  BY <1>1, NoRequestIsNone DEF IInv, CoverInv
<1>7. QED
  BY <1>2, <1>3, <1>5, <1>6 DEF IInv

\* nft refused, or was killed too late: the request ends.
LEMMA ApplyFailsStep == ASSUME IInv, NEW h \in Handlers, ApplyFails(h) PROVE IInv'
<1>1. /\ request[h].at = "apply" /\ Step(h, NoRequest)
      /\ UNCHANGED <<table, stored, firewallError, unsettled, up>>
  BY DEF ApplyFails
<1>2. table' \subseteq Macs /\ firewallError' \in BOOLEAN /\ unsettled' \in BOOLEAN
  BY <1>1 DEF IInv, FirewallTypes
<1>3. QED
  BY <1>1, <1>2, EndStep

(* nft was killed after its script had committed: the table is rewritten and
   the request ends in an error. *)
LEMMA ApplyTimesOutStep == ASSUME IInv, NEW h \in Handlers, ApplyTimesOut(h) PROVE IInv'
<1>1. /\ request[h].at = "apply" /\ Step(h, NoRequest) /\ unsettled' = TRUE
      /\ table' = Wanted(request[h]) /\ UNCHANGED <<stored, firewallError, up>>
  BY DEF ApplyTimesOut, Unsettle
<1>2. request[h] \in ActiveRequest
  BY <1>1, NoRequestIsNone DEF IInv, FirewallTypes
<1>3. table' \subseteq Macs /\ firewallError' \in BOOLEAN
  BY <1>1, <1>2 DEF IInv, FirewallTypes, Wanted, ActiveRequest
<1>4. QED
  BY <1>1, <1>3, EndStep

\* The row could not be written.
LEMMA StoreFailsStep == ASSUME IInv, NEW h \in Handlers, StoreFails(h) PROVE IInv'
<1>1. /\ request[h].at = "store" /\ Step(h, NoRequest) /\ unsettled' = TRUE
      /\ firewallError' \in BOOLEAN /\ UNCHANGED <<table, stored, up>>
  BY DEF StoreFails, Unsettle
<1>2. table' \subseteq Macs
  BY <1>1 DEF IInv, FirewallTypes
<1>3. QED
  BY <1>1, <1>2, EndStep

\* The request is answered.
LEMMA AnswerStep == ASSUME IInv, NEW h \in Handlers, Answer(h) PROVE IInv'
<1>1. /\ request[h].at = "answer" /\ Step(h, NoRequest)
      /\ UNCHANGED <<table, stored, firewallError, unsettled, up>>
  BY DEF Answer
<1>2. table' \subseteq Macs /\ firewallError' \in BOOLEAN /\ unsettled' \in BOOLEAN
  BY <1>1 DEF IInv, FirewallTypes
<1>3. QED
  BY <1>1, <1>2, EndStep

\* The row makes the list equal to the table if the request was alone.
LEMMA StoreStep == ASSUME IInv, NEW h \in Handlers, Store(h) PROVE IInv'
<1> DEFINE place == IF request[h].op = "block" THEN "kick" ELSE "answer"
<1>1. /\ request[h].at = "store" /\ Goto(h, place)
      /\ stored' = IF request[h].op = "block" THEN stored \cup {request[h].mac} ELSE stored \ {request[h].mac}
      /\ firewallError' = FALSE /\ unsettled' = (unsettled /\ ~request[h].alone)
      /\ UNCHANGED <<table, up>>
  BY DEF Store
<1>2. /\ request'[h] \in ActiveRequest /\ request'[h].at = place
      /\ request'[h].op = request[h].op /\ request'[h].mac = request[h].mac
      /\ request'[h].seen = request[h].seen /\ request'[h].alone = request[h].alone
      /\ \A g \in Handlers \ {h} : request'[g] = request[g]
      /\ request' \in [Handlers -> ActiveRequest \cup {NoRequest}]
  <2> HIDE DEF place
  <2>1. place \in {"apply", "store", "kick", "answer"}
    BY DEF place
  <2>2. QED
    BY <1>1, <2>1, MovedRequest
<1>3. FirewallTypes'
  BY <1>1, <1>2 DEF IInv, FirewallTypes, ActiveRequest
<1>4. CompanyInv'
  BY <1>1, <1>2 DEF IInv, FirewallTypes, CompanyInv, Alone, ActiveRequest
<1>5. Alone(h) => table' = stored'
  BY <1>1 DEF IInv, LonelyInv, Alone, Wanted
<1>6. LonelyInv'
  BY <1>1, <1>2, <1>5 DEF IInv, CompanyInv, LonelyInv, Alone
<1>7. CoverInv'
  <2> SUFFICES ASSUME ~unsettled' PROVE stored' \subseteq table'
    BY DEF CoverInv
  <2>1. Alone(h)
    BY <1>1 DEF IInv, FirewallTypes, CompanyInv, Alone
  <2>2. QED
    BY <1>5, <2>1
<1>8. QED
  BY <1>3, <1>4, <1>6, <1>7 DEF IInv

\* The kick changes neither the table nor the list.
LEMMA KickStep == ASSUME IInv, NEW h \in Handlers, Kick(h) PROVE IInv'
<1>1. /\ request[h].at = "kick" /\ Goto(h, "answer")
      /\ UNCHANGED <<table, stored, firewallError, unsettled, up>>
  BY DEF Kick
<1>2. /\ request'[h] \in ActiveRequest /\ request'[h].at = "answer"
      /\ request'[h].op = request[h].op /\ request'[h].mac = request[h].mac
      /\ request'[h].seen = request[h].seen /\ request'[h].alone = request[h].alone
      /\ \A g \in Handlers \ {h} : request'[g] = request[g]
      /\ request' \in [Handlers -> ActiveRequest \cup {NoRequest}]
  BY <1>1, MovedRequest
<1>3. FirewallTypes'
  BY <1>1, <1>2 DEF IInv, FirewallTypes
<1>4. CompanyInv'
  BY <1>1, <1>2 DEF IInv, CompanyInv, Alone
<1>5. LonelyInv'
  BY <1>1, <1>2 DEF IInv, CompanyInv, LonelyInv, Alone
<1>6. CoverInv'
  BY <1>1, <1>2 DEF IInv, CoverInv
<1>7. QED
  BY <1>3, <1>4, <1>5, <1>6 DEF IInv

-----------------------------------------------------------------------------
\* A service that is down has no requests.
LEMMA HaltStep ==
  ASSUME IInv, Halt, UNCHANGED stored, table' \subseteq Macs
  PROVE  IInv'
<1>1. up' = FALSE /\ firewallError' = FALSE /\ unsettled' = FALSE /\ request' = [h \in Handlers |-> NoRequest]
  BY DEF Halt
<1>2. \A h \in Handlers : request'[h].at = "none"
  BY <1>1, NoRequestIsNone
<1>3. FirewallTypes'
  BY <1>1 DEF IInv, FirewallTypes
<1>4. QED
  BY <1>1, <1>2, <1>3 DEF IInv, CompanyInv, LonelyInv, CoverInv, Alone

\* A service that starts has no requests, and the table or an error.
LEMMA OpenStep ==
  ASSUME IInv, ~up, up' = TRUE, UNCHANGED <<stored, request, unsettled>>,
         \/ table' = stored /\ firewallError' = FALSE
         \/ firewallError' = TRUE /\ UNCHANGED table
  PROVE  IInv'
<1>1. \A h \in Handlers : request[h].at = "none"
  BY DEF IInv, CompanyInv
<1>2. FirewallTypes'
  BY DEF IInv, FirewallTypes
<1>3. QED
  BY <1>1, <1>2 DEF IInv, CompanyInv, LonelyInv, CoverInv, Alone

\* Every step keeps the invariant of the block list.
LEMMA NextIInv == ASSUME IInv, [Next]_vars PROVE IInv'
<1>1. CASE \E h \in Handlers :
             \/ \E op \in {"block", "unblock"}, m \in Macs : Begin(h, op, m)
             \/ Apply(h) \/ ApplyFails(h) \/ ApplyTimesOut(h) \/ Store(h) \/ StoreFails(h) \/ Kick(h) \/ Answer(h)
  BY <1>1, BeginStep, ApplyStep, ApplyFailsStep, ApplyTimesOutStep, StoreStep, StoreFailsStep, KickStep, AnswerStep
<1>2. CASE \/ \E m \in Macs : Join(m) \/ Leave(m)
           \/ Tick \/ Poll \/ LogFails \/ SaveFails \/ UNCHANGED vars
  <2>1. UNCHANGED <<firewall, up>>
    BY <1>2 DEF Join, Leave, Tick, Poll, BeginPoll, LogEvent, SavePoll, SkipSave, EndPoll, LogFails, SaveFails, vars
  <2>2. QED
    BY <2>1, JournalStep
<1>3. CASE Crash \/ Stop \/ Reboot
  <2>1. Halt /\ UNCHANGED stored /\ table' \subseteq Macs
    BY <1>3 DEF Crash, Stop, Reboot, IInv, FirewallTypes
  <2>2. QED
    BY <2>1, HaltStep
<1>4. CASE Start
  BY <1>4, OpenStep DEF Start
<1>5. CASE StartUnrestored
  BY <1>5, OpenStep DEF StartUnrestored
<1>6. QED
  BY <1>1, <1>2, <1>3, <1>4, <1>5 DEF Next

\* The invariant of the block list holds in every reachable state.
LEMMA InductiveInvariant == Spec => []IInv
BY InitIInv, NextIInv, PTL DEF Spec

-----------------------------------------------------------------------------
(* The journal *)

Kinds == {"CONNECTED", "DISCONNECTED"}
Ages == [Macs -> 0..MaxAge]

JournalTypes ==
  /\ {ap, current, sessions} \subseteq Ages
  /\ poll \in [running : BOOLEAN, dump : Ages, todo : SUBSET (Kinds \X Macs), changed : BOOLEAN]
  /\ events \in Seq(Kinds \X Macs)
  /\ cut \in BOOLEAN /\ inputs \in 0..MaxInputs
  /\ poll.running => up

Connected(m) == Last("CONNECTED", m, Len(events))

Alternates ==
  \A m \in Macs : \A i \in 1..Len(events) :
    events[i][2] = m => (events[i][1] = "CONNECTED" <=> ~Last("CONNECTED", m, i - 1))

Gone(m) == <<"DISCONNECTED", m>>
New(m) == <<"CONNECTED", m>>

\* A running poll has logged the change of this device up to what it has still
\* to log, the disconnect first.
Logged(m) ==
  /\ Gone(m) \in poll.todo => /\ Connected(m)
                              /\ New(m) \in Changes(current, poll.dump) => New(m) \in poll.todo
  /\ Gone(m) \notin poll.todo /\ New(m) \in poll.todo => ~Connected(m)
  /\ Gone(m) \notin poll.todo /\ New(m) \notin poll.todo => (Connected(m) <=> poll.dump[m] # 0)

\* Between two polls the journal, the stations of the last poll and the saved
\* sessions agree on who is connected.
Agrees(m) ==
  /\ up => (sessions[m] # 0 <=> current[m] # 0)
  /\ ~poll.running => (Connected(m) <=> sessions[m] # 0)
  /\ poll.running => Logged(m)

JournalInv ==
  /\ poll.running => /\ poll.todo \subseteq Changes(current, poll.dump)
                     /\ poll.changed <=> Changes(current, poll.dump) # {}
  /\ ~cut => Alternates /\ \A m \in Macs : Agrees(m)

JInv == up \in BOOLEAN /\ JournalTypes /\ JournalInv

\* What diff_stations finds about one device; without any change the same
\* devices are connected.
LEMMA ChangesFacts ==
  ASSUME HotspotAssumption, NEW before \in Ages, NEW now \in Ages
  PROVE  /\ Changes(before, now) \subseteq Kinds \X Macs
         /\ \A m \in Macs :
              /\ Gone(m) \in Changes(before, now) <=> now[m] < before[m]
              /\ New(m) \in Changes(before, now) <=> now[m] # 0 /\ (before[m] = 0 \/ now[m] < before[m])
         /\ Changes(before, now) = {} => \A m \in Macs : before[m] # 0 <=> now[m] # 0
<1>1. \A m \in Macs : before[m] \in Nat /\ now[m] \in Nat
  BY DEF HotspotAssumption, Ages
<1>2. Changes(before, now) \subseteq Kinds \X Macs
  BY DEF Changes, Kinds
<1>3. ASSUME NEW m \in Macs
      PROVE  /\ Gone(m) \in Changes(before, now) <=> now[m] < before[m]
             /\ New(m) \in Changes(before, now) <=> now[m] # 0 /\ (before[m] = 0 \/ now[m] < before[m])
  BY DEF Changes, Gone, New
<1>4. ASSUME Changes(before, now) = {}, NEW m \in Macs
      PROVE  before[m] # 0 <=> now[m] # 0
  BY <1>1, <1>3, <1>4
<1>5. QED
  BY <1>2, <1>3, <1>4

\* One event more: it is the last one about its device, and the last one about
\* every other device stays what it was.
LEMMA OneMore ==
  ASSUME JournalTypes, NEW kind \in Kinds, NEW m \in Macs, events' = Append(events, <<kind, m>>)
  PROVE  /\ events' \in Seq(Kinds \X Macs)
         /\ Len(events') = Len(events) + 1 /\ events'[Len(events) + 1] = <<kind, m>>
         /\ \A i \in 1..Len(events) : events'[i] = events[i]
         /\ \A x \in Macs, n \in 0..Len(events) : Last("CONNECTED", x, n)' <=> Last("CONNECTED", x, n)
         /\ \A x \in Macs : Connected(x)' <=> IF x = m THEN kind = "CONNECTED" ELSE Connected(x)
<1>a. PICK L \in Nat : L = Len(events)
  BY DEF JournalTypes
<1>b. PICK M \in Nat : M = L + 1
  OBVIOUS
<1>1. /\ events \in Seq(Kinds \X Macs) /\ <<kind, m>> \in Kinds \X Macs
      /\ L \in Nat /\ M \in Nat /\ M = L + 1
  BY <1>a, <1>b DEF JournalTypes
<1>2. /\ events' \in Seq(Kinds \X Macs) /\ Len(events') = M /\ events'[M] = <<kind, m>>
      /\ \A i \in 1..L : events'[i] = events[i]
  BY <1>a, <1>1, AppendProperties
<1>3. ASSUME NEW x \in Macs, NEW n \in 0..L
      PROVE  Last("CONNECTED", x, n)' <=> Last("CONNECTED", x, n)
  <2>1. \A i \in 1..n : i \in 1..L /\ \A j \in i + 1..n : j \in 1..L
    BY <1>1
  <2>2. QED
    BY <1>2, <2>1 DEF Last
<1>4. ASSUME NEW x \in Macs
      PROVE  Last("CONNECTED", x, M)' <=> IF x = m THEN kind = "CONNECTED" ELSE Last("CONNECTED", x, L)
  <2>1. /\ M \in 1..M /\ M \notin 1..L /\ \A j \in M + 1..M : FALSE
        /\ \A i \in 1..M : i \in 1..L \/ i = M
        /\ \A i \in 1..L : i \in 1..M /\ M \in i + 1..M
        /\ \A i \in 1..L : \A j \in i + 1..M : j \in i + 1..L \/ j = M
        /\ \A i \in 1..L : \A j \in i + 1..L : j \in i + 1..M /\ j \in 1..L
    BY <1>1
  <2>2. CASE x = m
    <3>1. kind = "CONNECTED" => Last("CONNECTED", x, M)'
      <4>1. \A j \in M + 1..M : events'[j][2] # x
        BY <2>1
      <4>2. QED
        BY <1>2, <2>1, <2>2, <4>1 DEF Last
    <3>2. Last("CONNECTED", x, M)' => kind = "CONNECTED"
      <4>1. SUFFICES ASSUME NEW i \in 1..M, events'[i] = <<"CONNECTED", x>>,
                            \A j \in i + 1..M : events'[j][2] # x
                     PROVE  kind = "CONNECTED"
        BY DEF Last
      <4>2. i = M
        <5>1. events'[M][2] = x
          BY <1>2, <2>2
        <5>2. i \notin 1..L
          BY <2>1, <4>1, <5>1
        <5>3. QED
          BY <2>1, <5>2
      <4>3. QED
        BY <1>2, <4>1, <4>2
    <3>3. QED
      BY <2>2, <3>1, <3>2
  <2>3. CASE x # m
    <3>1. Last("CONNECTED", x, L) => Last("CONNECTED", x, M)'
      <4>1. SUFFICES ASSUME NEW i \in 1..L, events[i] = <<"CONNECTED", x>>,
                            \A j \in i + 1..L : events[j][2] # x
                     PROVE  Last("CONNECTED", x, M)'
        BY DEF Last
      <4>2. ASSUME NEW j \in i + 1..M
            PROVE  events'[j][2] # x
        <5>1. CASE j \in i + 1..L
          <6>1. events'[j] = events[j]
            BY <1>2, <2>1, <5>1
          <6>2. QED
            BY <4>1, <5>1, <6>1
        <5>2. CASE j = M
          BY <1>2, <2>3, <5>2
        <5>3. QED
          BY <2>1, <5>1, <5>2
      <4>3. i \in 1..M /\ events'[i] = <<"CONNECTED", x>>
        BY <1>2, <2>1, <4>1
      <4>4. QED
        BY <4>2, <4>3 DEF Last
    <3>2. Last("CONNECTED", x, M)' => Last("CONNECTED", x, L)
      <4>1. SUFFICES ASSUME NEW i \in 1..M, events'[i] = <<"CONNECTED", x>>,
                            \A j \in i + 1..M : events'[j][2] # x
                     PROVE  Last("CONNECTED", x, L)
        BY DEF Last
      <4>2. i \in 1..L
        <5>1. i # M
          BY <1>2, <2>3, <4>1
        <5>2. QED
          BY <2>1, <5>1
      <4>3. ASSUME NEW j \in i + 1..L
            PROVE  events[j][2] # x
        <5>1. j \in i + 1..M /\ events'[j] = events[j]
          BY <1>2, <2>1, <4>2
        <5>2. QED
          BY <4>1, <5>1
      <4>4. QED
        BY <1>2, <4>1, <4>2, <4>3 DEF Last
    <3>3. QED
      BY <2>3, <3>1, <3>2
  <2>4. QED
    BY <2>2, <2>3
<1>5. ASSUME NEW x \in Macs
      PROVE  Connected(x)' <=> IF x = m THEN kind = "CONNECTED" ELSE Connected(x)
  BY <1>a, <1>2, <1>4 DEF Connected
<1>6. QED
  BY <1>a, <1>1, <1>2, <1>3, <1>5

\* An event that is not what the journal says already keeps the alternation.
LEMMA OneMoreAlternates ==
  ASSUME JournalTypes, Alternates, NEW kind \in Kinds, NEW m \in Macs,
         events' = Append(events, <<kind, m>>),
         kind = "CONNECTED" <=> ~Connected(m)
  PROVE  Alternates'
<1> SUFFICES ASSUME NEW x \in Macs, NEW i \in 1..Len(events'), events'[i][2] = x
             PROVE  events'[i][1] = "CONNECTED" <=> ~Last("CONNECTED", x, i - 1)'
  BY DEF Alternates
<1> DEFINE L == Len(events)
<1>1. L \in Nat /\ Len(events') = L + 1
  BY OneMore DEF JournalTypes
<1>2. i - 1 \in 0..L /\ (i \in 1..L \/ i = L + 1)
  BY <1>1
<1>3. Last("CONNECTED", x, i - 1)' <=> Last("CONNECTED", x, i - 1)
  BY <1>2, OneMore
<1>4. CASE i \in 1..L
  <2>1. events'[i] = events[i]
    BY <1>4, OneMore
  <2>2. QED
    BY <1>3, <1>4, <2>1 DEF Alternates
<1>5. CASE i = L + 1
  <2>1. i - 1 = L /\ events'[i] = <<kind, m>>
    BY <1>1, <1>5, OneMore
  <2>2. x = m
    BY <2>1
  <2>3. QED
    BY <1>3, <2>1, <2>2 DEF Connected
<1>6. QED
  BY <1>2, <1>4, <1>5

\* Steps that touch neither a poll nor the journal.
LEMMA NoPollStep ==
  ASSUME JInv, UNCHANGED <<current, sessions, poll, events, cut, up>>,
         ap' \in Ages, inputs' \in 0..MaxInputs
  PROVE  JInv'
<1>1. JournalTypes'
  BY DEF JInv, JournalTypes
<1>2. ASSUME NEW m \in Macs
      PROVE  Agrees(m)' <=> Agrees(m)
  <2>1. Connected(m)' <=> Connected(m)
    BY DEF Connected, Last
  <2>2. Changes(current, poll.dump)' = Changes(current, poll.dump)
    BY DEF Changes
  <2>3. QED
    BY <2>1, <2>2 DEF Agrees, Logged, Gone, New
<1>3. Alternates' <=> Alternates
  BY DEF Alternates, Last
<1>4. JournalInv'
  <2>1. Changes(current, poll.dump)' = Changes(current, poll.dump)
    BY DEF Changes
  <2>2. QED
    BY <1>2, <1>3, <2>1 DEF JInv, JournalInv
<1>5. QED
  BY <1>1, <1>4 DEF JInv

\* The environment, and the requests for the block list.
LEMMA ElsewhereStep ==
  ASSUME HotspotAssumption, JInv,
         \/ \E m \in Macs : Join(m) \/ Leave(m)
         \/ Tick
         \/ \E h \in Handlers :
              \/ \E op \in {"block", "unblock"}, m \in Macs : Begin(h, op, m)
              \/ Apply(h) \/ ApplyFails(h) \/ ApplyTimesOut(h) \/ Store(h) \/ StoreFails(h) \/ Kick(h) \/ Answer(h)
  PROVE  JInv'
<1>1. UNCHANGED <<current, sessions, poll, events, cut, up>>
  BY DEF Join, Leave, Tick, Begin, Apply, ApplyFails, ApplyTimesOut, Store, StoreFails, Kick, Answer, journal
<1>2. inputs' \in 0..MaxInputs
  <2>1. Input \/ UNCHANGED inputs
    BY DEF Join, Leave, Tick, Begin, Apply, ApplyFails, ApplyTimesOut, Store, StoreFails, Kick, Answer, Fault
  <2>2. QED
    BY <2>1 DEF Input, JInv, JournalTypes, HotspotAssumption
<1>3. ap' \in Ages
  <2>1. 0 \in 0..MaxAge /\ 1 \in 0..MaxAge /\ ap \in Ages
    BY DEF HotspotAssumption, JInv, JournalTypes
  <2>2. CASE Tick
    <3>1. \A age \in 0..MaxAge : Older(age) \in 0..MaxAge
      BY DEF Older, HotspotAssumption
    <3>2. QED
      BY <2>1, <2>2, <3>1 DEF Tick, Ages
  <2>3. CASE \/ \E m \in Macs : ap' = [ap EXCEPT ![m] = 1] \/ ap' = [ap EXCEPT ![m] = 0]
             \/ \E h \in Handlers : ap' \in {ap, [ap EXCEPT ![request[h].mac] = 0]}
    BY <2>1, <2>3 DEF Ages
  <2>4. QED
    BY <2>1, <2>2, <2>3
       DEF Join, Leave, Begin, Apply, ApplyFails, ApplyTimesOut, Store, StoreFails, Kick, Answer, journal
<1>4. QED
  BY <1>1, <1>2, <1>3, NoPollStep

\* A poll begins with what has changed since the last one.
LEMMA BeginPollStep ==
  ASSUME HotspotAssumption, JInv, BeginPoll
  PROVE  JInv'
<1> DEFINE changes == Changes(current, ap)
           new == [running |-> TRUE, dump |-> ap, todo |-> changes, changed |-> changes # {}]
<1>1. /\ up /\ ~poll.running /\ poll' = new
      /\ UNCHANGED <<ap, current, sessions, events, cut, up, inputs>>
  BY DEF BeginPoll
<1>2. ap \in Ages /\ current \in Ages
  BY DEF JInv, JournalTypes
<1>3. /\ changes \subseteq Kinds \X Macs
      /\ \A m \in Macs :
           /\ Gone(m) \in changes <=> ap[m] < current[m]
           /\ New(m) \in changes <=> ap[m] # 0 /\ (current[m] = 0 \/ ap[m] < current[m])
  BY <1>2, ChangesFacts
<1>4. Changes(current, poll.dump)' = changes
  BY <1>1 DEF Changes
<1> HIDE DEF changes
<1>5. JournalTypes'
  BY <1>1, <1>2, <1>3 DEF JInv, JournalTypes
<1>6. ASSUME ~cut, NEW m \in Macs
      PROVE  Agrees(m)'
  <2>1. Connected(m) <=> current[m] # 0
    BY <1>1, <1>6 DEF JInv, JournalInv, Agrees
  <2>2. Connected(m)' <=> Connected(m)
    BY <1>1 DEF Connected, Last
  <2>3. ap[m] \in Nat /\ current[m] \in Nat
    BY <1>2 DEF Ages, HotspotAssumption
  <2>4. Logged(m)'
    <3>1. Gone(m) \in changes => current[m] # 0
      BY <1>3, <2>3
    <3>2. Gone(m) \notin changes /\ New(m) \in changes => current[m] = 0
      BY <1>3, <2>3
    <3>3. Gone(m) \notin changes /\ New(m) \notin changes => (current[m] # 0 <=> ap[m] # 0)
      BY <1>3, <2>3
    <3>4. poll'.todo = changes /\ poll'.dump = ap
      BY <1>1
    <3>5. QED
      BY <1>4, <2>1, <2>2, <3>1, <3>2, <3>3, <3>4 DEF Logged, Gone, New
  <2>5. QED
    BY <1>1, <1>6, <2>4 DEF JInv, JournalInv, Agrees
<1>7. Alternates' <=> Alternates
  BY <1>1 DEF Alternates, Last
<1>8. JournalInv'
  BY <1>1, <1>4, <1>6, <1>7 DEF JInv, JournalInv
<1>9. QED
  BY <1>1, <1>5, <1>8 DEF JInv

\* An event is logged: disconnects first, and only what the journal does not say
\* already.
LEMMA LogEventStep ==
  ASSUME HotspotAssumption, JInv, LogEvent
  PROVE  JInv'
<1>1. PICK e \in poll.todo :
        /\ e[1] = "CONNECTED" => \A d \in poll.todo : d[1] = "CONNECTED"
        /\ events' = Append(events, e)
        /\ poll' = [poll EXCEPT !.todo = @ \ {e}]
  BY DEF LogEvent
<1>2. poll.running /\ UNCHANGED <<ap, current, sessions, cut, up, inputs>>
  BY DEF LogEvent
<1>3. /\ JournalTypes /\ poll.dump \in Ages /\ current \in Ages /\ poll.todo \subseteq Kinds \X Macs
      /\ poll' = [running |-> TRUE, dump |-> poll.dump, todo |-> poll.todo \ {e}, changed |-> poll.changed]
  BY <1>1, <1>2 DEF JInv, JournalTypes
<1>4. PICK kind \in Kinds, m \in Macs : e = <<kind, m>>
  BY <1>3
<1>5. e = (IF kind = "CONNECTED" THEN New(m) ELSE Gone(m))
  BY <1>4 DEF Kinds, New, Gone
<1>6. events' = Append(events, <<kind, m>>)
  BY <1>1, <1>4
<1> DEFINE changes == Changes(current, poll.dump)
<1>7. Changes(current, poll.dump)' = changes
  BY <1>2, <1>3 DEF Changes
<1>8. JournalTypes'
  BY <1>2, <1>3, <1>6, OneMore DEF JournalTypes
<1>9. /\ poll.todo \subseteq changes
      /\ \A x \in Macs :
           /\ Gone(x) \in changes <=> poll.dump[x] < current[x]
           /\ New(x) \in changes <=> poll.dump[x] # 0 /\ (current[x] = 0 \/ poll.dump[x] < current[x])
  BY <1>2, <1>3, ChangesFacts DEF JInv, JournalInv
<1> HIDE DEF changes
<1>10. ASSUME ~cut
       PROVE  Alternates' /\ \A x \in Macs : Agrees(x)'
  <2>1. Alternates /\ \A x \in Macs : Agrees(x) /\ Logged(x)
    BY <1>2, <1>10 DEF JInv, JournalInv, Agrees
  <2>2. New(m) \in poll.todo /\ kind = "CONNECTED" => Gone(m) \notin poll.todo
    BY <1>1, <1>4 DEF Gone
  <2>3. kind = "CONNECTED" <=> ~Connected(m)
    BY <1>1, <1>5, <2>1, <2>2 DEF Logged, Kinds
  <2>4. Alternates'
    BY <1>3, <1>6, <2>1, <2>3, OneMoreAlternates
  <2>5. ASSUME NEW x \in Macs
        PROVE  Logged(x)'
    <3>1. Connected(x)' <=> IF x = m THEN kind = "CONNECTED" ELSE Connected(x)
      BY <1>3, <1>6, OneMore
    <3>2. poll'.todo = poll.todo \ {e} /\ poll'.dump = poll.dump
      BY <1>3
    <3>3. CASE x # m
      <4>1. Gone(x) # e /\ New(x) # e
        BY <1>4, <3>3 DEF Gone, New
      <4>2. QED
        BY <1>7, <2>1, <3>1, <3>2, <3>3, <4>1 DEF Logged, Gone, New, changes
    <3>4. CASE x = m /\ kind = "CONNECTED"
      <4>1. e = New(x) /\ Gone(x) \notin poll.todo /\ poll.dump[x] # 0
        BY <1>1, <1>5, <1>9, <2>2, <3>4
      <4>2. Connected(x)' /\ Gone(x) \notin poll'.todo /\ New(x) \notin poll'.todo
        BY <3>1, <3>2, <3>4, <4>1
      <4>3. QED
        BY <3>2, <4>1, <4>2 DEF Logged, Gone, New
    <3>5. CASE x = m /\ kind # "CONNECTED"
      <4>1. e = Gone(x) /\ Gone(x) # New(x)
        BY <1>5, <3>5 DEF Gone, New
      <4>2. /\ ~Connected(x)' /\ Gone(x) \notin poll'.todo
            /\ New(x) \in poll'.todo <=> New(x) \in poll.todo
        BY <3>1, <3>2, <3>5, <4>1
      <4>3. New(x) \notin poll.todo => poll.dump[x] = 0
        <5>1. Gone(x) \in changes /\ (New(x) \in changes => New(x) \in poll.todo)
          BY <1>1, <1>9, <2>1, <3>5, <4>1 DEF Logged, changes
        <5>2. poll.dump[x] < current[x]
          BY <1>9, <5>1
        <5>3. QED
          BY <1>9, <5>1, <5>2
      <4>4. QED
        BY <3>2, <4>2, <4>3 DEF Logged, Gone, New
    <3>6. QED
      BY <3>3, <3>4, <3>5
  <2>6. ASSUME NEW x \in Macs
        PROVE  Agrees(x)'
    <3>1. poll'.running /\ (up' => (sessions'[x] # 0 <=> current'[x] # 0))
      BY <1>2, <1>3, <2>1 DEF Agrees
    <3>2. QED
      BY <2>5, <3>1 DEF Agrees
  <2>7. QED
    BY <2>4, <2>6
<1>11. JournalInv'
  <2>1. /\ poll'.running /\ poll'.todo \subseteq changes
        /\ poll'.changed <=> changes # {}
    BY <1>2, <1>3, <1>9 DEF JInv, JournalInv, changes
  <2>2. QED
    BY <1>2, <1>7, <1>10, <2>1 DEF JournalInv
<1>12. QED
  BY <1>2, <1>8, <1>11 DEF JInv

\* A poll that logged everything takes over the stations; sessions that are not
\* saved had no change.
LEMMA EndPollStep ==
  ASSUME HotspotAssumption, JInv, SavePoll \/ SkipSave
  PROVE  JInv'
<1>1. /\ poll.running /\ poll.todo = {} /\ current' = poll.dump /\ poll' = NoPoll
      /\ UNCHANGED <<ap, events, cut, up, inputs>>
      /\ sessions' = poll.dump \/ (sessions' = sessions /\ ~poll.changed)
  BY DEF SavePoll, SkipSave, EndPoll
<1>2. /\ poll.dump \in Ages /\ current \in Ages /\ sessions \in Ages
      /\ NoPoll \in [running : BOOLEAN, dump : Ages, todo : SUBSET (Kinds \X Macs), changed : BOOLEAN]
  BY DEF JInv, JournalTypes, NoPoll, Nobody, Ages, HotspotAssumption
<1>3. ~poll'.running
  BY <1>1 DEF NoPoll
<1>4. JournalTypes'
  BY <1>1, <1>2, <1>3 DEF JInv, JournalTypes
<1>5. ASSUME ~cut, NEW m \in Macs
      PROVE  Agrees(m)'
  <2>1. Logged(m) /\ (sessions[m] # 0 <=> current[m] # 0)
    BY <1>1, <1>5 DEF JInv, JournalInv, JournalTypes, Agrees
  <2>2. Connected(m)' <=> Connected(m)
    BY <1>1 DEF Connected, Last
  <2>3. Connected(m) <=> poll.dump[m] # 0
    BY <1>1, <2>1 DEF Logged
  <2>4. sessions'[m] # 0 <=> poll.dump[m] # 0
    <3>1. CASE sessions' = sessions /\ ~poll.changed
      <4>1. Changes(current, poll.dump) = {}
        BY <1>1, <3>1 DEF JInv, JournalInv
      <4>2. current[m] # 0 <=> poll.dump[m] # 0
        BY <1>2, <4>1, ChangesFacts
      <4>3. QED
        BY <2>1, <3>1, <4>2
    <3>2. QED
      BY <1>1, <3>1
  <2>5. QED
    BY <1>1, <1>3, <2>2, <2>3, <2>4 DEF Agrees
<1>6. Alternates' <=> Alternates
  BY <1>1 DEF Alternates, Last
<1>7. JournalInv'
  BY <1>1, <1>3, <1>5, <1>6 DEF JInv, JournalInv
<1>8. QED
  BY <1>1, <1>4, <1>7 DEF JInv

\* A poll that is cut short, and a service that stops in the middle of one,
\* promise nothing more; between two polls the saved sessions are enough.
LEMMA CutStep ==
  ASSUME HotspotAssumption, JInv, UNCHANGED events, poll' = NoPoll,
         ap' \in Ages, current' \in Ages, sessions' \in Ages, inputs' \in 0..MaxInputs,
         up' \in BOOLEAN, cut' \in BOOLEAN,
         ~cut' => /\ ~cut /\ ~poll.running
                  /\ \A m \in Macs : /\ Connected(m) <=> sessions'[m] # 0
                                     /\ up' => (sessions'[m] # 0 <=> current'[m] # 0)
  PROVE  JInv'
<1>1. ~poll'.running /\ poll' \in [running : BOOLEAN, dump : Ages, todo : SUBSET (Kinds \X Macs), changed : BOOLEAN]
  BY DEF NoPoll, Nobody, Ages, HotspotAssumption
<1>2. JournalTypes'
  BY <1>1 DEF JInv, JournalTypes
<1>3. ASSUME ~cut', NEW m \in Macs
      PROVE  Agrees(m)'
  <2>1. Connected(m)' <=> Connected(m)
    BY DEF Connected, Last
  <2>2. QED
    BY <1>1, <1>3, <2>1 DEF Agrees
<1>4. Alternates' <=> Alternates
  BY DEF Alternates, Last
<1>5. JournalInv'
  BY <1>1, <1>3, <1>4 DEF JInv, JournalInv
<1>6. QED
  BY <1>2, <1>5 DEF JInv

\* Failed writes, crashes, stops and starts.
LEMMA StopStep ==
  ASSUME HotspotAssumption, JInv,
         LogFails \/ SaveFails \/ Crash \/ Reboot \/ Stop \/ Start \/ StartUnrestored
  PROVE  JInv'
<1>1. inputs' \in 0..MaxInputs
  <2>1. Input \/ UNCHANGED inputs
    BY DEF LogFails, SaveFails, Crash, Reboot, Stop, Start, StartUnrestored, Fault
  <2>2. QED
    BY <2>1 DEF Input, JInv, JournalTypes, HotspotAssumption
<1>2. /\ Nobody \in Ages /\ ap \in Ages /\ current \in Ages /\ sessions \in Ages
      /\ cut \in BOOLEAN /\ poll.running \in BOOLEAN /\ poll.dump \in Ages
  BY DEF Nobody, Ages, HotspotAssumption, JInv, JournalTypes
<1>3. ~cut /\ ~poll.running => \A m \in Macs : /\ Connected(m) <=> sessions[m] # 0
                                               /\ up => (sessions[m] # 0 <=> current[m] # 0)
  BY DEF JInv, JournalInv, Agrees
<1>4. CASE LogFails \/ SaveFails
  <2>1. /\ UNCHANGED <<events, ap, sessions, up>> /\ poll' = NoPoll /\ cut' = TRUE
        /\ current' \in {current, poll.dump}
    BY <1>4 DEF LogFails, SaveFails
  <2>2. QED
    BY <1>1, <1>2, <2>1, CutStep DEF JInv
<1>5. CASE Crash \/ Reboot
  <2>1. /\ UNCHANGED <<events, sessions>> /\ poll' = NoPoll /\ cut' = (cut \/ poll.running)
        /\ current' = Nobody /\ up' = FALSE /\ ap' \in {ap, Nobody}
    BY <1>5 DEF Crash, Reboot, Halt
  <2>2. QED
    BY <1>1, <1>2, <1>3, <2>1, CutStep
<1>6. CASE Stop
  <2>1. /\ UNCHANGED <<events, ap, cut>> /\ poll' = NoPoll /\ sessions' = current
        /\ current' = Nobody /\ up /\ up' = FALSE /\ ~poll.running
    BY <1>6 DEF Stop, Halt
  <2>2. QED
    BY <1>1, <1>2, <1>3, <2>1, CutStep
<1>7. CASE Start \/ StartUnrestored
  <2>1. /\ UNCHANGED <<events, ap, cut, sessions, poll>> /\ current' = sessions /\ ~up /\ up' = TRUE
    BY <1>7 DEF Start, StartUnrestored, Open
  <2>2. ~poll.running
    BY <2>1 DEF JInv, JournalTypes
  <2>3. JournalTypes'
    BY <1>1, <1>2, <2>1 DEF JInv, JournalTypes
  <2>4. ASSUME ~cut, NEW m \in Macs
        PROVE  Agrees(m)'
    <3>1. Connected(m)' <=> Connected(m)
      BY <2>1 DEF Connected, Last
    <3>2. QED
      BY <1>3, <2>1, <2>2, <2>4, <3>1 DEF Agrees
  <2>5. Alternates' <=> Alternates
    BY <2>1 DEF Alternates, Last
  <2>6. JournalInv'
    BY <2>1, <2>2, <2>4, <2>5 DEF JInv, JournalInv
  <2>7. QED
    BY <2>1, <2>3, <2>6 DEF JInv
<1>8. QED
  BY <1>4, <1>5, <1>6, <1>7

\* The journal is empty at first and nobody is connected.
LEMMA InitJInv == Init => JInv
<1> SUFFICES ASSUME Init
             PROVE  JInv
  OBVIOUS
<1>1. /\ Nobody \in Ages /\ events = << >> /\ ~poll.running /\ up = TRUE /\ cut = FALSE
      /\ current = Nobody /\ sessions = Nobody
      /\ poll \in [running : BOOLEAN, dump : Ages, todo : SUBSET (Kinds \X Macs), changed : BOOLEAN]
  BY HotspotAssumption DEF Init, NoPoll, Nobody, Ages, HotspotAssumption
<1>2. << >> \in Seq(Kinds \X Macs) /\ Len(events) = 0
  BY <1>1
<1>3. JournalTypes
  <2>1. 0 \in 0..MaxInputs /\ ap = Nobody /\ inputs = 0
    BY HotspotAssumption DEF Init, HotspotAssumption
  <2>2. QED
    BY <1>1, <1>2, <2>1 DEF JournalTypes
<1>4. \A m \in Macs : ~Connected(m) /\ current[m] = 0 /\ sessions[m] = 0
  BY <1>1, <1>2 DEF Connected, Last, Nobody
<1>5. JournalInv
  BY <1>1, <1>2, <1>4 DEF JournalInv, Agrees, Alternates
<1>6. QED
  BY <1>1, <1>3, <1>5 DEF JInv

\* Every step keeps the journal in order.
LEMMA NextJInv == JInv /\ [Next]_vars => JInv'
<1> SUFFICES ASSUME JInv, [Next]_vars
             PROVE  JInv'
  OBVIOUS
<1>1. CASE UNCHANGED vars
  BY <1>1, NoPollStep DEF vars, journal, JInv, JournalTypes
<1>2. CASE Poll
  BY <1>2, HotspotAssumption, BeginPollStep, LogEventStep, EndPollStep DEF Poll
<1>3. CASE LogFails \/ SaveFails \/ Crash \/ Reboot \/ Stop \/ Start \/ StartUnrestored
  BY <1>3, HotspotAssumption, StopStep
<1>4. CASE \/ \E m \in Macs : Join(m) \/ Leave(m)
           \/ Tick
           \/ \E h \in Handlers :
                \/ \E op \in {"block", "unblock"}, m \in Macs : Begin(h, op, m)
                \/ Apply(h) \/ ApplyFails(h) \/ ApplyTimesOut(h) \/ Store(h) \/ StoreFails(h) \/ Kick(h) \/ Answer(h)
  BY <1>4, HotspotAssumption, ElsewhereStep
<1>5. QED
  BY <1>1, <1>2, <1>3, <1>4 DEF Next

\* The invariant of the journal holds in every reachable state.
LEMMA JournalHolds == Spec => []JInv
BY InitJInv, NextJInv, PTL DEF Spec

-----------------------------------------------------------------------------
(* block and unblock, run without company, leave the nftables table equal  *)
(* to the stored list, whatever went wrong before.                         *)
THEOREM SettlesTheorem == Spec => []RequestAloneSettles
<1>1. IInv => RequestAloneSettles
  BY DEF IInv, LonelyInv, RequestAloneSettles, Alone
<1>2. QED
  BY <1>1, InductiveInvariant, PTL

(* While the panel shows no firewall error every listed device is in the   *)
(* table, except after overlapping requests and half-done unblocks.        *)
THEOREM EnforcedTheorem == Spec => []NoErrorMeansEnforced
<1>1. IInv => NoErrorMeansEnforced
  BY DEF IInv, CoverInv, NoErrorMeansEnforced, Active
<1>2. QED
  BY <1>1, InductiveInvariant, PTL

(* The variables keep their shape, for every environment and any number of *)
(* inputs.                                                                  *)
THEOREM TypesHold == Spec => []TypeOK
<1>1. IInv /\ JInv => TypeOK
  <2> SUFFICES ASSUME IInv, JInv
               PROVE  TypeOK
    OBVIOUS
  <2>1. ASSUME NEW h \in Handlers
        PROVE  request[h].at \in Places
    BY NoRequestIsNone DEF IInv, FirewallTypes, ActiveRequest, Places
  <2>2. {firewallError, up, unsettled, cut, poll.running} \subseteq BOOLEAN
    BY DEF IInv, FirewallTypes, JInv, JournalTypes
  <2>3. QED
    BY <2>1, <2>2 DEF IInv, FirewallTypes, JInv, JournalTypes, TypeOK, Ages
<1>2. QED
  BY <1>1, InductiveInvariant, JournalHolds, PTL

(* Unless a poll was cut short, the journal of every device alternates and  *)
(* ends with what the poller or the saved sessions say, whenever the        *)
(* service crashes, stops and starts, for any number of devices and inputs. *)
THEOREM JournalTheorem == Spec => []JournalIsConsistent
<1>1. JInv => JournalIsConsistent
  BY DEF JInv, JournalInv, JournalIsConsistent, Alternates, Agrees, Connected
<1>2. QED
  BY <1>1, JournalHolds, PTL
=============================================================================
