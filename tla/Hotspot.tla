------------------------------- MODULE Hotspot -------------------------------
(***************************************************************************)
(* The hotspot panel: hotspot/service.py over its SQLite store, the         *)
(* nftables table and the access point, with the handlers of web/hotspot.py *)
(* that call it from worker threads.  Two protocols share the process and   *)
(* its crashes: block requests keep the kernel's table and the stored list  *)
(* together, and the poller turns station dumps into a journal.             *)
(*                                                                         *)
(* The environment (requests, stations, failures) acts MaxInputs times.    *)
(***************************************************************************)
EXTENDS Naturals, FiniteSets, Sequences

CONSTANTS
  Macs,       \* devices
  Handlers,   \* worker threads with a block or unblock request
  MaxAge,     \* connection times 1..MaxAge are told apart
  Faults,     \* what may fail: subset of AllFaults
  MaxInputs   \* bound on what the environment does

AllFaults == {"nft", "timeout", "store", "crash", "reboot"}

ASSUME HotspotAssumption ==
  /\ MaxAge \in Nat \ {0} /\ MaxInputs \in Nat /\ Faults \subseteq AllFaults

VARIABLES
  table,     \* the set `blocked` of the nftables table
  stored,    \* the table `blocked` of the database
  firewallError,  \* firewall_error is set
  request,   \* each handler's request
  ap,        \* what the access point knows: the age of each connection, 0 for none
  current,   \* the stations of the last poll, with their ages
  sessions,  \* the table `sessions`
  poll,      \* the running poll: its dump and the events it has still to log
  events,    \* the table `events`
  up,        \* the service runs
  inputs,    \* inputs so far
  unsettled, \* history: requests of this run of the service left the table unlike the list
  cut        \* history: a poll was cut short

firewall == <<table, stored, firewallError, request, unsettled>>
journal  == <<ap, current, sessions, poll, events, cut>>
vars == <<firewall, journal, up, inputs>>

NoRequest == [at |-> "none"]
Nobody == [m \in Macs |-> 0]
NoPoll == [running |-> FALSE, dump |-> Nobody, todo |-> {}, changed |-> FALSE]

Init ==
  /\ table = {} /\ stored = {} /\ firewallError = FALSE
  /\ request = [h \in Handlers |-> NoRequest]
  /\ ap = Nobody /\ current = Nobody /\ sessions = Nobody
  /\ poll = NoPoll /\ events = << >>
  /\ up = TRUE /\ inputs = 0 /\ unsettled = FALSE /\ cut = FALSE

Input == inputs < MaxInputs /\ inputs' = inputs + 1
Fault(kind) == kind \in Faults /\ Input

Active == {h \in Handlers : request[h].at # "none"}
Step(h, r) == request' = [request EXCEPT ![h] = r]
Goto(h, place) == Step(h, [request[h] EXCEPT !.at = place])

(* Two requests overlapped, or the table was changed for a request whose   *)
(* row was not: the next request that has the service for itself, or the   *)
(* next start, settles it.                                                 *)
Unsettle == unsettled' = TRUE

-----------------------------------------------------------------------------
(* block and unblock: the list is read, the whole table is rewritten from  *)
(* it, the row is written, and a blocked device is kicked.                 *)
Begin(h, op, mac) ==
  /\ up /\ request[h] = NoRequest /\ Input
  /\ op = "unblock" => mac \in stored      \* "MAC is not blocked" otherwise
  /\ request' = [g \in Handlers |->
       IF g = h THEN [at |-> "apply", op |-> op, mac |-> mac, seen |-> stored, alone |-> Active = {}]
       ELSE IF g \in Active THEN [request[g] EXCEPT !.alone = FALSE] ELSE request[g]]
  /\ unsettled' = (unsettled \/ Active # {})
  /\ UNCHANGED <<table, stored, firewallError, journal, up>>

\* Mutant: the table is written for the new device only.
Wanted_OnlyNew(r) == IF r.op = "block" THEN {r.mac} ELSE r.seen \ {r.mac}

Wanted(r) == IF r.op = "block" THEN r.seen \cup {r.mac} ELSE r.seen \ {r.mac}

Apply(h) ==
  /\ request[h].at = "apply"
  /\ table' = Wanted(request[h]) /\ Goto(h, "store")
  /\ UNCHANGED <<stored, firewallError, unsettled, journal, up, inputs>>

\* Mutant: the row is written although nft refused.
ApplyFails_Saved(h) ==
  /\ request[h].at = "apply" /\ Fault("nft")
  /\ Step(h, NoRequest)
  /\ stored' = Wanted(request[h])
  /\ UNCHANGED <<table, firewallError, unsettled, journal, up>>

(* nft refuses: nothing happened and nothing is saved.                     *)
ApplyFails(h) ==
  /\ request[h].at = "apply" /\ Fault("nft")
  /\ Step(h, NoRequest)
  /\ UNCHANGED <<table, stored, firewallError, unsettled, journal, up>>

(* nft had not answered when it was killed, but its script had committed.  *)
ApplyTimesOut(h) ==
  /\ request[h].at = "apply" /\ Fault("timeout")
  /\ table' = Wanted(request[h]) /\ Step(h, NoRequest) /\ Unsettle
  /\ UNCHANGED <<stored, firewallError, journal, up>>

(* unblock clears firewall_error before it deletes the row, block after it *)
(* inserted it.                                                            *)
Store(h) ==
  LET r == request[h]
  IN  /\ r.at = "store"
      /\ stored' = IF r.op = "block" THEN stored \cup {r.mac} ELSE stored \ {r.mac}
      /\ firewallError' = FALSE
      /\ Goto(h, IF r.op = "block" THEN "kick" ELSE "answer")
      /\ unsettled' = (unsettled /\ ~r.alone)
      /\ UNCHANGED <<table, journal, up, inputs>>

StoreFails(h) ==
  /\ request[h].at = "store" /\ Fault("store")
  /\ firewallError' = (firewallError /\ request[h].op = "block")
  /\ Step(h, NoRequest) /\ Unsettle
  /\ UNCHANGED <<table, stored, journal, up>>

(* Either tool disconnects the device, or both fail and block answers all  *)
(* the same.                                                               *)
Kick(h) ==
  /\ request[h].at = "kick"
  /\ ap' \in {ap, [ap EXCEPT ![request[h].mac] = 0]}
  /\ Goto(h, "answer")
  /\ UNCHANGED <<table, stored, firewallError, unsettled, current, sessions, poll, events, cut, up, inputs>>

Answer(h) ==
  /\ request[h].at = "answer" /\ Step(h, NoRequest)
  /\ UNCHANGED <<table, stored, firewallError, unsettled, journal, up, inputs>>

-----------------------------------------------------------------------------
(* Stations come, go and grow older; joining again begins at 1.            *)
Join(m) ==
  /\ Input /\ ap[m] # 1 /\ ap' = [ap EXCEPT ![m] = 1]
  /\ UNCHANGED <<firewall, current, sessions, poll, events, cut, up>>

Leave(m) ==
  /\ Input /\ ap[m] # 0 /\ ap' = [ap EXCEPT ![m] = 0]
  /\ UNCHANGED <<firewall, current, sessions, poll, events, cut, up>>

Older(age) == IF age \in 1..MaxAge - 1 THEN age + 1 ELSE age

Tick ==
  /\ Input /\ ap' = [m \in Macs |-> Older(ap[m])] /\ ap' # ap
  /\ UNCHANGED <<firewall, current, sessions, poll, events, cut, up>>

\* Mutant: a station that reconnected between two polls is not noticed.
Changes_OnlyGone(before, now) ==
  {<<"DISCONNECTED", m>> : m \in {m \in Macs : before[m] # 0 /\ now[m] = 0}}
    \cup {<<"CONNECTED", m>> : m \in {m \in Macs : now[m] # 0 /\ (before[m] = 0 \/ now[m] < before[m])}}

(* diff_stations: a connection time that went down is a new session.       *)
Changes(before, now) ==
  {<<"DISCONNECTED", m>> : m \in {m \in Macs : now[m] < before[m]}}
    \cup {<<"CONNECTED", m>> : m \in {m \in Macs : now[m] # 0 /\ (before[m] = 0 \/ now[m] < before[m])}}

(* A poll holds the service's lock from its dump to its end.  A dump that  *)
(* fails changes nothing but the error on display.                         *)
BeginPoll ==
  /\ up /\ ~poll.running
  /\ Changes(current, ap) # {} \/ ap # current \/ current # sessions
  /\ poll' = [running |-> TRUE, dump |-> ap, todo |-> Changes(current, ap), changed |-> Changes(current, ap) # {}]
  /\ UNCHANGED <<firewall, ap, current, sessions, events, cut, up, inputs>>

(* Each event is committed on its own, disconnects first.                  *)
LogEvent ==
  /\ poll.running
  /\ \E e \in poll.todo :
       /\ e[1] = "CONNECTED" => \A d \in poll.todo : d[1] = "CONNECTED"
       /\ events' = Append(events, e)
       /\ poll' = [poll EXCEPT !.todo = @ \ {e}]
  /\ UNCHANGED <<firewall, ap, current, sessions, cut, up, inputs>>

(* The poll ends with the exception, and the next one starts from the same *)
(* stations.                                                               *)
LogFails ==
  /\ poll.running /\ poll.todo # {} /\ Fault("store")
  /\ poll' = NoPoll /\ cut' = TRUE
  /\ UNCHANGED <<firewall, ap, current, sessions, events, up>>

EndPoll(saved) ==
  /\ poll.running /\ poll.todo = {}
  /\ current' = poll.dump /\ sessions' = saved /\ poll' = NoPoll
  /\ UNCHANGED <<firewall, ap, events, cut, up, inputs>>

(* Sessions are saved with every change, and every tenth poll without one. *)
SavePoll == EndPoll(poll.dump)

SkipSave == ~poll.changed /\ EndPoll(sessions)

(* The poll ends with an exception after it took over the stations.        *)
SaveFails ==
  /\ poll.running /\ poll.todo = {} /\ Fault("store")
  /\ current' = poll.dump /\ poll' = NoPoll /\ cut' = TRUE
  /\ UNCHANGED <<firewall, ap, sessions, events, up>>

-----------------------------------------------------------------------------
Halt ==
  /\ up' = FALSE /\ request' = [h \in Handlers |-> NoRequest]
  /\ current' = Nobody /\ poll' = NoPoll /\ firewallError' = FALSE /\ unsettled' = FALSE

Crash ==
  /\ up /\ Fault("crash") /\ Halt
  /\ cut' = (cut \/ poll.running)
  /\ UNCHANGED <<table, stored, ap, sessions, events>>

(* The machine stops: the kernel's table and all connections are gone.     *)
Reboot ==
  /\ Fault("reboot") /\ Halt
  /\ cut' = (cut \/ poll.running)
  /\ table' = {} /\ ap' = Nobody
  /\ UNCHANGED <<stored, sessions, events>>

(* close waits for the poll's lock and saves the sessions.                 *)
Stop ==
  /\ up /\ Active = {} /\ ~poll.running /\ Input /\ Halt
  /\ sessions' = current
  /\ UNCHANGED <<table, stored, ap, events, cut>>

\* Mutant: the open sessions are not read back.
Open_Nobody == current' = Nobody

Open == current' = sessions

(* start: the sessions are read, restore_firewall rewrites the table.      *)
Start ==
  /\ ~up /\ up' = TRUE /\ Open
  /\ table' = stored /\ firewallError' = FALSE
  /\ UNCHANGED <<stored, request, unsettled, ap, sessions, poll, events, cut, inputs>>

\* Mutant: a restore that failed is logged and not shown.
StartUnrestored_Silent ==
  /\ ~up /\ Fault("nft") /\ up' = TRUE /\ Open
  /\ firewallError' = FALSE
  /\ UNCHANGED <<table, stored, request, unsettled, ap, sessions, poll, events, cut>>

(* nft refuses the restore: the table is what the last run or the reboot   *)
(* left, and the panel says so.                                            *)
StartUnrestored ==
  /\ ~up /\ Fault("nft") /\ up' = TRUE /\ Open
  /\ firewallError' = TRUE
  /\ UNCHANGED <<table, stored, request, unsettled, ap, sessions, poll, events, cut>>

Poll == BeginPoll \/ LogEvent \/ SavePoll \/ SkipSave

Next ==
  \/ \E h \in Handlers :
       \/ \E op \in {"block", "unblock"}, m \in Macs : Begin(h, op, m)
       \/ Apply(h) \/ ApplyFails(h) \/ ApplyTimesOut(h) \/ Store(h) \/ StoreFails(h) \/ Kick(h) \/ Answer(h)
  \/ \E m \in Macs : Join(m) \/ Leave(m)
  \/ Tick \/ Poll \/ LogFails \/ SaveFails
  \/ Crash \/ Reboot \/ Stop \/ Start \/ StartUnrestored

(* The poller runs every few seconds, its flush counter comes round, and    *)
(* the service is started again.                                           *)
Spec == Init /\ [][Next]_vars /\ WF_vars(Poll) /\ SF_vars(SavePoll) /\ WF_vars(Start)

-----------------------------------------------------------------------------
Places == {"none", "apply", "store", "kick", "answer"}

(* The variables keep their shape. *)
TypeOK ==
  /\ table \subseteq Macs /\ stored \subseteq Macs
  /\ {firewallError, up, unsettled, cut, poll.running} \subseteq BOOLEAN
  /\ \A h \in Handlers : request[h].at \in Places
  /\ {ap, current, sessions} \subseteq [Macs -> 0..MaxAge]
  /\ poll.running => up
  /\ inputs \in 0..MaxInputs

(* A request that had the service for itself and wrote its row leaves the  *)
(* kernel with exactly the stored list, whatever crashes, timeouts and     *)
(* overlapping requests did to the two before.                             *)
RequestAloneSettles ==
  \A h \in Handlers : request[h].at \in {"kick", "answer"} /\ request[h].alone => table = stored

(* When the panel shows no firewall error, a listed device is blocked:     *)
(* after a reboot, a crash between the two writes of a request or a failed *)
(* restore the error is shown until a request rewrote the table.  Requests *)
(* that overlapped, timed out or failed half-way since the start are       *)
(* excepted.                                                               *)
NoErrorMeansEnforced ==
  up /\ Active = {} /\ ~firewallError /\ ~unsettled => stored \subseteq table

(* Among the first n events, the last one about this device is of this kind. *)
Last(kind, m, n) ==
  \E i \in 1..n : events[i] = <<kind, m>> /\ \A j \in i + 1..n : events[j][2] # m

(* The journal of every device alternates between connects and disconnects *)
(* and ends with what the poller, or after a restart the saved sessions,   *)
(* say: a crash between two polls, a reboot and a stop repeat nothing and  *)
(* lose nothing.  Polls cut short by a crash or a failed write do.         *)
JournalIsConsistent ==
  ~cut /\ ~poll.running => \A m \in Macs :
    /\ \A i \in 1..Len(events) :
         events[i][2] = m => (events[i][1] = "CONNECTED" <=> ~Last("CONNECTED", m, i - 1))
    /\ (IF up THEN current[m] ELSE sessions[m]) # 0 <=> Last("CONNECTED", m, Len(events))

(* A device whose session was saved and that is gone is journalled as      *)
(* disconnected, also when it left while the service was down and however  *)
(* polls were cut short.                                                   *)
SavedSessionEnds ==
  \A m \in Macs :
    sessions[m] # 0 /\ ap[m] = 0
      ~> ap[m] # 0 \/ (Last("DISCONNECTED", m, Len(events)) /\ sessions[m] = 0)

(* service.py says of block: "the stored list never claims a block that is *)
(* not there".                                                             *)
ListedIsEnforced == up /\ Active = {} /\ ~firewallError => stored \subseteq table
=============================================================================
