-------------------------------- MODULE Relay --------------------------------
(***************************************************************************)
(* The TCP relay of transfer/: one coroutine of TransferServer per         *)
(* connection, one TransferClient at its other end, a stream in each       *)
(* direction.                                                              *)
(*                                                                         *)
(* The server's coroutines share the table of inboxes and interleave at    *)
(* each message they wait for.  A client makes one call at a time.  Every  *)
(* wait has a timeout on both sides, and either side may go away.          *)
(***************************************************************************)
EXTENDS Integers, Sequences, FiniteSets

CONSTANTS
    Conns,              \* connections, each used by one TransferClient
    Users,              \* names to register and to send to
    UserOf,             \* the name each connection registers
    Files,              \* frames that clients send, each of them once
    Containers,         \* those that unpack() accepts
    Size,               \* bytes of each file
    None,               \* no file, no user
    MAX_INBOX_FILES, MAX_INBOX_BYTES,
    Calls,              \* bound: calls of each client
    Sends,              \* bound: recipients and files of each client's sends
    LateClients         \* bound: the clients whose calls may time out

ASSUME ConnsAssumption == IsFiniteSet(Conns) /\ UserOf \in [Conns -> Users]

ASSUME FilesAssumption ==
    /\ None \notin Files \cup Users
    /\ Containers \subseteq Files
    /\ Size \in [Files -> Nat]
    /\ MAX_INBOX_FILES \in Nat
    /\ MAX_INBOX_BYTES \in Nat

ASSUME BoundsAssumption ==
    /\ Calls \in [Conns -> Nat]
    /\ Sends \in [Conns -> SUBSET (Users \X Files)]
    /\ LateClients \subseteq Conns

VARIABLES
    handler,    \* where each server coroutine stands
    registered, \* coroutines whose flag of that name is set
    users,      \* names in _users
    inbox,      \* _users[name].containers
    recipient,  \* of the send request a coroutine is serving
    holding,    \* the container a coroutine is delivering
    caller,     \* where each client's call stands
    calls,      \* calls each client has made
    outgoing,   \* the file each client sent last
    attempted,  \* files some client has sent
    to_server,  \* messages on their way from each client
    to_client,  \* messages on their way to each client
    accepted,   \* history: files ever put into an inbox
    confirmed,  \* history: files for which a client's send() returned
    removed,    \* history: files a coroutine took out of its inbox
    received,   \* history: files a client's receive() returned
    late,       \* history: clients that gave up a call
    crashed     \* history: coroutines ended by an unexpected exception

server_vars == <<handler, registered, users, inbox, recipient, holding>>
client_vars == <<caller, calls, outgoing, attempted>>
stream_vars == <<to_server, to_client>>
server_history == <<accepted, removed, crashed>>
client_history == <<confirmed, received, late>>
vars == <<server_vars, client_vars, stream_vars, server_history, client_history>>

HandlerStates == {"none", "registration", "idle", "container", "skipping",
                  "delivering", "acknowledging", "ended"}

CallerStates == {"off", "connecting", "ready", "framing", "sending", "receiving",
                 "reading", "listing", "closed"}

\* Control messages are JSON frames, containers are binary frames.
Control(type) == [type |-> type]
SendTo(u) == [type |-> "send", user |-> u]
Frame(f) == [type |-> "frame", file |-> f]

Messages == {Control(t) : t \in {"register", "receive", "list", "received", "registered",
                                 "sent", "file", "incoming", "error"}}
            \cup {SendTo(u) : u \in Users} \cup {Frame(f) : f \in Files}

Init ==
    /\ handler = [c \in Conns |-> "none"]
    /\ registered = {}
    /\ users = {}
    /\ inbox = [u \in Users |-> <<>>]
    /\ recipient = [c \in Conns |-> None]
    /\ holding = [c \in Conns |-> None]
    /\ caller = [c \in Conns |-> "off"]
    /\ calls = [c \in Conns |-> 0]
    /\ outgoing = [c \in Conns |-> None]
    /\ attempted = {}
    /\ to_server = [c \in Conns |-> <<>>]
    /\ to_client = [c \in Conns |-> <<>>]
    /\ accepted = {}
    /\ confirmed = [c \in Conns |-> {}]
    /\ removed = [c \in Conns |-> {}]
    /\ received = [c \in Conns |-> {}]
    /\ late = {}
    /\ crashed = {}

-----------------------------------------------------------------------------
(* The server's coroutines *)

\* The coroutine waits for a frame and the next one has arrived.
Has(c, state) == handler[c] = state /\ to_server[c] # <<>>

Takes(c, state) ==
    /\ Has(c, state)
    /\ to_server' = [to_server EXCEPT ![c] = Tail(@)]

Arrived(c) == Head(to_server[c])

\* What is sent to a client that has closed the connection is lost.
Reply(c, m) ==
    to_client' = IF caller[c] = "closed" THEN to_client
                 ELSE [to_client EXCEPT ![c] = Append(@, m)]

GoesTo(c, state) == handler' = [handler EXCEPT ![c] = state]

Register(c) ==
    /\ Takes(c, "registration")
    /\ UserOf[c] \notin users
    /\ users' = users \cup {UserOf[c]}
    /\ registered' = registered \cup {c}
    /\ Reply(c, Control("registered"))
    /\ GoesTo(c, "idle")
    /\ UNCHANGED <<inbox, recipient, holding, client_vars, server_history, client_history>>

\* Mutant: the finally block does not look at the flag.
Ends_Unregistered(c) ==
    /\ GoesTo(c, "ended")
    /\ recipient' = [recipient EXCEPT ![c] = None]
    /\ holding' = [holding EXCEPT ![c] = None]
    /\ to_server' = [to_server EXCEPT ![c] = <<>>]
    /\ registered' = registered \ {c}
    /\ users' = users \ {UserOf[c]}
    /\ inbox' = [inbox EXCEPT ![UserOf[c]] = <<>>]

\* The finally block: the inbox goes with the connection that registered it, and
\* what the client sent and will send goes unread.
Ends(c) ==
    /\ GoesTo(c, "ended")
    /\ recipient' = [recipient EXCEPT ![c] = None]
    /\ holding' = [holding EXCEPT ![c] = None]
    /\ to_server' = [to_server EXCEPT ![c] = <<>>]
    /\ registered' = registered \ {c}
    /\ users' = IF c \in registered THEN users \ {UserOf[c]} ELSE users
    /\ inbox' = IF c \in registered THEN [inbox EXCEPT ![UserOf[c]] = <<>>] ELSE inbox

RefuseName(c) ==
    /\ Has(c, "registration")
    /\ UserOf[c] \in users
    /\ Reply(c, Control("error"))
    /\ Ends(c)
    /\ UNCHANGED <<client_vars, server_history, client_history>>

ReadSend(c) ==
    /\ Takes(c, "idle")
    /\ Arrived(c).type = "send"
    /\ recipient' = [recipient EXCEPT ![c] = Arrived(c).user]
    /\ GoesTo(c, IF Arrived(c).user \in users THEN "container" ELSE "skipping")
    /\ UNCHANGED <<registered, users, inbox, holding, client_vars, to_client,
                   server_history, client_history>>

\* Mutant: the error is only written when the frame was a container.
SkipContainer_Silent(c) ==
    /\ Takes(c, "skipping")
    /\ IF Arrived(c).type = "frame" /\ Arrived(c).file \in Containers
       THEN Reply(c, Control("error")) ELSE UNCHANGED to_client
    /\ GoesTo(c, "idle")
    /\ UNCHANGED <<registered, users, inbox, recipient, holding, client_vars,
                   server_history, client_history>>

\* The recipient was not connected: its frame is read all the same, which keeps
\* the stream in step.
SkipContainer(c) ==
    /\ Takes(c, "skipping")
    /\ Reply(c, Control("error"))
    /\ GoesTo(c, "idle")
    /\ UNCHANGED <<registered, users, inbox, recipient, holding, client_vars,
                   server_history, client_history>>

\* Mutant: any binary frame passes for a container.
IsContainer_Any(m) == m.type = "frame"

\* unpack() accepts the frame that arrived.
IsContainer(m) == m.type = "frame" /\ m.file \in Containers

\* The bytes of some containers, added one after the other.
Bytes(files) ==
    LET total[n \in 0..Len(files)] == IF n = 0 THEN 0 ELSE total[n - 1] + Size[files[n]]
    IN  total[Len(files)]

InboxBytes(u) == Bytes(inbox[u])

\* Mutant: the new container is not counted.
IsFull_WithoutNew(u, f) ==
    \/ Len(inbox[u]) >= MAX_INBOX_FILES
    \/ InboxBytes(u) > MAX_INBOX_BYTES

IsFull(u, f) ==
    \/ Len(inbox[u]) >= MAX_INBOX_FILES
    \/ InboxBytes(u) + Size[f] > MAX_INBOX_BYTES

\* Mutant: a full inbox is reported like a delivery.
RefuseContainer_Sent(c) ==
    /\ Takes(c, "container")
    /\ \/ ~IsContainer(Arrived(c))
       \/ /\ IsContainer(Arrived(c))
          /\ recipient[c] \in users
          /\ IsFull(recipient[c], Arrived(c).file)
    /\ Reply(c, Control(IF IsContainer(Arrived(c)) THEN "sent" ELSE "error"))
    /\ GoesTo(c, "idle")
    /\ UNCHANGED <<registered, users, inbox, recipient, holding, client_vars,
                   server_history, client_history>>

\* Not a container, or the recipient's inbox is full.
RefuseContainer(c) ==
    /\ Takes(c, "container")
    /\ \/ ~IsContainer(Arrived(c))
       \/ /\ IsContainer(Arrived(c))
          /\ recipient[c] \in users
          /\ IsFull(recipient[c], Arrived(c).file)
    /\ Reply(c, Control("error"))
    /\ GoesTo(c, "idle")
    /\ UNCHANGED <<registered, users, inbox, recipient, holding, client_vars,
                   server_history, client_history>>

\* The recipient left while its container arrived: self._users[recipient] raises
\* KeyError, which no except clause of the coroutine names.
RecipientGone(c) ==
    /\ Has(c, "container")
    /\ IsContainer(Arrived(c))
    /\ recipient[c] \notin users
    /\ Ends(c)
    /\ crashed' = crashed \cup {c}
    /\ UNCHANGED <<client_vars, to_client, accepted, removed, client_history>>

\* Mutant: the newest container is delivered first.
Deposit_Front(c) ==
    /\ Takes(c, "container")
    /\ IsContainer(Arrived(c))
    /\ recipient[c] \in users
    /\ ~IsFull(recipient[c], Arrived(c).file)
    /\ inbox' = [inbox EXCEPT ![recipient[c]] = <<Arrived(c).file>> \o @]
    /\ accepted' = accepted \cup {Arrived(c).file}
    /\ Reply(c, Control("sent"))
    /\ GoesTo(c, "idle")
    /\ UNCHANGED <<registered, users, recipient, holding, client_vars, removed, crashed,
                   client_history>>

Deposit(c) ==
    /\ Takes(c, "container")
    /\ IsContainer(Arrived(c))
    /\ recipient[c] \in users
    /\ ~IsFull(recipient[c], Arrived(c).file)
    /\ inbox' = [inbox EXCEPT ![recipient[c]] = Append(@, Arrived(c).file)]
    /\ accepted' = accepted \cup {Arrived(c).file}
    /\ Reply(c, Control("sent"))
    /\ GoesTo(c, "idle")
    /\ UNCHANGED <<registered, users, recipient, holding, client_vars, removed, crashed,
                   client_history>>

\* list, and receive while the inbox is empty.
Answer(c) ==
    /\ Takes(c, "idle")
    /\ \/ Arrived(c).type = "list" /\ Reply(c, Control("incoming"))
       \/ /\ Arrived(c).type = "receive"
          /\ inbox[UserOf[c]] = <<>>
          /\ Reply(c, Control("error"))
       \/ Arrived(c).type = "received" /\ Reply(c, Control("error"))
    /\ UNCHANGED <<server_vars, client_vars, server_history, client_history>>

Announce(c) ==
    /\ Takes(c, "idle")
    /\ Arrived(c).type = "receive"
    /\ inbox[UserOf[c]] # <<>>
    /\ holding' = [holding EXCEPT ![c] = Head(inbox[UserOf[c]])]
    /\ Reply(c, Control("file"))
    /\ GoesTo(c, "delivering")
    /\ UNCHANGED <<registered, users, inbox, recipient, client_vars, server_history,
                   client_history>>

\* Mutant: the container leaves the inbox before it is acknowledged.
Deliver_Removes(c) ==
    /\ handler[c] = "delivering"
    /\ Reply(c, Frame(holding[c]))
    /\ inbox' = [inbox EXCEPT ![UserOf[c]] = Tail(@)]
    /\ removed' = [removed EXCEPT ![c] = @ \cup {holding[c]}]
    /\ GoesTo(c, "idle")
    /\ UNCHANGED <<registered, users, recipient, holding, client_vars, to_server,
                   accepted, crashed, client_history>>

Deliver(c) ==
    /\ handler[c] = "delivering"
    /\ Reply(c, Frame(holding[c]))
    /\ GoesTo(c, "acknowledging")
    /\ UNCHANGED <<registered, users, inbox, recipient, holding, client_vars, to_server,
                   server_history, client_history>>

\* Mutant: the acknowledgement is read, and the container stays for the next receive.
Acknowledge_Keeps(c) ==
    /\ Takes(c, "acknowledging")
    /\ Arrived(c).type = "received"
    /\ GoesTo(c, "idle")
    /\ UNCHANGED <<registered, users, inbox, recipient, holding, client_vars, to_client,
                   server_history, client_history>>

Acknowledge(c) ==
    /\ Takes(c, "acknowledging")
    /\ Arrived(c).type = "received"
    /\ inbox' = [inbox EXCEPT ![UserOf[c]] = Tail(@)]
    /\ removed' = [removed EXCEPT ![c] = @ \cup {Head(inbox[UserOf[c]])}]
    /\ GoesTo(c, "idle")
    /\ UNCHANGED <<registered, users, recipient, holding, client_vars, to_client,
                   accepted, crashed, client_history>>

\* Any other message in the place of the acknowledgement is swallowed.
IgnoreAnswer(c) ==
    /\ Takes(c, "acknowledging")
    /\ Arrived(c).type \notin {"received", "frame"}
    /\ GoesTo(c, "idle")
    /\ UNCHANGED <<registered, users, inbox, recipient, holding, client_vars, to_client,
                   server_history, client_history>>

\* A binary frame in the place of a message: CompressionError ends the coroutine.
Garbled(c) ==
    /\ Has(c, "idle") \/ Has(c, "acknowledging")
    /\ Arrived(c).type = "frame"
    /\ Ends(c)
    /\ UNCHANGED <<client_vars, to_client, server_history, client_history>>

Live(c) == handler[c] \notin {"none", "ended"}

\* The client closed the connection and everything it sent was read.
Disconnected(c) ==
    /\ Live(c)
    /\ caller[c] = "closed"
    /\ to_server[c] = <<>>
    /\ Ends(c)
    /\ UNCHANGED <<client_vars, to_client, server_history, client_history>>

\* FRAME_TIMEOUT passed without a frame or without the client reading one, or
\* writing to a closed connection failed.
HandlerTimeout(c) ==
    /\ Live(c)
    /\ \/ to_server[c] = <<>> /\ handler[c] # "delivering"
       \/ to_client[c] # <<>>
       \/ caller[c] = "closed"
    /\ Ends(c)
    /\ UNCHANGED <<client_vars, to_client, server_history, client_history>>

-----------------------------------------------------------------------------
(* The clients *)

Calling(c, state) == caller' = [caller EXCEPT ![c] = state]

Writes(c, m) ==
    to_server' = IF handler[c] = "ended" THEN to_server
                 ELSE [to_server EXCEPT ![c] = Append(@, m)]

Reads(c, state) ==
    /\ caller[c] = state
    /\ to_client[c] # <<>>
    /\ to_client' = [to_client EXCEPT ![c] = Tail(@)]

Answered(c) == Head(to_client[c])

Connect(c) ==
    /\ caller[c] = "off"
    /\ Writes(c, Control("register"))
    /\ GoesTo(c, "registration")
    /\ Calling(c, "connecting")
    /\ UNCHANGED <<registered, users, inbox, recipient, holding, calls, outgoing,
                   attempted, to_client, server_history, client_history>>

\* Everything but "registered" makes connect() close the connection.
ReadRegistration(c) ==
    /\ Reads(c, "connecting")
    /\ Calling(c, IF Answered(c).type = "registered" THEN "ready" ELSE "closed")
    /\ UNCHANGED <<server_vars, calls, outgoing, attempted, to_server, server_history,
                   client_history>>

Call(c, m, state) ==
    /\ caller[c] = "ready"
    /\ calls[c] < Calls[c]
    /\ calls' = [calls EXCEPT ![c] = @ + 1]
    /\ Writes(c, m)
    /\ Calling(c, state)

Send(c, u, f) ==
    /\ <<u, f>> \in Sends[c]
    /\ f \notin attempted
    /\ Call(c, SendTo(u), "framing")
    /\ outgoing' = [outgoing EXCEPT ![c] = f]
    /\ attempted' = attempted \cup {f}
    /\ UNCHANGED <<server_vars, to_client, server_history, client_history>>

WriteContainer(c) ==
    /\ caller[c] = "framing"
    /\ Writes(c, Frame(outgoing[c]))
    /\ Calling(c, "sending")
    /\ UNCHANGED <<server_vars, calls, outgoing, attempted, to_client, server_history,
                   client_history>>

\* "sent" or an exception.
ReadSent(c) ==
    /\ Reads(c, "sending")
    /\ confirmed' = IF Answered(c).type = "sent"
                    THEN [confirmed EXCEPT ![c] = @ \cup {outgoing[c]}] ELSE confirmed
    /\ Calling(c, "ready")
    /\ UNCHANGED <<server_vars, calls, outgoing, attempted, to_server, server_history,
                   received, late>>

Receive(c) ==
    /\ Call(c, Control("receive"), "receiving")
    /\ UNCHANGED <<server_vars, outgoing, attempted, to_client, server_history,
                   client_history>>

ReadFile(c) ==
    /\ Reads(c, "receiving")
    /\ Calling(c, IF Answered(c).type = "file" THEN "reading" ELSE "ready")
    /\ UNCHANGED <<server_vars, calls, outgoing, attempted, to_server, server_history,
                   client_history>>

\* receive_frame takes any frame for the container.
ReadContainer(c) ==
    /\ Reads(c, "reading")
    /\ received' = IF Answered(c).type = "frame"
                   THEN [received EXCEPT ![c] = @ \cup {Answered(c).file}] ELSE received
    /\ Writes(c, Control("received"))
    /\ Calling(c, "ready")
    /\ UNCHANGED <<server_vars, calls, outgoing, attempted, server_history, confirmed, late>>

List(c) ==
    /\ Call(c, Control("list"), "listing")
    /\ UNCHANGED <<server_vars, outgoing, attempted, to_client, server_history,
                   client_history>>

ReadIncoming(c) ==
    /\ Reads(c, "listing")
    /\ Calling(c, "ready")
    /\ UNCHANGED <<server_vars, calls, outgoing, attempted, to_server, server_history,
                   client_history>>

Waiting(c) == caller[c] \in {"connecting", "sending", "receiving", "reading", "listing"}

Closes(c) ==
    /\ Calling(c, "closed")
    /\ outgoing' = [outgoing EXCEPT ![c] = None]
    /\ to_client' = [to_client EXCEPT ![c] = <<>>]
    /\ UNCHANGED <<server_vars, calls, attempted, to_server, server_history,
                   client_history>>

\* close(), or the program ends, in the middle of a call or between two.
Close(c) ==
    /\ caller[c] \notin {"off", "closed"}
    /\ Closes(c)

\* The server closed the connection: this call and all later ones fail.
EndOfStream(c) ==
    /\ Waiting(c)
    /\ to_client[c] = <<>>
    /\ handler[c] = "ended"
    /\ Closes(c)

\* FRAME_TIMEOUT passed before the answer came: the call fails, but only
\* connect() closes the connection.
CallTimeout(c) ==
    /\ c \in LateClients
    /\ Waiting(c) \/ (caller[c] = "framing" /\ to_server[c] # <<>>)
    /\ IF caller[c] = "connecting"
       THEN Calling(c, "closed") /\ to_client' = [to_client EXCEPT ![c] = <<>>]
       ELSE Calling(c, "ready") /\ UNCHANGED to_client
    /\ late' = late \cup {c}
    /\ UNCHANGED <<server_vars, calls, outgoing, attempted, to_server, server_history,
                   confirmed, received>>

\* Clients may stop calling and connections may stay open.
Quiet ==
    /\ \A c \in Conns : caller[c] \in {"ready", "closed"} /\ to_server[c] = <<>>
    /\ UNCHANGED vars

-----------------------------------------------------------------------------

HandlerStep(c) ==
    \/ Register(c) \/ RefuseName(c)
    \/ ReadSend(c) \/ SkipContainer(c) \/ RefuseContainer(c) \/ RecipientGone(c) \/ Deposit(c)
    \/ Answer(c) \/ Announce(c) \/ Deliver(c) \/ Acknowledge(c) \/ IgnoreAnswer(c)
    \/ Garbled(c) \/ Disconnected(c)

ReadStep(c) ==
    \/ ReadRegistration(c) \/ WriteContainer(c) \/ ReadSent(c) \/ ReadFile(c)
    \/ ReadContainer(c) \/ ReadIncoming(c) \/ EndOfStream(c)

CallStep(c) ==
    \/ Connect(c) \/ Receive(c) \/ List(c)
    \/ \E u \in Users, f \in Files : Send(c, u, f)

Next ==
    \/ \E c \in Conns : \/ HandlerStep(c) \/ HandlerTimeout(c)
                        \/ ReadStep(c) \/ CallStep(c)
                        \/ Close(c) \/ CallTimeout(c)
    \/ Quiet

Spec == Init /\ [][Next]_vars

\* Coroutines run when their message is there, clients read what has arrived.
\* Nothing obliges anyone to call, to close or to time out.
Fairness == \A c \in Conns : WF_vars(HandlerStep(c)) /\ WF_vars(ReadStep(c))

FairSpec == Spec /\ Fairness

-----------------------------------------------------------------------------
(* Properties *)

TypeOK ==
    /\ handler \in [Conns -> HandlerStates]
    /\ registered \subseteq Conns
    /\ users \subseteq Users
    /\ inbox \in [Users -> Seq(Containers)]
    /\ recipient \in [Conns -> Users \cup {None}]
    /\ holding \in [Conns -> Containers \cup {None}]
    /\ caller \in [Conns -> CallerStates]
    /\ calls \in [Conns -> Nat]
    /\ outgoing \in [Conns -> Files \cup {None}]
    /\ attempted \subseteq Files
    /\ to_server \in [Conns -> Seq(Messages)]
    /\ to_client \in [Conns -> Seq(Messages)]
    /\ accepted \subseteq Containers
    /\ confirmed \in [Conns -> SUBSET Files]
    /\ removed \in [Conns -> SUBSET Containers]
    /\ received \in [Conns -> SUBSET Containers]
    /\ late \subseteq Conns
    /\ crashed \subseteq Conns

\* Every name in the table belongs to exactly one coroutine that serves it, and a
\* connection that was refused the name never takes the inbox away with it:
\* self._users[username] cannot fail.
OneHandlerPerInbox ==
    /\ \A u \in Users : u \in users <=> \E c \in registered : UserOf[c] = u
    /\ \A c, d \in registered : UserOf[c] = UserOf[d] => c = d
    /\ \A c \in Conns : c \in registered <=> handler[c] \notin {"none", "registration", "ended"}
    /\ \A u \in Users \ users : inbox[u] = <<>>

\* Coroutines that found the recipient while its inbox had room, and whose
\* containers arrive in any order afterwards, cannot fill it together beyond its two
\* limits.
CapacityKept ==
    \A u \in Users : /\ Len(inbox[u]) <= MAX_INBOX_FILES
                     /\ InboxBytes(u) <= MAX_INBOX_BYTES

\* An inbox that keeps its owner grows at its end, or loses the container that was
\* sent and awaits its acknowledgement.
GrowsOrLosesSent ==
    \A c \in registered \cap registered' :
        LET before == inbox[UserOf[c]]
            after == inbox'[UserOf[c]]
        IN  \/ \E more \in {<<>>} \cup {<<f>> : f \in Containers} : after = before \o more
            \/ /\ handler[c] = "acknowledging"
               /\ before = <<holding[c]>> \o after

\* docs: "a container is removed from the queue only after it was sent to the
\* client".  While the recipient stays connected, an inbox only loses its oldest
\* container, and that is the one its coroutine has sent, whatever was deposited
\* while it waited for the acknowledgement.
LeavesOnlyWhenSent == [][GrowsOrLosesSent]_<<inbox, registered>>

\* A container that was taken out of the inbox has been returned by the client's
\* receive(), as long as this client never gave a call up.
AcknowledgedMeansReceived ==
    \A c \in Conns \ late : removed[c] \subseteq received[c]

\* A client that never gave a call up is never sent a container it was sent before,
\* whatever was deposited while the relay waited for the acknowledgement.
ReceivedOnce ==
    \A c \in Conns \ late : handler[c] = "delivering" => holding[c] \notin received[c]

\* send() returns only if the relay put the container into an inbox, as long as
\* this client never gave a call up.
SentMeansAccepted ==
    \A c \in Conns \ late : confirmed[c] \subseteq accepted

\* A call that waits is answered, or the connection ends, without any timeout,
\* whatever other clients do, unless this client has given a call up.
EveryCallIsAnswered ==
    \A c \in Conns : Waiting(c) ~> (~Waiting(c) \/ c \in late)

\* A test: an invalid recipient does not desynchronise the connection, the sender
\* gets an error and goes on.
SenderIsAnswered == crashed = {}
=============================================================================
