----------------------------- MODULE JamSession -----------------------------
(***************************************************************************)
(* The session worker of the jam client (SphereJamClient, session.rs): it  *)
(* joins a jam, tells the server which streams the host routed, and keeps  *)
(* doing so over events, timeouts, dropped connections and reconnects.     *)
(*                                                                         *)
(* The worker is one thread that blocks in every request.  While it waits  *)
(* for a reply it sets aside the events that arrive (`pending`), so that a *)
(* reply overtakes the events the server sent before it.                   *)
(*                                                                         *)
(* The server is external.  It is modelled from protocol.rs and from how   *)
(* the worker and its tests use it: a participant survives its socket, and *)
(* a join from the same account and device, with a token or without one,   *)
(* re-attaches to it; it keeps its mode and its declared streams, is served*)
(* what it can decode of the room in mode auto, is refused a stream it     *)
(* cannot decode, and hears of a format for each stream it is served once  *)
(* it has said what it can decode.  One participant is tracked, in the jam *)
(* last joined; the one a join to another jam may find there was left by   *)
(* an earlier session, in any state.  A stream id is published once; replay*)
(* of events the snapshot already holds is left out, as is a second session*)
(* of the device that takes over from a connected one.                     *)
(*                                                                         *)
(* Left out: the clock, publishing, media transport candidates and account *)
(* tokens (requests like the others, whose failures are Drop, LoseJam or   *)
(* Timeout here), statistics and snapshots.                                *)
(***************************************************************************)
EXTENDS Naturals, Sequences, FiniteSets, SequencesExt

CONSTANTS
  Streams,      \* stream ids
  Decodable,    \* those this client can decode
  Jams,         \* jams the host may join
  NoJam,        \* no jam, no resume token
  MaxCommands,  \* bound on the host's commands
  MaxChanges,   \* bound on streams published or removed
  MaxFaults     \* bound on timeouts and drops

ASSUME JamSessionAssumption ==
  /\ IsFiniteSet(Streams) /\ Decodable \subseteq Streams /\ NoJam \notin Jams
  /\ MaxCommands \in Nat /\ MaxChanges \in Nat /\ MaxFaults \in Nat

VARIABLES
  phase,       \* where the worker is
  request,     \* the request of a reconcile it waits for
  jam,         \* jam_id
  token,       \* resume_token: the jam that issued it
  ingress,     \* the policy in force
  wanted,      \* streams the host asked for
  subscribed,  \* what the server is believed to hold
  serverMode,  \* the mode the server is believed to hold
  dirty,       \* ingress_dirty
  room,        \* streams in the registry
  formats,     \* streams of the registry with a format
  table,       \* streams the media threads accept
  pending,     \* events set aside while waiting for a reply
  toServer,    \* requests on their way
  wire,        \* replies and events on their way
  epoch,       \* requests given up so far: tells a late reply from the awaited
  live,        \* server: streams published now
  gone,        \* server: streams removed
  member,      \* server: no participant, one the worker knows, or one it does not
  home,        \* server: the participant's jam
  attached,    \* server: this connection has joined
  mode,        \* server: the participant's mode
  declared,    \* server: its declared streams
  eligible,    \* server: it said what it can decode
  asked,       \* history: streams the participant ever asked for
  tookAll,     \* history: it ever asked for everything
  kept,        \* history: streams whose format is not taken back with the stream
  adrift,      \* history: what is believed of the participant was not confirmed
  budget       \* commands, changes and faults so far

workerVars == <<phase, request, jam, token, ingress, wanted, dirty>>
beliefVars == <<subscribed, serverMode>>
roomVars   == <<room, formats, table>>
linkVars   == <<pending, toServer, wire, epoch>>
serverVars == <<live, gone, member, home, attached, mode, declared, eligible>>
historyVars == <<asked, tookAll, kept, adrift>>
sessionVars == <<workerVars, beliefVars, roomVars, linkVars, serverVars,
                 historyVars, budget>>

\* Phases in which the worker waits for a reply during the set-up.
Setup == {"join", "silence", "capabilities"}
Connected == Setup \cup {"first", "media", "command", "turn", "reconcile"}
Phases == {"idle", "backoff", "stopped"} \cup Connected

\* A request to the server; `ids` are the streams it names.
Ask(kind, ids) == [kind |-> kind, ids |-> ids, epoch |-> epoch]
NoRequest == "none"

\* Messages from the server.  The reply to a join carries the room, the
\* others the mode and the declared set after the change.
Event(kind, stream) == [kind |-> kind, stream |-> stream]
Joined(resumed, asking) ==
  [kind |-> "joined", epoch |-> asking.epoch, resumed |-> resumed, streams |-> live]
Ack(asking, held, dropped) ==
  [kind |-> "ack", epoch |-> asking.epoch, mode |-> mode', held |-> held,
   dropped |-> dropped]
Plain(kind, asking) == [kind |-> kind, epoch |-> asking.epoch]

SessionInit ==
  /\ phase = "idle" /\ request = NoRequest /\ jam = NoJam /\ token = NoJam
  /\ ingress \in {"everything", "routed"}
  /\ wanted = {} /\ subscribed = {} /\ serverMode = "auto" /\ dirty = FALSE
  /\ room = {} /\ formats = {} /\ table = {}
  /\ pending = <<>> /\ toServer = <<>> /\ wire = <<>> /\ epoch = 0
  /\ live \in SUBSET Streams /\ gone = {}
  /\ member = "none" /\ home = NoJam /\ attached = FALSE
  /\ mode = "auto" /\ declared = {} /\ eligible = FALSE
  /\ asked = {} /\ tookAll = FALSE /\ kept = {} /\ adrift = FALSE
  /\ budget = [commands |-> 0, changes |-> 0, faults |-> 0]

Spend(what, bound) ==
  /\ budget[what] < bound
  /\ budget' = [budget EXCEPT ![what] = @ + 1]

-----------------------------------------------------------------------------
(* The server.                                                             *)

Offered == live \cap Decodable

Served == IF mode = "auto" THEN Offered ELSE declared

\* A format for each stream that is served now and was not before.
Formats(streams) ==
  [i \in 1..Cardinality(streams) |-> Event("format", SetToSeq(streams)[i])]

Request == Head(toServer)

\* The participant tracked is one of the jam that is joined.
AtHome == member # "none" /\ home = jam

\* The device is recognised, token or not.  A participant whose join was never
\* answered is one the worker believes nothing true of.
Reattach ==
  /\ AtHome
  /\ wire' = Append(wire, Joined(TRUE, Request))
  /\ adrift' = (adrift \/ member = "unknown")
  /\ UNCHANGED <<member, home, mode, declared, eligible, tookAll, budget>>

\* A token of a participant that is gone.
Refuse ==
  /\ Request.kind = "rejoin" /\ ~(AtHome /\ member = "known")
  /\ wire' = Append(wire, Plain("rejected", Request))
  /\ UNCHANGED <<member, home, mode, declared, eligible, tookAll, adrift, budget>>

Admit ==
  /\ ~AtHome
  /\ wire' = Append(wire, Joined(FALSE, Request))
  /\ member' = "unknown" /\ home' = jam
  /\ mode' = "auto" /\ declared' = {} /\ eligible' = FALSE
  /\ UNCHANGED <<tookAll, adrift, budget>>

\* The participant an earlier session of this device left in the jam.
Inherit ==
  /\ ~AtHome
  /\ Spend("changes", MaxChanges)
  /\ wire' = Append(wire, Joined(TRUE, Request))
  /\ member' = "unknown" /\ home' = jam
  /\ mode' \in {"auto", "explicit"} /\ eligible' \in BOOLEAN
  /\ declared' \in IF mode' = "auto" THEN {{}} ELSE SUBSET Offered
  /\ tookAll' = TRUE /\ adrift' = TRUE

ServeJoin ==
  /\ toServer # <<>> /\ Request.kind \in {"join", "rejoin"}
  /\ toServer' = Tail(toServer)
  /\ \/ Refuse /\ UNCHANGED attached
     \/ (Reattach \/ Admit \/ Inherit) /\ attached' = TRUE
  /\ UNCHANGED <<workerVars, beliefVars, roomVars, pending, epoch, live, gone, asked,
                 kept>>

\* The streams a subscribe adds: those it names that are published and can be
\* decoded, the others are refused one by one; or under `all` the choice of the
\* server.
ServeIngress ==
  /\ toServer # <<>> /\ Request.kind \in {"silence", "drop", "take", "all"}
  /\ toServer' = Tail(toServer)
  /\ mode' = IF Request.kind = "all" THEN "auto" ELSE "explicit"
  /\ LET named == Request.ids \cap Offered
         held == CASE Request.kind \in {"silence", "all"} -> {}
                   [] Request.kind = "drop" -> declared \ Request.ids
                   [] Request.kind = "take" /\ mode = "auto" -> named
                   [] Request.kind = "take" /\ mode # "auto" -> declared \cup named
         now == IF Request.kind = "all" THEN Offered ELSE held
     IN
     /\ declared' = held
     /\ wire' = (wire \o <<Ack(Request, held, Served \ now)>>)
                  \o (IF eligible THEN Formats(now \ Served) ELSE <<>>)
  /\ UNCHANGED <<workerVars, beliefVars, roomVars, pending, epoch, live,
                 gone, member, home, attached, eligible, historyVars, budget>>

ServeCapabilities ==
  /\ toServer # <<>> /\ Request.kind = "capabilities"
  /\ toServer' = Tail(toServer)
  /\ eligible' = TRUE
  /\ wire' = Append(wire, Plain("capabilities", Request)) \o Formats(Served)
  /\ UNCHANGED <<workerVars, beliefVars, roomVars, pending, epoch, live,
                 gone, member, home, attached, mode, declared, historyVars, budget>>

Announce(events) == wire' = IF attached THEN wire \o events ELSE wire

Publish(s) ==
  /\ s \notin live \cup gone
  /\ Spend("changes", MaxChanges)
  /\ live' = live \cup {s}
  /\ Announce(<<Event("added", s)>> \o
               (IF mode = "auto" /\ eligible /\ s \in Decodable
                  THEN <<Event("format", s)>> ELSE <<>>))
  /\ UNCHANGED <<workerVars, beliefVars, roomVars, pending, toServer, epoch,
                 gone, member, home, attached, mode, declared, eligible, historyVars>>

\* Unpublished, or its publisher left.
Withdraw(s, kind) ==
  /\ s \in live
  /\ Spend("changes", MaxChanges)
  /\ live' = live \ {s} /\ gone' = gone \cup {s}
  /\ declared' = declared \ {s}
  /\ Announce(<<Event(kind, s)>>)
  /\ UNCHANGED <<workerVars, beliefVars, roomVars, pending, toServer, epoch,
                 member, home, attached, mode, eligible, historyVars>>

\* The resume window closes.
Expire ==
  /\ ~attached /\ member # "none"
  /\ member' = "none"
  /\ UNCHANGED <<workerVars, beliefVars, roomVars, linkVars, live, gone,
                 home, attached, mode, declared, eligible, historyVars, budget>>

-----------------------------------------------------------------------------
(* The host's routing commands.                                            *)

\* Each names a policy and what is wanted under it.
RouteChoices ==
  {<<"routed", wanted \cup {s}>> : s \in Streams}
  \cup {<<"routed", wanted \ {s}>> : s \in Streams}
  \cup {<<"routed", {}>>, <<"everything", {}>>}

\* Taken while idle, in the backoff, or once per turn of the pump.
HostRoutes(choice) ==
  /\ phase \in {"idle", "backoff", "command"}
  /\ Spend("commands", MaxCommands)
  /\ ingress' = choice[1] /\ wanted' = choice[2] /\ dirty' = TRUE
  /\ asked' = asked \cup choice[2]
  /\ tookAll' = (tookAll \/ choice[1] = "everything")
  /\ phase' = IF phase = "command" THEN "turn" ELSE phase
  /\ UNCHANGED <<request, jam, token, beliefVars, roomVars, linkVars, serverVars,
                 kept, adrift>>

-----------------------------------------------------------------------------
(* Connecting.                                                             *)

\* A new socket: join, with the resume token if there is one.
Dial(j, t) ==
  /\ phase' = "join" /\ request' = NoRequest
  /\ jam' = j /\ token' = t
  /\ toServer' = <<Ask(IF t = NoJam THEN "join" ELSE "rejoin", {})>>

\* Join while idle forgets the token and the room.
JoinJam(j) ==
  /\ phase = "idle"
  /\ Spend("commands", MaxCommands)
  /\ Dial(j, NoJam)
  /\ room' = {} /\ formats' = {}
  /\ UNCHANGED <<ingress, wanted, dirty, beliefVars, table, pending, wire, epoch,
                 serverVars, historyVars>>

\* Mutant of TokenFor: another jam is joined with the token at hand.
TokenKept(j) == token

\* Join during the backoff: a token is good for its own jam only.
TokenFor(j) == IF j = jam THEN token ELSE NoJam

SwitchJam(j) ==
  /\ phase = "backoff"
  /\ Spend("commands", MaxCommands)
  /\ jam' = j /\ token' = TokenFor(j)
  /\ IF j = jam THEN UNCHANGED <<room, formats>> ELSE room' = {} /\ formats' = {}
  /\ UNCHANGED <<phase, request, ingress, wanted, dirty, beliefVars, table, linkVars,
                 serverVars, historyVars>>

\* The end of the backoff.
Redial ==
  /\ phase = "backoff"
  /\ Dial(jam, token)
  /\ UNCHANGED <<ingress, wanted, dirty, beliefVars, roomVars, pending, wire, epoch,
                 serverVars, historyVars, budget>>

\* The connection and everything on it is gone, and the media threads with it.
Disconnect ==
  /\ pending' = <<>> /\ toServer' = <<>> /\ wire' = <<>> /\ epoch' = 0
  /\ attached' = FALSE /\ table' = {} /\ request' = NoRequest
  /\ UNCHANGED <<live, gone, home, mode, declared, eligible>>

\* A request of the worker that changes what the server sends is under way.
Awaiting == phase = "silence" \/ request # NoRequest

\* The socket or the media transport is lost, or a request of the set-up or a
\* join was not answered in time.
Drop ==
  /\ phase \in Connected
  /\ Spend("faults", MaxFaults)
  /\ Disconnect
  /\ phase' = "backoff"
  /\ adrift' = (adrift \/ Awaiting)
  /\ UNCHANGED <<jam, token, ingress, wanted, dirty, beliefVars, room, formats,
                 member, asked, tookAll, kept>>

\* The jam was closed, or an error that is terminal.
LoseJam ==
  /\ phase \in Connected
  /\ Spend("faults", MaxFaults)
  /\ Disconnect
  /\ phase' = "idle" /\ jam' = NoJam
  /\ adrift' = (adrift \/ Awaiting)
  /\ UNCHANGED <<token, ingress, wanted, dirty, beliefVars, room, formats, member,
                 asked, tookAll, kept>>

\* Leave, taken by the pump or during the backoff.
Leave ==
  /\ phase \in {"command", "backoff"}
  /\ Spend("commands", MaxCommands)
  /\ Disconnect
  /\ phase' = "idle" /\ jam' = NoJam
  /\ token' = IF phase = "command" THEN NoJam ELSE token
  /\ member' = IF phase = "command" THEN "none" ELSE member
  /\ UNCHANGED <<ingress, wanted, dirty, beliefVars, room, formats, historyVars>>

\* Shutdown, or the handle was dropped.  Read where commands are.
Shutdown ==
  /\ phase \in {"idle", "backoff", "command"}
  /\ Disconnect
  /\ phase' = "stopped"
  /\ UNCHANGED <<jam, token, ingress, wanted, dirty, beliefVars, room, formats, member,
                 historyVars, budget>>

-----------------------------------------------------------------------------
(* Requests and replies.                                                   *)

Send(asking) ==
  /\ toServer' = Append(toServer, asking)
  /\ request' = asking.kind

Replies == {"joined", "rejected", "ack", "capabilities"}

Answers(message) == message.kind \in Replies /\ message.epoch = epoch

\* The awaited reply is taken out; what came before it is set aside.
Receive(reply) ==
  \E i \in 1..Len(wire) :
    /\ Answers(wire[i]) /\ \A j \in 1..(i - 1) : ~Answers(wire[j])
    /\ reply = wire[i]
    /\ pending' = pending \o SubSeq(wire, 1, i - 1)
    /\ wire' = SubSeq(wire, i + 1, Len(wire))

\* Mutant of Retire: the media table is left for the next event to refresh.
RetireUnsynced(streams) == formats' = formats \ streams /\ UNCHANGED table

\* retire_formats and sync_subscriptions.
Retire(streams) == formats' = formats \ streams /\ table' = formats'

\* apply_unsubscribed
ApplyUnsubscribed(ack) ==
  /\ serverMode' = ack.mode
  /\ Retire(ack.dropped \cup (subscribed \ ack.held))
  /\ subscribed' = ack.held

\* apply_subscribed
ApplySubscribed(ack) ==
  /\ serverMode' = ack.mode
  /\ IF ack.mode = "auto"
       THEN subscribed' = {} /\ UNCHANGED <<formats, table>>
       ELSE subscribed' = ack.held /\ Retire(subscribed \ ack.held)

\* Mutant of FirstRequest: a client that chooses becomes eligible at once.
CapabilitiesFirst == "capabilities"

\* A client that chooses asks for silence before it becomes eligible.
FirstRequest == IF ingress = "routed" THEN "silence" ELSE "capabilities"

\* A fresh participant is in mode auto; a resumed one kept what it declared.
BeliefAfterJoin(resumed) ==
  IF resumed THEN <<serverMode, subscribed>> ELSE <<"auto", {}>>

\* The registry is built anew from the snapshot.
FormatsAfterReset == {}

JoinAnswered ==
  /\ phase = "join"
  /\ \E reply \in {wire[i] : i \in 1..Len(wire)} :
       /\ reply.kind = "joined" /\ Receive(reply)
       /\ token' = jam /\ member' = "known"
       /\ room' = reply.streams /\ formats' = FormatsAfterReset
       /\ serverMode' = BeliefAfterJoin(reply.resumed)[1]
       /\ subscribed' = BeliefAfterJoin(reply.resumed)[2]
       /\ phase' = FirstRequest
       /\ toServer' = Append(toServer, Ask(FirstRequest, {}))
       /\ asked' = wanted \cup (IF reply.resumed THEN asked ELSE {})
       /\ tookAll' = ((reply.resumed /\ tookAll) \/ ingress = "everything")
       /\ adrift' = (adrift /\ reply.resumed)
  /\ kept' = {}
  /\ UNCHANGED <<request, jam, ingress, wanted, dirty, table, epoch, live, gone, home,
                 attached, mode, declared, eligible, budget>>

\* ResumeRejected: the participant is gone, the next attempt joins afresh.
JoinRejected ==
  /\ phase = "join"
  /\ \E i \in 1..Len(wire) : wire[i].kind = "rejected"
  /\ Disconnect
  /\ phase' = "backoff" /\ token' = NoJam
  /\ UNCHANGED <<jam, ingress, wanted, dirty, beliefVars, room, formats, member,
                 historyVars, budget>>

\* The formats the answer to a request leaves behind: those on their way, that
\* its answer overtook, of streams it took away; and those of the streams the
\* server chose, when the host takes streams of its own out of mode auto.
KeptAfter(ack) ==
  LET coming == {m \in ToSet(pending') \cup ToSet(wire') : m.kind = "format"}
      chosen == IF request = "take" /\ serverMode = "auto" THEN formats ELSE {}
  IN  IF ack.mode = "auto" THEN kept
      ELSE kept \cup ((chosen \cup {m.stream : m \in coming}) \ ack.held)

\* What the worker believes is now the server's word.
SilenceAnswered ==
  /\ phase = "silence"
  /\ \E reply \in {wire[i] : i \in 1..Len(wire)} :
       /\ reply.kind = "ack" /\ Receive(reply)
       /\ ApplyUnsubscribed(reply)
       /\ kept' = KeptAfter(reply)
  /\ phase' = "capabilities" /\ adrift' = FALSE
  /\ toServer' = Append(toServer, Ask("capabilities", {}))
  /\ UNCHANGED <<request, jam, token, ingress, wanted, dirty, room, epoch, serverVars,
                 asked, tookAll, budget>>

-----------------------------------------------------------------------------
(* Reconciling.                                                            *)

\* What the room has of what the host wants.
Want == wanted \cap room

\* The streams to add.  Out of mode auto everything wanted is restated.
TakeNext(md, held) ==
  LET add == IF md = "auto" THEN Want ELSE Want \ held
  IN  IF add = {} THEN {} ELSE {Ask("take", add)}

\* The first request of reconcile_ingress, if it needs any.
FirstNeeded ==
  CASE ingress = "everything" ->
         IF serverMode = "auto" THEN {} ELSE {Ask("all", {})}
    [] ingress = "routed" /\ Want = {} ->
         IF serverMode = "explicit" /\ subscribed = {} THEN {} ELSE {Ask("silence", {})}
    [] ingress = "routed" /\ Want # {} ->
         IF serverMode = "explicit" /\ subscribed \ Want # {}
           THEN {Ask("drop", subscribed \ Want)}
           ELSE TakeNext(serverMode, subscribed)

\* Where the worker goes on after a reconcile.
AfterReconcile(from) == IF from \in {"capabilities", "first"} THEN "media" ELSE "turn"

\* reconcile_ingress up to its first request.
Reconcile(from, waiting) ==
  /\ dirty' = FALSE
  /\ \/ /\ FirstNeeded = {}
        /\ phase' = AfterReconcile(from)
        /\ UNCHANGED <<toServer, request>>
     \/ /\ phase' = waiting
        /\ \E asking \in FirstNeeded : Send(asking)

CapabilitiesAnswered ==
  /\ phase = "capabilities"
  /\ \E reply \in {wire[i] : i \in 1..Len(wire)} :
       reply.kind = "capabilities" /\ Receive(reply)
  /\ Reconcile("capabilities", "first")
  /\ UNCHANGED <<jam, token, ingress, wanted, beliefVars, roomVars, epoch, serverVars,
                 historyVars, budget>>

\* A turn of the pump that finds the wanted set and the room apart.
StartReconcile ==
  /\ phase \in {"command", "turn"} /\ dirty
  /\ Reconcile("turn", "reconcile")
  /\ UNCHANGED <<jam, token, ingress, wanted, beliefVars, roomVars, pending, wire, epoch,
                 serverVars, historyVars, budget>>

\* After a drop the streams to add follow; any other request is the last.
IngressAnswered ==
  /\ phase \in {"first", "reconcile"} /\ request # NoRequest
  /\ \E reply \in {wire[i] : i \in 1..Len(wire)} :
       /\ reply.kind = "ack" /\ Receive(reply)
       /\ IF request \in {"silence", "drop"}
            THEN ApplyUnsubscribed(reply)
            ELSE ApplySubscribed(reply)
       /\ kept' = KeptAfter(reply)
  /\ LET more == IF request = "drop" THEN TakeNext(serverMode', subscribed') ELSE {} IN
     \/ /\ more = {}
        /\ phase' = AfterReconcile(phase) /\ request' = NoRequest
        /\ UNCHANGED toServer
     \/ \E asking \in more : Send(asking) /\ UNCHANGED phase
  /\ UNCHANGED <<jam, token, ingress, wanted, dirty, room, epoch, serverVars, asked, tookAll,
                 adrift, budget>>

\* The request was not answered in time: the error is recorded, and the
\* session goes on.
GiveUp ==
  /\ phase \in {"first", "reconcile"}
  /\ Spend("faults", MaxFaults)
  /\ phase' = AfterReconcile(phase) /\ request' = NoRequest
  /\ epoch' = epoch + 1 /\ adrift' = TRUE
  /\ UNCHANGED <<jam, token, ingress, wanted, dirty, beliefVars, roomVars, pending,
                 toServer, wire, serverVars, asked, tookAll, kept>>

\* open_media: the media threads start with the table of the registry.
OpenMedia ==
  /\ phase = "media"
  /\ phase' = "command" /\ table' = formats
  /\ UNCHANGED <<request, jam, token, ingress, wanted, dirty, beliefVars, room, formats,
                 linkVars, serverVars, historyVars, budget>>

-----------------------------------------------------------------------------
(* Events.                                                                 *)

\* Mutant of Attaches: a stream that appears is not looked up in the wanted set.
NeverAttaches(s) == FALSE

\* A stream the host waits for appeared.
Attaches(s) == s \in wanted

\* apply_event.  A late reply is a message nobody knows.
Apply(event) ==
  CASE event.kind = "added" ->
         /\ room' = room \cup {event.stream}
         /\ dirty' = (dirty \/ Attaches(event.stream))
         /\ table' = formats
         /\ UNCHANGED <<formats, subscribed>>
    [] event.kind = "removed" ->
         /\ room' = room \ {event.stream}
         /\ formats' = formats \ {event.stream}
         /\ subscribed' = subscribed \ {event.stream}
         /\ table' = formats'
         /\ UNCHANGED dirty
    [] event.kind = "left" ->
         /\ room' = room \ {event.stream}
         /\ formats' = formats \ {event.stream}
         /\ table' = formats'
         /\ UNCHANGED <<subscribed, dirty>>
    [] event.kind = "format" /\ event.stream \in room ->
         /\ formats' = formats \cup {event.stream}
         /\ table' = formats'
         /\ UNCHANGED <<room, subscribed, dirty>>
    [] OTHER -> UNCHANGED <<room, formats, subscribed, dirty, table>>

\* The pump takes one message a turn, those set aside first.
PollEvent ==
  /\ phase \in {"command", "turn"} /\ ~dirty
  /\ pending # <<>> \/ wire # <<>>
  /\ IF pending # <<>>
       THEN Apply(Head(pending)) /\ pending' = Tail(pending) /\ UNCHANGED wire
       ELSE Apply(Head(wire)) /\ wire' = Tail(wire) /\ UNCHANGED pending
  /\ phase' = "command"
  /\ UNCHANGED <<request, jam, token, ingress, wanted, serverMode, toServer, epoch,
                 serverVars, historyVars, budget>>

\* Nothing arrived within the poll interval.
PollNothing ==
  /\ phase = "turn" /\ ~dirty /\ pending = <<>>
  /\ phase' = "command"
  /\ UNCHANGED <<request, jam, token, ingress, wanted, dirty, beliefVars, roomVars,
                 linkVars, serverVars, historyVars, budget>>

SessionNext ==
  \/ ServeJoin \/ ServeIngress \/ ServeCapabilities \/ Expire
  \/ \E s \in Streams : Publish(s)
  \/ \E s \in Streams, kind \in {"removed", "left"} : Withdraw(s, kind)
  \/ \E choice \in RouteChoices : HostRoutes(choice)
  \/ \E j \in Jams : JoinJam(j)
  \/ \E j \in Jams : SwitchJam(j)
  \/ Redial \/ Drop \/ LoseJam \/ Leave \/ Shutdown
  \/ JoinAnswered \/ JoinRejected \/ SilenceAnswered \/ CapabilitiesAnswered
  \/ StartReconcile \/ IngressAnswered \/ GiveUp \/ OpenMedia
  \/ PollEvent \/ PollNothing

SessionSpec == SessionInit /\ [][SessionNext]_sessionVars

-----------------------------------------------------------------------------
(* Properties.                                                             *)

Requests == {"join", "rejoin", "silence", "capabilities", "drop", "take", "all"}
Asks == [kind : Requests, ids : SUBSET Streams, epoch : Nat]
Messages ==
  [kind : {"added", "removed", "left", "format"}, stream : Streams]
  \cup [kind : {"joined"}, epoch : Nat, resumed : BOOLEAN, streams : SUBSET Streams]
  \cup [kind : {"ack"}, epoch : Nat, mode : {"auto", "explicit"},
        held : SUBSET Streams, dropped : SUBSET Streams]
  \cup [kind : {"rejected", "capabilities"}, epoch : Nat]

Budgets ==
  [commands : 0..MaxCommands, changes : 0..MaxChanges, faults : 0..MaxFaults]

SessionTypeOK ==
  /\ phase \in Phases /\ request \in Requests \cup {NoRequest}
  /\ jam \in Jams \cup {NoJam} /\ token \in Jams \cup {NoJam}
  /\ jam # NoJam => token \in {jam, NoJam}
  /\ ingress \in {"everything", "routed"} /\ wanted \subseteq Streams
  /\ dirty \in BOOLEAN
  /\ subscribed \subseteq Streams /\ serverMode \in {"auto", "explicit"}
  /\ room \subseteq Streams /\ formats \subseteq room /\ table \subseteq Streams
  /\ \A i \in 1..Len(toServer) : toServer[i] \in Asks
  /\ \A m \in ToSet(pending) \cup ToSet(wire) : m \in Messages
  /\ epoch \in Nat /\ budget \in Budgets /\ epoch <= budget.faults
  /\ live \subseteq Streams /\ gone \subseteq Streams \ live
  /\ member \in {"none", "known", "unknown"} /\ home \in Jams \cup {NoJam}
  /\ attached \in BOOLEAN
  /\ mode \in {"auto", "explicit"} /\ declared \subseteq Streams
  /\ eligible \in BOOLEAN
  /\ asked \subseteq Streams /\ tookAll \in BOOLEAN
  /\ kept \subseteq Streams /\ adrift \in BOOLEAN

\* Everything that was sent has been handled.
Quiet ==
  /\ phase = "command" /\ ~dirty
  /\ pending = <<>> /\ toServer = <<>> /\ wire = <<>>

\* What the server sends is what the host asked for, however routing commands,
\* joins, drops, refusals and a changing room interleave: once everything is
\* handled, the server serves what can be decoded of the wanted streams of the
\* room (or of all of it), each of them is decoded, and nothing else is but
\* what was left behind.  Claimed while the belief about the participant was
\* confirmed: it is fresh or was silenced, and every request since was answered.
QuietMeansRouted ==
  (Quiet /\ ~adrift) =>
    /\ room = live
    /\ Served = Decodable \cap (IF ingress = "everything" THEN live ELSE wanted \cap live)
    /\ (mode = "auto") = (ingress = "everything")
    /\ Served \subseteq table /\ table \subseteq Served \cup kept

\* "Silence first": a participant that only ever routed is never sent, and
\* never decodes, a stream it did not ask for.
RoutedHearsOnlyRouted ==
  ~tookAll =>
    /\ formats \cup table \subseteq asked
    /\ \A m \in ToSet(pending) \cup ToSet(wire) :
         m.kind = "format" => m.stream \in asked

\* The media threads accept the streams of the registry that have a format
\* while the pump runs, and none once the connection is gone.
TableFollowsRegistry ==
  /\ phase \in {"command", "turn", "reconcile"} => table = formats
  /\ phase \in {"idle", "backoff", "join", "stopped"} => table = {}
=============================================================================
