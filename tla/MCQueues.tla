------------------------------- MODULE MCQueues -------------------------------
(***************************************************************************)
(* TLC instance of three parts that hand things over in bounded queues,    *)
(* and whose properties are all safety: the jam session's worker, the      *)
(* reorder buffer of a jam stream, and a capture tap with little room.     *)
(* They share no variable and no step, so each behaviour lets one of them  *)
(* run while the others rest in one initial state; interleaving them would *)
(* add nothing but states.                                                 *)
(***************************************************************************)
EXTENDS JamSession, JitterBuffer

\* CaptureTap, some of whose names the others use too; takes are numbers here.
CONSTANTS Takes, NoTake, PoolBlocks, CmdCapacity, TrashCapacity, MaxBlocks, MaxStreams

VARIABLES
  part,  \* the one this behaviour is about
  streamOpen, streams, cmds, trash, active, retiring, cb, clock, playing, armed,
  stopFlag, dropped, first, captured, free, fileQueue, writer, block, written,
  writeError, overtaken, ctl, ctlTake, session, droppedRead, firstRead, report

Tap == INSTANCE CaptureTap WITH queue <- fileQueue

allTapVars ==
  <<streamOpen, streams, cmds, trash, active, retiring, cb, clock, playing, armed,
    stopFlag, dropped, first, captured, free, fileQueue, writer, block, written,
    writeError, overtaken, ctl, ctlTake, session, droppedRead, firstRead, report>>

QueuesVars == <<part, sessionVars, jitterVars, allTapVars>>

\* The parts that rest have one initial state.
QueuesInit ==
  /\ SessionInit /\ JitterInit /\ Tap!Init
  /\ part \in {"session", "jitter", "tap"}
  /\ part # "session" => live = {} /\ ingress = "routed"
  /\ part # "jitter" => target = 1

LaterTakes == {t \in Takes : t - 1 \in Takes}

\* Takes are interchangeable: it is enough to begin them in one order, here
\* that of their numbers.  A take begins with its writer thread.  No block is
\* captured here, so a wait of the writer that expires before the stop changes
\* nothing, and the files are empty and do not fail.
TapNext ==
  /\ Tap!PromptNext
  /\ \A t \in LaterTakes : writer'[t] # "none" => writer'[t - 1] # "none"
  /\ \A t \in Takes : writer'[t] = "expired" => stopFlag[t]
  /\ UNCHANGED writeError

\* Commands of the host, changes of the room and faults of one behaviour,
\* together.
MaxEvents == 5

\* The session met a stream it cannot decode.
MetUndecodable == ~(wanted \cup live \cup gone \subseteq Decodable)

\* Jams are interchangeable: it is enough to begin with one of them.
FirstJam == CHOOSE j \in Jams : TRUE

\* A session that meets a stream it cannot decode gets one event less.
SessionTurn ==
  /\ SessionNext
  /\ {jam, token, home} = {NoJam} => jam' \in {NoJam, FirstJam}
  /\ budget'.commands + budget'.changes + budget'.faults <= MaxEvents
  /\ MetUndecodable' =>
       budget'.commands + budget'.changes + budget'.faults < MaxEvents

QueuesNext ==
  \/ part = "session" /\ SessionTurn /\ UNCHANGED <<part, jitterVars, allTapVars>>
  \/ part = "jitter" /\ JitterNext /\ UNCHANGED <<part, sessionVars, allTapVars>>
  \/ part = "tap" /\ TapNext /\ UNCHANGED <<part, sessionVars, jitterVars>>

QueuesSpec == QueuesInit /\ [][QueuesNext]_QueuesVars

HeldSinkIsHandedBack == Tap!HeldSinkIsHandedBack

\* The type invariants of the jam client; a resume token, besides, is presented
\* to the jam that issued it only.
JamTypeOK == SessionTypeOK /\ JitterTypeOK
=============================================================================
