--------------------------- MODULE StandaloneTool ---------------------------
(***************************************************************************)
(* One run of the standalone tool (marstek_basic_info.py): it looks for    *)
(* batteries, queries them one after another over a proxy, and reports.    *)
(* The batteries answer a request or not, in bytes that arrive in chunks   *)
(* of any length; a chunk may be lost, an answer may come after the        *)
(* tool has given up waiting, and a call to the proxy may fail.            *)
(***************************************************************************)
EXTENDS FrameBuffer, Functions

CONSTANTS
    Devices,
    TargetLists,    \* what may be asked for with --target; nothing, to look for any
    AutoLimit,      \* --max-devices
    Commands,       \* SAFE_COMMANDS, a sequence of command bytes
    Payload,        \* what each battery answers to each command
    Unparsable,     \* the commands whose parser raises on that
    MaxFailures,    \* MAX_CONSECUTIVE_FAILURES
    MaxLost,        \* bound on the chunks lost in a run
    MaxWire         \* bound on the bytes on the way

ASSUME ToolAssumption ==
    /\ TargetLists \subseteq Seq(Devices)
    /\ Commands \in Seq(Byte) /\ Payload \in [Devices -> [Range(Commands) -> Payloads]]
    /\ AutoLimit \in Nat \ {0} /\ MaxFailures \in Nat \ {0}
    /\ MaxLost \in Nat /\ MaxWire \in Nat

VARIABLES
    stage,      \* the await that run, discover_devices or the session is at
    targets,
    found,      \* the matching batteries, in the order they were first seen
    todo,       \* the batteries still to be queried, the current one first
    report,     \* per_device_data: nothing yet, data, or failed
    held,       \* batteries connected through the proxy and not released
    refused,    \* those of them whose disconnect failed, of which the tool only writes a line
    alive,      \* the current battery is connected and notifies
    next,       \* index of the command being handled
    failures,   \* consecutive_failures
    results,    \* of the current session
    future,     \* of the command waited for: none, open, cancelled, or its payload
    wire,       \* bytes on the way: which of whose answer
    buffer,     \* of the decoder
    hurt,       \* commands whose answer has lost bytes
    whole,      \* commands whose answer has arrived in full
    got,        \* the frames cut out
    lost, dead  \* chunks lost in this run; commands sent in this session over a lost link

vars == <<stage, targets, found, todo, report, held, refused, alive, next, failures, results,
          future, wire, buffer, hurt, whole, got, lost, dead>>
scanVars == <<targets, found>>
linkVars == <<held, refused>>
streamVars == <<wire, buffer, hurt, whole, got, lost>>
sessionVars == <<alive, next, failures, results, future, dead>>

Listed == Range(Commands)

Device == Head(todo)

Answer == [d \in Devices |-> [c \in Listed |-> NewFrame(c, Payload[d][c])]]

Session == {"ready", "wait", "close"}

(* What a future and a result can be, besides a value. *)
Unset == <<"none">>

Open == <<"open">>

Cancelled == <<"cancelled">>

Error == <<"error">>

Value(payload) == <<"value", payload>>

(* The types, and what belongs together: a session has a battery to query, a command that is
   waited for has a future. *)
Shape ==
    /\ stage \in Session \cup {"start", "scan", "connect", "done"}
    /\ targets \in TargetLists
    /\ Range(found) \cup Range(todo) \subseteq Devices
    /\ report \in [Devices -> {"none", "data", "failed"}]
    /\ held \subseteq Devices /\ refused \subseteq held
    /\ alive \in BOOLEAN /\ failures \in 0..MaxFailures
    /\ next \in 1..(Len(Commands) + 1)
    /\ stage \in Session \cup {"connect"} => todo # <<>>
    /\ stage = "wait" <=> future # Unset
    /\ Len(wire) <= MaxWire /\ lost \in 0..MaxLost

(* ... and feed keeps only bytes of a frame that is not complete yet. *)
TypeOK == Shape /\ Stalled(buffer)

-----------------------------------------------------------------------------
Init ==
    /\ stage = "start" /\ targets \in TargetLists
    /\ found = <<>> /\ todo = <<>> /\ held = {} /\ refused = {}
    /\ report = [d \in Devices |-> "none"]
    /\ alive = FALSE /\ next = 1 /\ failures = 0 /\ future = Unset /\ dead = 0
    /\ results = [c \in Listed |-> Unset]
    /\ wire = <<>> /\ buffer = <<>> /\ hurt = {} /\ whole = {} /\ got = {} /\ lost = 0

(* run up to the discovery: device_info, and the proxy's features. *)
Start ==
    /\ stage = "start"
    /\ stage' \in {"scan", "done"}
    /\ UNCHANGED <<scanVars, todo, report, linkVars, sessionVars, streamVars>>

(* process_advertisement of a battery that is looked for and has not been seen. *)
Advertises(d) ==
    /\ stage = "scan"
    /\ targets = <<>> \/ d \in Range(targets)
    /\ d \notin Range(found)
    /\ found' = Append(found, d)
    /\ UNCHANGED <<stage, targets, todo, report, linkVars, sessionVars, streamVars>>

Query(devices) ==
    /\ todo' = devices
    /\ stage' = IF devices = <<>> THEN "done" ELSE "connect"
    /\ UNCHANGED <<scanVars, report, linkVars, sessionVars, streamVars>>

(* All targets are resolved.  The event that ends the wait is set for targets only. *)
ScanDone ==
    /\ stage = "scan"
    /\ targets # <<>> /\ Len(found) = Len(targets)
    /\ Query(targets)

(* The scan's time is over: a target is missing, or there are as many as there are. *)
ScanEnds ==
    /\ stage = "scan"
    /\ Query(CASE targets = <<>> /\ Len(found) <= AutoLimit -> found
               [] targets = <<>> /\ Len(found) > AutoLimit -> SubSeq(found, 1, AutoLimit)
               [] targets # <<>> /\ Range(targets) \subseteq Range(found) -> targets
               [] OTHER -> <<>>)

-----------------------------------------------------------------------------
(* A new BLEDeviceSession: its own decoder, futures and results. *)
Fresh ==
    /\ next' = 1 /\ failures' = 0 /\ future' = Unset /\ dead' = 0
    /\ results' = [c \in Listed |-> Unset]
    /\ wire' = <<>> /\ buffer' = <<>> /\ hurt' = {} /\ whole' = {} /\ got' = {}
    /\ UNCHANGED lost

(* connect gets through. *)
Connect ==
    /\ stage = "connect"
    /\ Fresh
    /\ stage' = "ready" /\ alive' = TRUE
    /\ held' = held \cup {Device}
    /\ UNCHANGED <<scanVars, todo, report, refused>>

\* Mutant: connect is not closed when a later step of it fails, and run goes on.
ConnectFailsOpen ==
    /\ stage = "connect"
    /\ held' \in {held, held \cup {Device}}
    /\ report' = [report EXCEPT ![Device] = "failed"]
    /\ todo' = Tail(todo)
    /\ stage' = IF todo' = <<>> THEN "done" ELSE "connect"
    /\ UNCHANGED <<scanVars, refused, sessionVars, streamVars>>

(* A step of connect fails: the link, the services or the subscription.  The session closes. *)
ConnectFails ==
    /\ stage = "connect"
    /\ Fresh
    /\ stage' = "close" /\ alive' = FALSE
    /\ held' \in {held, held \cup {Device}}
    /\ report' = [report EXCEPT ![Device] = "failed"]
    /\ UNCHANGED <<scanVars, todo, refused>>

\* Mutant: the session goes on, however many commands have failed.
MoreUnlimited == next <= Len(Commands)

More == next <= Len(Commands) /\ failures < MaxFailures

(* send_command: the future is registered and the request written; it reaches the battery, which *)
(* answers, or it is lost, as it is for certain on a lost link. *)
Send ==
    /\ stage = "ready" /\ More
    /\ stage' = "wait" /\ future' = Open
    /\ LET bytes == [i \in 1..Len(Answer[Device][Commands[next]]) |-> <<Commands[next], i>>] IN
         \/ UNCHANGED wire
         \/ /\ alive /\ Len(wire) + Len(bytes) <= MaxWire
            /\ wire' = wire \o bytes
    /\ dead' = IF alive THEN dead ELSE dead + 1
    /\ UNCHANGED <<scanVars, todo, report, linkVars, alive, next, failures, results, buffer, hurt,
                   whole, got, lost>>

\* Mutant: the future of a command that is over stays in the queue.
EndsOpen(result) ==
    /\ results' = [results EXCEPT ![Commands[next]] = result]
    /\ failures' = IF result = Error THEN failures + 1 ELSE 0
    /\ next' = next + 1
    /\ stage' = "ready"
    /\ UNCHANGED <<scanVars, todo, report, linkVars, alive, future, dead, streamVars>>

\* Mutant: a command that fails is sent again.
EndsAgain(result) ==
    /\ results' = [results EXCEPT ![Commands[next]] = result]
    /\ failures' = IF result = Error THEN failures + 1 ELSE 0
    /\ next' = IF result = Error THEN next ELSE next + 1
    /\ stage' = "ready" /\ future' = Unset
    /\ UNCHANGED <<scanVars, todo, report, linkVars, alive, dead, streamVars>>

(* The end of a command: its result, and the consecutive failures. *)
Ends(result) ==
    /\ results' = [results EXCEPT ![Commands[next]] = result]
    /\ failures' = IF result = Error THEN failures + 1 ELSE 0
    /\ next' = next + 1
    /\ stage' = "ready" /\ future' = Unset
    /\ UNCHANGED <<scanVars, todo, report, linkVars, alive, dead, streamVars>>

(* send_command raises: the write failed, or the time is over. *)
Fails == stage = "wait" /\ future = Cancelled /\ Ends(Error)

(* The future is cancelled; it is in the queue until send_command goes on. *)
Expires ==
    /\ stage = "wait" /\ future = Open
    /\ future' = Cancelled
    /\ UNCHANGED <<stage, scanVars, todo, report, linkVars, alive, next, failures, results, dead,
                   streamVars>>

(* send_command returns the payload, which is parsed. *)
Succeeds ==
    /\ stage = "wait" /\ future \notin {Open, Cancelled}
    /\ Ends(IF Commands[next] \in Unparsable THEN Error ELSE future)

\* Mutant: a frame answers whatever command is waited for.
AnswersAny(frames) == {f \in frames : TRUE}

(* The frames that may answer the command waited for, by their command byte. *)
Answers(frames) == {f \in frames : CommandOf(f) = Commands[next]}

(* _handle_notification with the next n bytes.  A frame that nobody waits for is dropped. *)
Deliver(n) ==
    /\ alive
    /\ LET chunk == [i \in 1..n |-> Answer[Device][wire[i][1]][wire[i][2]]]
           fed == Feed(buffer, chunk)
           frames == Range(fed[1])
       IN
         /\ buffer' = fed[2]
         /\ got' = got \cup frames
         /\ future' = IF future = Open /\ Answers(frames) # {}
                      THEN Value(PayloadOf(CHOOSE f \in Answers(frames) : TRUE))
                      ELSE future
    /\ whole' = whole \cup
         {c \in Listed \ hurt : \E i \in 1..n : wire[i] = <<c, Len(Answer[Device][c])>>}
    /\ wire' = From(wire, n + 1)
    /\ UNCHANGED <<stage, scanVars, todo, report, linkVars, alive, next, failures, results, dead,
                   hurt, lost>>

(* The next n bytes do not arrive. *)
Lose(n) ==
    /\ lost < MaxLost
    /\ lost' = lost + 1
    /\ hurt' = hurt \cup {wire[i][1] : i \in 1..n}
    /\ wire' = From(wire, n + 1)
    /\ UNCHANGED <<stage, scanVars, todo, report, linkVars, sessionVars, buffer, whole, got>>

(* The battery goes out of reach; nothing tells the session's commands. *)
LinkLost ==
    /\ alive
    /\ alive' = FALSE /\ wire' = <<>>
    /\ UNCHANGED <<stage, scanVars, todo, report, linkVars, next, failures, results, future, dead,
                   buffer, hurt, whole, got, lost>>

(* collect_device_data has its results. *)
Collected ==
    /\ stage = "ready" /\ ~More
    /\ stage' = "close"
    /\ report' = [report EXCEPT ![Device] = "data"]
    /\ UNCHANGED <<scanVars, todo, linkVars, sessionVars, streamVars>>

\* Mutant: a battery that fails ends the run.
Rest == IF report[Device] = "failed" THEN <<>> ELSE Tail(todo)

Remaining == Tail(todo)

(* The proxy gives the link up, or the disconnect fails, which is only logged: then the link may *)
(* stay, without anything that the tool could use it for. *)
Disconnect ==
    \/ held' = held \ {Device} /\ refused' = refused \ {Device}
    \/ Device \in held /\ held' = held /\ refused' = refused \cup {Device}

(* close, and run goes on to the next battery, whatever came of the disconnect. *)
Close ==
    /\ stage = "close"
    /\ Disconnect
    /\ alive' = FALSE
    /\ todo' = Remaining
    /\ stage' = IF todo' = <<>> THEN "done" ELSE "connect"
    /\ UNCHANGED <<scanVars, report, next, failures, results, future, dead, streamVars>>

Finished == stage = "done" /\ UNCHANGED vars

Next ==
    \/ Start \/ ScanDone \/ ScanEnds
    \/ \E d \in Devices : Advertises(d)
    \/ Connect \/ ConnectFails \/ Send \/ Fails \/ Expires \/ Succeeds
    \/ \E n \in 1..Len(wire) : Deliver(n) \/ Lose(n)
    \/ LinkLost \/ Collected \/ Close
    \/ Finished

(* Every await of the tool has a time limit or is answered by the proxy. *)
Fairness ==
    /\ WF_vars(Start) /\ WF_vars(ScanEnds) /\ WF_vars(Connect \/ ConnectFails)
    /\ WF_vars(Send) /\ WF_vars(Expires) /\ WF_vars(Fails) /\ WF_vars(Succeeds)
    /\ WF_vars(Collected) /\ WF_vars(Close)

Spec == Init /\ [][Next]_vars /\ Fairness

-----------------------------------------------------------------------------
(* No answer contains a complete frame behind its first byte. *)
NothingHides == \A d \in Devices, c \in Listed : LaterFrames(Answer[d][c]) = {}

(* No answer ends in bytes that an answer of that battery begins with.  If one did, its last bytes
   might be lost and made up for by the first ones of the next answer, which would be spoilt. *)
NothingOverlaps ==
    \A d \in Devices, c, e \in Listed : \A n \in 1..(Len(Answer[d][c]) - 1) :
        n < Len(Answer[d][e]) =>
            ~\A j \in 1..n : Answer[d][c][Len(Answer[d][c]) - n + j] = Answer[d][e][j]

(* As long as nothing of a session is lost, what is cut out of the stream are the answers that
   have arrived in full, however they were split, and nothing else. *)
NothingElseIsCut ==
    stage \in Session /\ hurt = {} => got = {Answer[Device][c] : c \in whole}

(* An answer that arrives in full is cut out of the stream the moment its last byte is there,
   however it was split and whatever was lost of the answers before it, unless the XOR has let a
   frame pass that was pieced together around the loss; and nothing else is, without a loss. *)
IntactFramesGetThrough ==
    /\ stage \in Session /\ got \subseteq {Answer[Device][c] : c \in Listed} =>
           {Answer[Device][c] : c \in whole} \subseteq got
    /\ NothingElseIsCut

(* A value in the report is what that battery answered to that very command: not a late answer
   to an earlier command, not what another battery left behind, not two answers pieced together. *)
AnswerIsOwn ==
    stage \in Session =>
        \A c \in Listed : results[c] \in {Unset, Error, Value(Payload[Device][c])}

(* A battery takes one connection: when the tool goes on to the next or ends, it holds no link but
   those that the proxy failed to give up when asked.  Whichever step of connect failed, it asks. *)
LinksAreReleased == held \subseteq refused \cup IF stage \in Session THEN {Device} ELSE {}

(* A battery that goes out of reach costs a few time limits and no more. *)
GivesUp == dead <= MaxFailures

(* Every run ends, with every target in the report if all of them were found: one that cannot be
   reached does not keep the others out of it. *)
TargetsReported ==
    Range(targets) \subseteq Range(found) => \A d \in Range(targets) : report[d] # "none"

EveryTargetReported == <>[](stage = "done" /\ TargetsReported)

(* The most steps the tool has left: with the current battery, and with those after it. *)
StepsAhead ==
    LET toSend == 3 * (Len(Commands) + 1 - next) IN
    CASE stage = "connect" -> 3 * Len(Commands) + 3
      [] stage = "ready" -> toSend + 2
      [] stage = "wait" -> toSend + (IF future = Open THEN 1 ELSE 0)
      [] stage = "close" -> 1
      [] OTHER -> 0

StepsLeft == Len(todo) * (3 * Len(Commands) + 4) + StepsAhead

(* Whatever the batteries send, late or in pieces, and whatever fails: a step of the queries that is
   not just the arrival or loss of bytes brings the end of the run nearer.  No command is sent
   again in a session, and no answer makes the tool wait longer. *)
QueriesGetShorter ==
    [][todo # <<>> => StepsLeft' < StepsLeft \/ UNCHANGED <<stage, todo, next, future>>]_vars
=============================================================================
